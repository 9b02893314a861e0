------------------------- MODULE IngestClientProofs -------------------------
(***************************************************************************)
(* Proofs about IngestClient for all lines, payloads and names, whatever   *)
(* the order of commands, payloads and failures of the connection.         *)
(***************************************************************************)
EXTENDS IngestClient, FiniteSetTheorems, SequenceTheorems, WellFoundedInduction, TLAPS

-----------------------------------------------------------------------------
(* Induction over the numbers, and what FlattenSeq makes of its sequences. *)

\* A set with 0 and every successor has all numbers: the order is well-founded.
LEMMA SetInduction ==
  ASSUME NEW S, 0 \in S, \A n \in Nat : n \in S => n + 1 \in S
  PROVE  Nat \subseteq S
<1> DEFINE T == Nat \ S
<1> SUFFICES ASSUME T # {} PROVE FALSE
  OBVIOUS
<1>1. PICK x \in T : \A y \in T : ~(<<y, x>> \in OpToRel(<, Nat))
  <2> HIDE DEF T
  <2>1. T \subseteq Nat
    BY DEF T
  <2> QED BY <2>1, NatLessThanWellFounded, WFMin, Zenon
<1>2. x \in Nat /\ x # 0 /\ x \notin S
  OBVIOUS
<1>3. x - 1 \in Nat /\ (x - 1) + 1 = x
  BY <1>2
<1>4. x - 1 \notin S
  BY <1>2, <1>3
<1>5. <<x - 1, x>> \in OpToRel(<, Nat)
  BY <1>2, <1>3 DEF OpToRel
<1> QED BY <1>1, <1>3, <1>4, <1>5

\* The function FlattenSeq is defined by: the first i of a sequence of sequences, joined.
Joins(f, ss, n) == f = [i \in 1..n |-> IF i = 1 THEN ss[i] ELSE f[i - 1] \o ss[i]]

LEMMA JoinsExist ==
  ASSUME NEW ss, NEW n \in Nat
  PROVE  \E f : Joins(f, ss, n)
<1> DEFINE S == {m \in Nat : \E f : Joins(f, ss, m)}
<1>1. 0 \in S
  <2> DEFINE f == [i \in {} |-> ss]
  <2>1. 1..0 = {}
    OBVIOUS
  <2>2. Joins(f, ss, 0)
    BY <2>1 DEF Joins
  <2> QED
    BY <2>2
<1>2. ASSUME NEW m \in Nat, m \in S
      PROVE  m + 1 \in S
  <2>1. PICK f : Joins(f, ss, m)
    BY <1>2
  <2> DEFINE Ith(i) == IF i = 1 THEN ss[i] ELSE f[i - 1] \o ss[i]
             g == [i \in 1..(m + 1) |-> Ith(i)]
  <2>2. f = [i \in 1..m |-> Ith(i)]
    BY <2>1 DEF Joins
  <2> HIDE DEF Ith
  <2>3. \A i \in 1..m : f[i] = g[i]
    BY <2>2
  <2>4. \A i \in 1..(m + 1) : i # 1 => i - 1 \in 1..m
    OBVIOUS
  <2>5. \A i \in 1..(m + 1) : Ith(i) = IF i = 1 THEN ss[i] ELSE g[i - 1] \o ss[i]
    BY <2>3, <2>4 DEF Ith
  <2> HIDE DEF g
  <2>6. g = [i \in 1..(m + 1) |-> IF i = 1 THEN ss[i] ELSE g[i - 1] \o ss[i]]
    BY <2>5 DEF g
  <2>7. Joins(g, ss, m + 1)
    BY <2>6 DEF Joins
  <2> QED
    BY <2>7
<1> HIDE DEF S
<1>3. Nat \subseteq S
  BY <1>1, <1>2, SetInduction
<1> QED
  BY <1>3 DEF S

LEMMA FlattenJoins ==
  ASSUME NEW M, NEW ss \in Seq(Seq(M)), ss # <<>>
  PROVE  \E f : Joins(f, ss, Len(ss)) /\ FlattenSeq(ss) = f[Len(ss)]
<1>1. Len(ss) \in Nat /\ Len(ss) # 0
  BY EmptySeq, LenProperties
<1>2. \E f : Joins(f, ss, Len(ss))
  BY <1>1, JoinsExist
<1>3. FlattenSeq(ss) = (CHOOSE f : Joins(f, ss, Len(ss)))[Len(ss)]
  BY <1>1 DEF FlattenSeq, Joins
<1> QED
  BY <1>2, <1>3

\* What is joined step by step is a sequence.
LEMMA JoinsAreSeqs ==
  ASSUME NEW M, NEW ss \in Seq(Seq(M)), NEW f, Joins(f, ss, Len(ss))
  PROVE  \A i \in 1..Len(ss) :
           /\ f[i] \in Seq(M)
           /\ f[i] = IF i = 1 THEN ss[i] ELSE f[i - 1] \o ss[i]
<1> DEFINE S == {i \in Nat : i \in 1..Len(ss) => f[i] \in Seq(M)}
<1>1. Len(ss) \in Nat /\ \A i \in 1..Len(ss) : ss[i] \in Seq(M)
  OBVIOUS
<1>2. \A i \in 1..Len(ss) : f[i] = IF i = 1 THEN ss[i] ELSE f[i - 1] \o ss[i]
  BY DEF Joins
<1>3. 0 \in S
  BY <1>1
<1>4. ASSUME NEW i \in Nat, i \in S
      PROVE  i + 1 \in S
  <2> SUFFICES ASSUME i + 1 \in 1..Len(ss) PROVE f[i + 1] \in Seq(M)
    OBVIOUS
  <2>1. CASE i = 0
    BY <2>1, <1>1, <1>2
  <2>2. CASE i # 0
    <3>1. i \in 1..Len(ss) /\ (i + 1) - 1 = i /\ i + 1 # 1
      BY <2>2, <1>1
    <3>2. f[i] \in Seq(M) /\ ss[i + 1] \in Seq(M) /\ f[i + 1] = f[i] \o ss[i + 1]
      BY <1>1, <1>2, <1>4, <3>1
    <3> QED
      BY <3>2, ConcatProperties
  <2> QED
    BY <2>1, <2>2
<1> HIDE DEF S
<1>5. Nat \subseteq S
  BY <1>3, <1>4, SetInduction
<1> QED
  BY <1>1, <1>2, <1>5 DEF S

LEMMA FlattenEmpty == FlattenSeq(<<>>) = <<>>
BY DEF FlattenSeq

\* FlattenSeq joins the first of its sequences with all the others.
LEMMA FlattenFirst ==
  ASSUME NEW M, NEW ss \in Seq(Seq(M)), ss # <<>>
  PROVE  /\ FlattenSeq(ss) \in Seq(M) /\ FlattenSeq(Tail(ss)) \in Seq(M)
         /\ FlattenSeq(ss) = ss[1] \o FlattenSeq(Tail(ss))
<1> DEFINE n == Len(ss)
           ts == Tail(ss)
<1>1. /\ n \in Nat /\ n >= 1 /\ ts \in Seq(Seq(M)) /\ Len(ts) = n - 1
      /\ \A i \in 1..(n - 1) : ts[i] = ss[i + 1]
      /\ \A i \in 1..n : ss[i] \in Seq(M)
  BY EmptySeq, LenProperties, HeadTailProperties
<1>2. PICK f : Joins(f, ss, n) /\ FlattenSeq(ss) = f[n]
  BY FlattenJoins
<1>3. \A i \in 1..n : f[i] \in Seq(M) /\ f[i] = IF i = 1 THEN ss[i] ELSE f[i - 1] \o ss[i]
  BY <1>2, JoinsAreSeqs
<1> HIDE DEF n, ts
<1>4. FlattenSeq(ss) \in Seq(M)
  BY <1>1, <1>2, <1>3
<1>5. CASE n = 1
  <2>1. ts = <<>>
    BY <1>1, <1>5, EmptySeq
  <2>2. FlattenSeq(ss) = ss[1] /\ ss[1] \in Seq(M)
    BY <1>1, <1>2, <1>3, <1>5
  <2>3. FlattenSeq(ts) = <<>> /\ <<>> \in Seq(M)
    BY <2>1, FlattenEmpty, EmptySeq
  <2>4. ss[1] \o FlattenSeq(ts) = ss[1]
    BY <2>2, <2>3, ConcatEmptySeq
  <2> QED
    BY <1>4, <2>2, <2>3, <2>4 DEF ts
<1>6. CASE n # 1
  <2>1. ts # <<>> /\ n - 1 \in Nat /\ n - 1 \in 1..(n - 1)
    BY <1>1, <1>6, EmptySeq
  <2>2. PICK g : Joins(g, ts, Len(ts)) /\ FlattenSeq(ts) = g[Len(ts)]
    BY <1>1, <2>1, FlattenJoins
  <2>3. \A i \in 1..(n - 1) : g[i] \in Seq(M) /\ g[i] = IF i = 1 THEN ts[i] ELSE g[i - 1] \o ts[i]
    <3>1. ts \in Seq(Seq(M)) /\ Joins(g, ts, Len(ts))
      BY <1>1, <2>2
    <3>2. \A i \in 1..Len(ts) : g[i] \in Seq(M) /\ g[i] = IF i = 1 THEN ts[i] ELSE g[i - 1] \o ts[i]
      BY <3>1, JoinsAreSeqs
    <3> QED
      BY <1>1, <3>2
  <2> DEFINE Shifted(i) == i \in 1..(n - 1) => f[i + 1] = ss[1] \o g[i]
             S == {i \in Nat : Shifted(i)}
  <2>4. Shifted(0)
    OBVIOUS
  <2>5. ASSUME NEW i \in Nat, Shifted(i), i + 1 \in 1..(n - 1)
        PROVE  f[(i + 1) + 1] = ss[1] \o g[i + 1]
    <3>1. /\ (i + 1) + 1 \in 1..n /\ (i + 1) + 1 # 1 /\ ((i + 1) + 1) - 1 = i + 1
          /\ i + 1 \in 1..n
      BY <1>1, <2>5
    <3>2. f[(i + 1) + 1] = f[i + 1] \o ss[(i + 1) + 1]
      BY <3>1, <1>3
    <3>3. ts[i + 1] = ss[(i + 1) + 1] /\ ts[i + 1] \in Seq(M) /\ ss[1] \in Seq(M)
      BY <1>1, <3>1
    <3>4. CASE i = 0
      <4>1. f[1] = ss[1] /\ g[1] = ts[1]
        BY <1>1, <1>3, <2>3, <3>1, <3>4
      <4>2. i + 1 = 1
        BY <3>4
      <4> QED
        BY <3>2, <3>3, <4>1, <4>2
    <3>5. CASE i # 0
      <4>1. i \in 1..(n - 1) /\ i + 1 # 1 /\ (i + 1) - 1 = i
        BY <1>1, <2>5, <3>5
      <4>2. g[i + 1] = g[i] \o ts[i + 1] /\ g[i] \in Seq(M)
        BY <2>3, <2>5, <4>1
      <4>3. f[i + 1] = ss[1] \o g[i]
        BY <2>5, <4>1
      <4>4. (ss[1] \o g[i]) \o ts[i + 1] = ss[1] \o (g[i] \o ts[i + 1])
        <5>1. ss[1] \in Seq(M) /\ g[i] \in Seq(M) /\ ts[i + 1] \in Seq(M)
          BY <3>3, <4>2
        <5>2. \A s, t, u \in Seq(M) : (s \o t) \o u = s \o (t \o u)
          BY ConcatAssociative
        <5> QED
          BY <5>1, <5>2, Zenon
      <4> QED
        BY <3>2, <3>3, <4>2, <4>3, <4>4
    <3> QED
      BY <3>4, <3>5
  <2>6. Shifted(n - 1)
    <3>1. \A i \in Nat : Shifted(i) => Shifted(i + 1)
      BY <2>5
    <3> HIDE DEF Shifted
    <3>2. 0 \in S /\ \A i \in Nat : i \in S => i + 1 \in S
      BY <2>4, <3>1
    <3> HIDE DEF S
    <3>3. Nat \subseteq S
      BY <3>2, SetInduction
    <3> QED
      BY <2>1, <3>3 DEF S
  <2>7. f[(n - 1) + 1] = ss[1] \o g[n - 1]
    BY <2>1, <2>6, Zenon
  <2>9. (n - 1) + 1 = n
    BY <1>1
  <2>8. g[n - 1] \in Seq(M) /\ FlattenSeq(ts) = g[n - 1]
    BY <1>1, <2>1, <2>2, <2>3
  <2> QED
    BY <1>2, <1>4, <2>7, <2>8, <2>9 DEF ts
<1> QED
  BY <1>5, <1>6
-----------------------------------------------------------------------------
(* Type correctness. *)

Chans == {ChannelOf[n] : n \in Names} \ {NoChannel}
Answers == {Parse(l).payload : l \in Lines}
OutLine == [cmd : Commands \cup {"PONG"}, arg : Chans \cup Answers]

\* The read loop runs only on a connection.
ReaderTypes ==
  /\ conn \in {"none", "open", "dropped", "closed"} /\ closed \in BOOLEAN
  /\ reader \in {"off", "top", "read", "lines", "publish", "done"}
  /\ todo \in Seq(Lines) /\ (todo # <<>> => reader \in {"lines", "publish"})
  /\ inbox \in Seq(Payloads)
  /\ conn = "none" => reader = "off"

\* Join and Part write channels only; nothing is listed or written before Connect.
ListTypes ==
  /\ channels \subseteq Chans /\ joined \subseteq Chans
  /\ outbox \in Seq(OutLine)
  /\ \A i \in DOMAIN outbox : outbox[i].cmd \in Commands => outbox[i].arg \in Chans
  /\ conn = "none" => channels = {} /\ joined = {} /\ outbox = <<>>

CountTypes == commands \in Nat /\ sent \in Nat /\ pings \in Nat /\ pongs \in Nat

TypeInv == ReaderTypes /\ ListTypes /\ CountTypes

LEMMA InitTypes == Init => TypeInv
<1> SUFFICES ASSUME Init PROVE TypeInv
  OBVIOUS
<1>1. \A S : <<>> \in Seq(S)
  BY EmptySeq
<1>2. ReaderTypes
  BY <1>1 DEF Init, ReaderTypes
<1>3. ListTypes
  BY <1>1 DEF Init, ListTypes
<1>4. CountTypes
  BY DEF Init, CountTypes
<1> QED
  BY <1>2, <1>3, <1>4 DEF TypeInv

LEMMA HeadOfTodo ==
  ASSUME ReaderTypes, todo # <<>>
  PROVE  /\ Head(todo) \in Lines /\ Tail(todo) \in Seq(Lines) /\ reader \in {"lines", "publish"}
         /\ Parse(Head(todo)).kind \in {"error", "other", "ping", "chat"}
         /\ Said(Head(todo)) = IF Parse(Head(todo)).kind = "chat" THEN <<Parse(Head(todo)).message>> ELSE <<>>
BY HeadTailProperties, ParserAssumption DEF ReaderTypes

LEMMA ReaderStep ==
  ASSUME ReaderTypes, [Next]_vars
  PROVE  ReaderTypes'
<1>1. CASE Connect
  BY <1>1 DEF Connect, ReaderTypes, mainVars
<1>2. ASSUME NEW n \in Names, Join(n) \/ Part(n)
      PROVE  ReaderTypes'
  BY <1>2 DEF Join, Part, Change, ReaderTypes, readerVars
<1>3. CASE MarkClosed \/ CloseConn
  BY <1>3 DEF MarkClosed, CloseConn, ConnAfterClose, ReaderTypes, readerVars, mainVars
<1>4. CASE LoopTop \/ ReadFails \/ PublishReturns \/ PayloadDone
  BY <1>4 DEF LoopTop, ReadFails, PublishReturns, PayloadDone, ReaderTypes, mainVars
<1>5. CASE Read
  <2>1. Head(inbox) \in Seq(Lines) /\ Tail(inbox) \in Seq(Payloads)
    BY <1>5, HeadTailProperties, IngestClientAssumption DEF Read, ReaderTypes
  <2> QED
    BY <1>5, <2>1 DEF Read, ReaderTypes, mainVars
<1>6. CASE SkipLine \/ AnswerPing \/ PublishChat
  <2>1. /\ reader = "lines" /\ todo # <<>> /\ todo' = Tail(todo) /\ reader' \in {"lines", "publish"}
        /\ UNCHANGED <<conn, closed, inbox>>
    BY <1>6 DEF SkipLine, AnswerPing, PublishChat, AfterLine, mainVars
  <2> QED
    BY <2>1, HeadOfTodo DEF ReaderTypes
<1>7. CASE TwitchTakes
  BY <1>7 DEF TwitchTakes, ReaderTypes, mainVars, readerVars
<1>8. ASSUME NEW p \in Payloads, TwitchSends(p)
      PROVE  ReaderTypes'
  <2>1. Append(inbox, p) \in Seq(Payloads)
    BY AppendProperties DEF ReaderTypes
  <2> QED
    BY <1>8, <2>1 DEF TwitchSends, ReaderTypes, mainVars, readerVars
<1>9. CASE Drop
  <2>1. \A n \in 0..Len(inbox) : SubSeq(inbox, 1, n) \in Seq(Payloads)
    BY DEF ReaderTypes
  <2> QED
    BY <1>9, <2>1 DEF Drop, ReaderTypes, mainVars, readerVars
<1>10. CASE UNCHANGED vars
  BY <1>10 DEF vars, ReaderTypes
<1> QED
  BY <1>1, <1>2, <1>3, <1>4, <1>5, <1>6, <1>7, <1>8, <1>9, <1>10 DEF Next, Start

\* A line written, or lost with the connection.
LEMMA WrittenTypes ==
  ASSUME ListTypes, NEW line \in OutLine, Write(line), line.cmd \in Commands => line.arg \in Chans
  PROVE  /\ outbox' \in Seq(OutLine)
         /\ \A i \in DOMAIN outbox' : outbox'[i].cmd \in Commands => outbox'[i].arg \in Chans
<1>1. outbox \in Seq(OutLine) /\ Len(outbox) \in Nat /\ DOMAIN outbox = 1..Len(outbox)
  BY LenProperties DEF ListTypes
<1>2. CASE outbox' = outbox
  BY <1>1, <1>2 DEF ListTypes
<1>3. CASE outbox' = Append(outbox, line)
  <2>1. /\ outbox' \in Seq(OutLine) /\ Len(outbox') = Len(outbox) + 1
        /\ \A i \in 1..Len(outbox) : outbox'[i] = outbox[i]
        /\ outbox'[Len(outbox) + 1] = line
    BY <1>1, <1>3, AppendProperties
  <2>2. DOMAIN outbox' = 1..(Len(outbox) + 1)
    BY <2>1, LenProperties
  <2> QED
    BY <1>1, <2>1, <2>2 DEF ListTypes
<1> QED
  BY <1>2, <1>3 DEF Write

LEMMA TakenTypes ==
  ASSUME ListTypes, outbox # <<>>
  PROVE  /\ Head(outbox) \in OutLine /\ Head(outbox) = outbox[1] /\ Tail(outbox) \in Seq(OutLine)
         /\ Len(outbox) \in Nat \ {0} /\ DOMAIN outbox = 1..Len(outbox)
         /\ DOMAIN Tail(outbox) = 1..(Len(outbox) - 1)
         /\ \A i \in 1..(Len(outbox) - 1) : Tail(outbox)[i] = outbox[i + 1]
         /\ Head(outbox).cmd \in Commands => Head(outbox).arg \in Chans
<1>1. outbox \in Seq(OutLine)
  BY DEF ListTypes
<1>2. Len(outbox) \in Nat \ {0} /\ DOMAIN outbox = 1..Len(outbox)
  BY <1>1, EmptySeq, LenProperties
<1>3. /\ Head(outbox) \in OutLine /\ Head(outbox) = outbox[1] /\ Tail(outbox) \in Seq(OutLine)
      /\ Len(Tail(outbox)) = Len(outbox) - 1
      /\ \A i \in 1..Len(Tail(outbox)) : Tail(outbox)[i] = outbox[i + 1]
  BY <1>1, HeadTailProperties
<1>4. DOMAIN Tail(outbox) = 1..(Len(outbox) - 1)
  BY <1>3, LenProperties
<1>5. outbox[1].cmd \in Commands => outbox[1].arg \in Chans
  BY <1>2 DEF ListTypes
<1> QED
  BY <1>2, <1>3, <1>4, <1>5

LEMMA ListStep ==
  ASSUME ReaderTypes, ListTypes, [Next]_vars
  PROVE  ListTypes'
<1>1. CASE Connect
  BY <1>1 DEF Connect, ListTypes, mainVars, twitchVars
<1>2. ASSUME NEW n \in Names, Join(n) \/ Part(n)
      PROVE  ListTypes'
  <2>1. CASE UNCHANGED <<channels, outbox>>
    BY <1>2, <2>1 DEF Join, Part, Change, ListTypes, twitchVars
  <2>2. ASSUME NEW cmd \in Commands, ChannelOf[n] # NoChannel, Write([cmd |-> cmd, arg |-> ChannelOf[n]])
        PROVE  /\ outbox' \in Seq(OutLine)
               /\ \A i \in DOMAIN outbox' : outbox'[i].cmd \in Commands => outbox'[i].arg \in Chans
    <3>1. [cmd |-> cmd, arg |-> ChannelOf[n]] \in OutLine /\ ChannelOf[n] \in Chans
      BY <2>2 DEF OutLine, Chans
    <3> QED
      BY <2>2, <3>1, WrittenTypes
  <2>3. ASSUME ~(UNCHANGED <<channels, outbox>>)
        PROVE  /\ ChannelOf[n] # NoChannel
               /\ \E cmd \in Commands : Write([cmd |-> cmd, arg |-> ChannelOf[n]])
               /\ channels' \in {channels \cup {ChannelOf[n]}, channels \ {ChannelOf[n]}}
    BY <1>2, <2>3 DEF Join, Part, Change, JoinedAfter, PartedAfter, Commands
  <2>4. conn # "none" /\ UNCHANGED <<conn, joined>>
    BY <1>2 DEF Join, Part, Change, twitchVars
  <2>5. CASE ~(UNCHANGED <<channels, outbox>>)
    <3>1. ChannelOf[n] \in Chans
      BY <2>3, <2>5 DEF Chans
    <3>2. channels' \subseteq Chans
      BY <2>3, <2>5, <3>1 DEF ListTypes
    <3> QED
      BY <2>2, <2>3, <2>4, <2>5, <3>2 DEF ListTypes
  <2> QED
    BY <2>1, <2>5
<1>3. CASE MarkClosed \/ CloseConn
  BY <1>3 DEF MarkClosed, CloseConn, ConnAfterClose, ListTypes, mainVars, twitchVars
<1>4. CASE LoopTop \/ ReadFails \/ PublishReturns \/ PayloadDone \/ Read \/ SkipLine \/ PublishChat
  BY <1>4 DEF LoopTop, ReadFails, PublishReturns, PayloadDone, Read, SkipLine, PublishChat, ListTypes,
              mainVars, twitchVars
<1>5. CASE AnswerPing
  <2> DEFINE pong == [cmd |-> "PONG", arg |-> Parse(Head(todo)).payload]
  <2>1. Head(todo) \in Lines
    BY <1>5, HeadOfTodo DEF AnswerPing
  <2>2. pong \in OutLine /\ pong.cmd \notin Commands /\ Write(pong)
    BY <1>5, <2>1 DEF AnswerPing, OutLine, Answers, Commands
  <2>3. UNCHANGED <<channels, joined, conn>>
    BY <1>5 DEF AnswerPing, mainVars, twitchVars
  <2> HIDE DEF pong
  <2>4. /\ outbox' \in Seq(OutLine)
        /\ \A i \in DOMAIN outbox' : outbox'[i].cmd \in Commands => outbox'[i].arg \in Chans
    BY <2>2, WrittenTypes
  <2>5. conn = "none" => outbox' = outbox
    BY <2>2 DEF Write
  <2> QED
    BY <2>3, <2>4, <2>5 DEF ListTypes
<1>6. CASE TwitchTakes
  <2>1. /\ conn = "open" /\ outbox # <<>> /\ outbox' = Tail(outbox) /\ UNCHANGED <<conn, channels>>
        /\ \/ joined' \in {joined, joined \ {Head(outbox).arg}}
           \/ joined' = joined \cup {Head(outbox).arg} /\ Head(outbox).cmd \in Commands
    BY <1>6 DEF TwitchTakes, mainVars, Commands
  <2>2. joined' \subseteq Chans
    BY <2>1, TakenTypes DEF ListTypes
  <2>3. \A i \in DOMAIN outbox' : outbox'[i].cmd \in Commands => outbox'[i].arg \in Chans
    <3>1. \A i \in 1..(Len(outbox) - 1) : i + 1 \in 1..Len(outbox)
      BY <2>1, TakenTypes
    <3> QED
      BY <2>1, <3>1, TakenTypes DEF ListTypes
  <2> QED
    BY <2>1, <2>2, <2>3, TakenTypes DEF ListTypes
<1>7. ASSUME NEW p \in Payloads, TwitchSends(p)
      PROVE  ListTypes'
  BY <1>7 DEF TwitchSends, ListTypes, mainVars
<1>8. CASE Drop
  BY <1>8, EmptySeq DEF Drop, ListTypes, mainVars
<1>9. CASE UNCHANGED vars
  BY <1>9 DEF vars, ListTypes
<1> QED
  BY <1>1, <1>2, <1>3, <1>4, <1>5, <1>6, <1>7, <1>8, <1>9 DEF Next, Start

LEMMA PingsAreNat ==
  ASSUME NEW p \in Payloads
  PROVE  PingsIn(p) \in Nat
<1> DEFINE P == {i \in DOMAIN p : Parse(p[i]).kind = "ping"}
<1>1. p \in Seq(Lines) /\ Len(p) \in Nat /\ DOMAIN p = 1..Len(p)
  BY IngestClientAssumption, LenProperties
<1>2. IsFiniteSet(1..Len(p)) /\ P \subseteq 1..Len(p)
  BY <1>1, FS_Interval
<1>3. IsFiniteSet(P)
  BY <1>2, FS_Subset
<1> QED
  BY <1>3, FS_CardinalityType DEF PingsIn

LEMMA CountStep ==
  ASSUME CountTypes, [Next]_vars
  PROVE  CountTypes'
<1>1. CASE Connect \/ MarkClosed \/ CloseConn \/ TwitchTakes \/ Drop \/ UNCHANGED vars
  BY <1>1 DEF Connect, MarkClosed, CloseConn, TwitchTakes, Drop, vars, CountTypes, mainVars, readerVars, twitchVars
<1>2. ASSUME NEW n \in Names, Join(n) \/ Part(n)
      PROVE  CountTypes'
  BY <1>2 DEF Join, Part, Change, CountTypes, readerVars, twitchVars
<1>3. CASE Start
  BY <1>3 DEF Start, LoopTop, ReadFails, PublishReturns, PayloadDone, Read, SkipLine, PublishChat, AnswerPing,
              CountTypes, mainVars, twitchVars
<1>4. ASSUME NEW p \in Payloads, TwitchSends(p)
      PROVE  CountTypes'
  <2> DEFINE more == PingsIn(p)
  <2>1. more \in Nat /\ sent' = sent + 1 /\ pings' = pings + more /\ UNCHANGED <<commands, pongs>>
    BY <1>4, PingsAreNat DEF TwitchSends, mainVars, readerVars
  <2> HIDE DEF more
  <2> QED
    BY <2>1 DEF CountTypes
<1> QED
  BY <1>1, <1>2, <1>3, <1>4 DEF Next

LEMMA TypesHold == Spec => []TypeInv
<1>1. TypeInv /\ [Next]_vars => TypeInv'
  BY ReaderStep, ListStep, CountStep DEF TypeInv
<1> QED
  BY <1>1, InitTypes, PTL DEF Spec

\* The types of all variables: in particular the list holds channels in lower
\* case and never the empty name, and lines are in hand only inside the loop.
THEOREM TypeCorrect == Spec => []TypeOK
<1>1. TypeInv => TypeOK
  BY DEF TypeInv, ReaderTypes, ListTypes, CountTypes, Chans, TypeOK
<1> QED
  BY <1>1, TypesHold, PTL

-----------------------------------------------------------------------------
(* The list of channels and Twitch. *)

About(box, c) == \E i \in DOMAIN box : box[i].cmd \in Commands /\ box[i].arg = c

LastIn(box, c, cmd) ==
  \E i \in DOMAIN box :
    /\ box[i].cmd \in Commands /\ box[i].arg = c /\ box[i].cmd = cmd
    /\ \A j \in DOMAIN box : box[j].cmd \in Commands /\ box[j].arg = c => j <= i

LEMMA LastLine == \A c, cmd : LastLineIs(c, cmd) <=> LastIn(outbox, c, cmd)
BY DEF LastLineIs, LastIn

\* A line written is the last about its channel and changes nothing for others.
LEMMA LastOfAppend ==
  ASSUME NEW box \in Seq(OutLine), NEW line \in OutLine, NEW c, NEW cmd \in Commands
  PROVE  LET box2 == Append(box, line)
             itself == line.cmd \in Commands /\ line.arg = c
         IN  /\ LastIn(box2, c, cmd) <=> IF itself THEN cmd = line.cmd ELSE LastIn(box, c, cmd)
             /\ About(box2, c) <=> itself \/ About(box, c)
<1> DEFINE box2 == Append(box, line)
           n == Len(box) + 1
<1>1. n \in Nat /\ DOMAIN box = 1..(n - 1) /\ \A i \in DOMAIN box : i < n /\ i \in Nat
  BY LenProperties
<1>2. /\ box2 \in Seq(OutLine) /\ Len(box2) = n /\ box2[n] = line
      /\ \A i \in 1..(n - 1) : box2[i] = box[i]
  BY AppendProperties
<1>3. DOMAIN box2 = DOMAIN box \cup {n}
  BY <1>1, <1>2, LenProperties
<1>4. \A i \in DOMAIN box : box2[i] = box[i]
  BY <1>1, <1>2
<1> HIDE DEF box2, n
<1>5. CASE line.cmd \in Commands /\ line.arg = c
  <2>1. \A j \in DOMAIN box2 : j <= n
    BY <1>1, <1>3
  <2>2. \A i \in DOMAIN box2 : n <= i => i = n
    BY <1>1, <1>3
  <2> QED
    BY <1>2, <1>3, <1>5, <2>1, <2>2 DEF LastIn, About, box2
<1>6. CASE ~(line.cmd \in Commands /\ line.arg = c)
  BY <1>2, <1>3, <1>4, <1>6 DEF LastIn, About, box2
<1> QED
  BY <1>5, <1>6

\* A line taken off the front: what is last about a channel stays so, unless
\* that line was the only one.
LEMMA LastOfTail ==
  ASSUME NEW box \in Seq(OutLine), box # <<>>, NEW c, NEW cmd \in Commands
  PROVE  LET first == box[1].cmd \in Commands /\ box[1].arg = c
         IN  /\ About(box, c) <=> first \/ About(Tail(box), c)
             /\ LastIn(Tail(box), c, cmd) => About(Tail(box), c)
             /\ About(Tail(box), c) => (LastIn(Tail(box), c, cmd) <=> LastIn(box, c, cmd))
             /\ ~About(Tail(box), c) => (LastIn(box, c, cmd) <=> first /\ box[1].cmd = cmd)
<1> DEFINE t == Tail(box)
           n == Len(box)
           Is(b, i) == b[i].cmd \in Commands /\ b[i].arg = c
<1>1. n \in Nat /\ n # 0 /\ DOMAIN box = 1..n
  BY EmptySeq, LenProperties
<1>2. t \in Seq(OutLine) /\ Len(t) = n - 1 /\ \A i \in 1..(n - 1) : t[i] = box[i + 1]
  BY HeadTailProperties
<1>3. DOMAIN t = 1..(n - 1)
  BY <1>2, LenProperties
<1> HIDE DEF t, n
<1>4. \A i \in 1..n : i = 1 \/ (i - 1 \in 1..(n - 1) /\ t[i - 1] = box[i])
  BY <1>1, <1>2
<1>5. \A i \in 1..(n - 1) : i + 1 \in 1..n /\ t[i] = box[i + 1] /\ i + 1 # 1
  BY <1>1, <1>2
<1>6. 1 \in 1..n
  BY <1>1
<1>7. About(box, c) <=> Is(box, 1) \/ About(t, c)
  <2>1. ASSUME About(box, c), ~Is(box, 1) PROVE About(t, c)
    <3>1. PICK i \in 1..n : Is(box, i)
      BY <1>1, <2>1 DEF About
    <3>2. i - 1 \in 1..(n - 1) /\ Is(t, i - 1)
      BY <1>4, <2>1, <3>1
    <3> QED
      BY <1>3, <3>2 DEF About
  <2>2. ASSUME About(t, c) PROVE About(box, c)
    <3>1. PICK i \in 1..(n - 1) : Is(t, i)
      BY <1>3, <2>2 DEF About
    <3>2. i + 1 \in 1..n /\ Is(box, i + 1)
      BY <1>5, <3>1
    <3> QED
      BY <1>1, <3>2 DEF About
  <2>3. Is(box, 1) => About(box, c)
    BY <1>1, <1>6 DEF About
  <2> QED
    BY <2>1, <2>2, <2>3
<1>8. LastIn(t, c, cmd) => About(t, c)
  BY DEF LastIn, About
<1>9. ASSUME LastIn(t, c, cmd)
      PROVE  LastIn(box, c, cmd)
  <2>1. PICK i \in 1..(n - 1) : Is(t, i) /\ t[i].cmd = cmd /\ \A j \in 1..(n - 1) : Is(t, j) => j <= i
    BY <1>3, <1>9 DEF LastIn
  <2>2. Is(box, i + 1) /\ box[i + 1].cmd = cmd /\ i + 1 \in 1..n
    BY <1>5, <2>1
  <2>3. ASSUME NEW j \in 1..n, Is(box, j)
        PROVE  j <= i + 1
    <3>1. CASE j = 1
      BY <1>1, <3>1
    <3>2. CASE j # 1
      <4>1. j - 1 \in 1..(n - 1) /\ Is(t, j - 1)
        BY <1>4, <2>3, <3>2
      <4>2. j - 1 <= i
        BY <2>1, <4>1
      <4> QED
        BY <1>1, <4>2
    <3> QED
      BY <3>1, <3>2
  <2> QED
    BY <1>1, <2>2, <2>3 DEF LastIn
<1>10. ASSUME LastIn(box, c, cmd), About(t, c)
       PROVE  LastIn(t, c, cmd)
  <2>1. PICK i \in 1..n : Is(box, i) /\ box[i].cmd = cmd /\ \A j \in 1..n : Is(box, j) => j <= i
    BY <1>1, <1>10 DEF LastIn
  <2>2. PICK k \in 1..(n - 1) : Is(t, k)
    BY <1>3, <1>10 DEF About
  <2>3. k + 1 <= i
    BY <1>5, <2>1, <2>2
  <2>4. i # 1
    BY <1>1, <2>3
  <2>5. i - 1 \in 1..(n - 1) /\ Is(t, i - 1) /\ t[i - 1].cmd = cmd
    BY <1>4, <2>1, <2>4
  <2>6. ASSUME NEW j \in 1..(n - 1), Is(t, j)
        PROVE  j <= i - 1
    <3>1. j + 1 <= i
      BY <1>5, <2>1, <2>6
    <3> QED
      BY <1>1, <3>1
  <2> QED
    BY <1>3, <2>5, <2>6 DEF LastIn
<1>11. ASSUME ~About(t, c)
       PROVE  LastIn(box, c, cmd) <=> Is(box, 1) /\ box[1].cmd = cmd
  <2>1. \A j \in 1..n : Is(box, j) => j = 1
    BY <1>3, <1>4, <1>11 DEF About
  <2> QED
    BY <1>1, <1>6, <2>1 DEF LastIn
<1> QED
  BY <1>7, <1>8, <1>9, <1>10, <1>11 DEF t

LEMMA OneLast ==
  ASSUME NEW box \in Seq(OutLine), NEW c
  PROVE  ~(LastIn(box, c, "JOIN") /\ LastIn(box, c, "PART"))
<1>1. Len(box) \in Nat /\ DOMAIN box = 1..Len(box)
  BY LenProperties
<1> SUFFICES ASSUME LastIn(box, c, "JOIN"), LastIn(box, c, "PART") PROVE FALSE
  OBVIOUS
<1>2. PICK i \in 1..Len(box) : /\ box[i].cmd = "JOIN" /\ box[i].arg = c
                               /\ \A j \in 1..Len(box) : box[j].cmd \in Commands /\ box[j].arg = c => j <= i
  BY <1>1 DEF LastIn
<1>3. PICK k \in 1..Len(box) : /\ box[k].cmd = "PART" /\ box[k].arg = c
                               /\ \A j \in 1..Len(box) : box[j].cmd \in Commands /\ box[j].arg = c => j <= k
  BY <1>1 DEF LastIn
<1>4. i <= k /\ k <= i
  BY <1>2, <1>3 DEF Commands
<1>5. i = k
  BY <1>1, <1>4
<1> QED
  BY <1>2, <1>3, <1>5

\* Whether Twitch will have us in c when it has taken what is on its way.
InTheEnd(c) == (c \in joined /\ ~LastIn(outbox, c, "PART")) \/ LastIn(outbox, c, "JOIN")

\* Of the lines about a channel one is the last; and the list is as Twitch will have it.
AgreeInv ==
  /\ \A c : About(outbox, c) => LastIn(outbox, c, "JOIN") \/ LastIn(outbox, c, "PART")
  /\ conn = "open" => \A c \in Chans : c \in channels <=> InTheEnd(c)

LEMMA AgreeIsChannelsAgree ==
  ASSUME ListTypes, AgreeInv
  PROVE  ChannelsAgree
<1> SUFFICES ASSUME conn = "open"
             PROVE  channels = {c \in joined : ~LastLineIs(c, "PART")} \cup
                               {c \in {ChannelOf[n] : n \in Names} : LastLineIs(c, "JOIN")}
  BY DEF ChannelsAgree
<1>1. \A c : LastIn(outbox, c, "JOIN") => c \in Chans
  BY DEF ListTypes, LastIn
<1>2. \A c \in Chans : c \in channels <=> InTheEnd(c)
  BY DEF AgreeInv
<1>3. Chans \subseteq {ChannelOf[n] : n \in Names}
  BY DEF Chans
<1>4. channels \subseteq Chans /\ joined \subseteq Chans
  BY DEF ListTypes
<1> QED
  BY <1>1, <1>2, <1>3, <1>4, LastLine DEF InTheEnd

\* Join and Part change the list and, by the same line, what Twitch will have.
LEMMA AgreeChange ==
  ASSUME ListTypes, AgreeInv, NEW n \in Names, NEW cmd \in Commands,
         NEW list, list = IF cmd = "JOIN" THEN channels \cup {ChannelOf[n]} ELSE channels \ {ChannelOf[n]},
         Change(cmd, n, list)
  PROVE  AgreeInv'
<1> DEFINE ch == ChannelOf[n]
           line == [cmd |-> cmd, arg |-> ch]
<1>1. UNCHANGED <<conn, joined>>
  BY DEF Change, twitchVars
<1>2. CASE UNCHANGED <<channels, outbox>>
  BY <1>1, <1>2 DEF AgreeInv, InTheEnd
<1>3. ASSUME ch # NoChannel, Write(line), channels' = list
      PROVE  AgreeInv'
  <2>1. ch \in Chans
    BY <1>3 DEF Chans
  <2>2. outbox \in Seq(OutLine) /\ line \in OutLine /\ "JOIN" \in Commands /\ "PART" \in Commands
    BY <2>1 DEF ListTypes, OutLine, Commands
  <2>3. line.cmd = cmd /\ line.arg = ch
    OBVIOUS
  <2> HIDE DEF line
  <2>4. CASE conn # "open"
    BY <1>1, <1>3, <2>4 DEF Write, AgreeInv
  <2>5. CASE conn = "open"
    <3>1. outbox' = Append(outbox, line)
      BY <1>3, <2>5 DEF Write
    <3>2. \A c : /\ LastIn(outbox', c, "JOIN") <=> IF c = ch THEN cmd = "JOIN" ELSE LastIn(outbox, c, "JOIN")
                 /\ LastIn(outbox', c, "PART") <=> IF c = ch THEN cmd = "PART" ELSE LastIn(outbox, c, "PART")
                 /\ About(outbox', c) <=> c = ch \/ About(outbox, c)
      BY <2>2, <2>3, <3>1, LastOfAppend
    <3>3. \A c : About(outbox', c) => LastIn(outbox', c, "JOIN") \/ LastIn(outbox', c, "PART")
      BY <3>2 DEF AgreeInv, Commands
    <3>4. ASSUME NEW c \in Chans
          PROVE  c \in channels' <=> InTheEnd(c)'
      <4>1. CASE c = ch
        BY <1>3, <3>2, <4>1 DEF InTheEnd, Commands
      <4>2. CASE c # ch
        BY <1>1, <1>3, <2>5, <3>2, <4>2 DEF InTheEnd, AgreeInv
      <4> QED
        BY <4>1, <4>2
    <3> QED
      BY <3>3, <3>4 DEF AgreeInv
  <2> QED
    BY <2>4, <2>5
<1> QED
  BY <1>2, <1>3 DEF Change

\* The PONG is about no channel.
LEMMA AgreePong ==
  ASSUME ReaderTypes, ListTypes, AgreeInv, AnswerPing
  PROVE  AgreeInv'
<1> DEFINE pong == [cmd |-> "PONG", arg |-> Parse(Head(todo)).payload]
<1>1. UNCHANGED <<conn, joined, channels>> /\ Write(pong)
  BY DEF AnswerPing, mainVars, twitchVars
<1>2. Head(todo) \in Lines
  BY HeadOfTodo DEF AnswerPing
<1>3. /\ pong \in OutLine /\ pong.cmd \notin Commands /\ outbox \in Seq(OutLine)
      /\ "JOIN" \in Commands /\ "PART" \in Commands
  BY <1>2 DEF OutLine, Answers, Commands, ListTypes
<1> HIDE DEF pong
<1>4. CASE outbox' = outbox
  BY <1>1, <1>4 DEF AgreeInv, InTheEnd
<1>5. CASE outbox' = Append(outbox, pong)
  <2>1. \A c : /\ LastIn(outbox', c, "JOIN") <=> LastIn(outbox, c, "JOIN")
               /\ LastIn(outbox', c, "PART") <=> LastIn(outbox, c, "PART")
               /\ About(outbox', c) <=> About(outbox, c)
    BY <1>3, <1>5, LastOfAppend
  <2> QED
    BY <1>1, <2>1 DEF AgreeInv, InTheEnd
<1> QED
  BY <1>1, <1>4, <1>5 DEF Write

\* What Twitch takes counts for joined now instead of for the lines on their way.
LEMMA AgreeTaken ==
  ASSUME ListTypes, AgreeInv, TwitchTakes
  PROVE  AgreeInv'
<1> DEFINE h == outbox[1]
<1>1. /\ conn = "open" /\ outbox # <<>> /\ outbox' = Tail(outbox) /\ UNCHANGED <<conn, channels>>
      /\ outbox \in Seq(OutLine) /\ "JOIN" \in Commands /\ "PART" \in Commands
      /\ Commands = {"JOIN", "PART"} /\ h = Head(outbox)
  BY TakenTypes DEF TwitchTakes, mainVars, ListTypes, Commands
<1>2. joined' = CASE h.cmd = "JOIN" -> joined \cup {h.arg}
                  [] h.cmd = "PART" -> joined \ {h.arg}
                  [] OTHER -> joined
  BY <1>1 DEF TwitchTakes
<1> HIDE DEF h
<1>3. ASSUME NEW c
      PROVE  LET first == h.cmd \in Commands /\ h.arg = c
                 now == About(outbox', c)
             IN  /\ About(outbox, c) <=> first \/ now
                 /\ LastIn(outbox', c, "JOIN") => now
                 /\ LastIn(outbox', c, "PART") => now
                 /\ now => (LastIn(outbox', c, "JOIN") <=> LastIn(outbox, c, "JOIN"))
                 /\ now => (LastIn(outbox', c, "PART") <=> LastIn(outbox, c, "PART"))
                 /\ ~now => (LastIn(outbox, c, "JOIN") <=> first /\ h.cmd = "JOIN")
                 /\ ~now => (LastIn(outbox, c, "PART") <=> first /\ h.cmd = "PART")
                 /\ ~(LastIn(outbox, c, "JOIN") /\ LastIn(outbox, c, "PART"))
  BY <1>1, LastOfTail, OneLast DEF h
<1>4. \A c : About(outbox', c) => LastIn(outbox', c, "JOIN") \/ LastIn(outbox', c, "PART")
  BY <1>3 DEF AgreeInv
<1>5. ASSUME NEW c \in Chans
      PROVE  c \in channels' <=> InTheEnd(c)'
  <2>1. c \in channels <=> (c \in joined /\ ~LastIn(outbox, c, "PART")) \/ LastIn(outbox, c, "JOIN")
    BY <1>1 DEF AgreeInv, InTheEnd
  <2>2. c \in joined' <=> IF h.arg = c /\ h.cmd \in Commands THEN h.cmd = "JOIN" ELSE c \in joined
    BY <1>1, <1>2
  <2>3. CASE About(outbox', c)
    <3>1. LastIn(outbox, c, "JOIN") \/ LastIn(outbox, c, "PART")
      BY <1>3, <2>3 DEF AgreeInv
    <3> QED
      BY <1>1, <1>3, <2>1, <2>3, <3>1 DEF InTheEnd
  <2>4. CASE ~About(outbox', c)
    BY <1>1, <1>3, <2>1, <2>2, <2>4 DEF InTheEnd
  <2> QED
    BY <2>3, <2>4
<1> QED
  BY <1>4, <1>5 DEF AgreeInv

LEMMA AgreeStep == ReaderTypes /\ ListTypes /\ AgreeInv /\ [Next]_vars => AgreeInv'
<1> SUFFICES ASSUME ReaderTypes, ListTypes, AgreeInv, [Next]_vars PROVE AgreeInv'
  OBVIOUS
<1>1. CASE Connect
  <2>1. /\ outbox' = <<>> /\ joined' = {} /\ channels' = {}
    BY <1>1 DEF Connect, ListTypes, mainVars, twitchVars
  <2>2. \A c, cmd : ~About(outbox', c) /\ ~LastIn(outbox', c, cmd)
    BY <2>1 DEF About, LastIn
  <2> QED
    BY <2>1, <2>2 DEF AgreeInv, InTheEnd
<1>2. ASSUME NEW n \in Names, Join(n) \/ Part(n)
      PROVE  AgreeInv'
  BY <1>2, AgreeChange DEF Join, Part, JoinedAfter, PartedAfter, Commands
<1>3. CASE AnswerPing
  BY <1>3, AgreePong
<1>4. CASE TwitchTakes
  BY <1>4, AgreeTaken
<1>5. CASE Drop
  <2>1. outbox' = <<>> /\ conn' = "dropped"
    BY <1>5 DEF Drop
  <2>2. \A c : ~About(outbox', c)
    BY <2>1 DEF About
  <2> QED
    BY <2>1, <2>2 DEF AgreeInv
<1>6. CASE MarkClosed \/ CloseConn
  BY <1>6 DEF MarkClosed, CloseConn, ConnAfterClose, AgreeInv, InTheEnd, mainVars, twitchVars
<1>7. CASE LoopTop \/ ReadFails \/ PublishReturns \/ PayloadDone \/ Read \/ SkipLine \/ PublishChat
  BY <1>7 DEF LoopTop, ReadFails, PublishReturns, PayloadDone, Read, SkipLine, PublishChat, AgreeInv, InTheEnd,
              mainVars, twitchVars
<1>8. ASSUME NEW p \in Payloads, TwitchSends(p)
      PROVE  AgreeInv'
  BY <1>8 DEF TwitchSends, AgreeInv, InTheEnd, mainVars
<1>9. CASE UNCHANGED vars
  BY <1>9 DEF vars, AgreeInv, InTheEnd
<1> QED
  BY <1>1, <1>2, <1>3, <1>4, <1>5, <1>6, <1>7, <1>8, <1>9 DEF Next, Start

\* ChannelsAgree: however names are typed and commands follow each other, while
\* the connection is up the list of Join and Part is the list Twitch will have.
THEOREM ChannelsAgreeCorrect == Spec => []ChannelsAgree
<1>1. Init => AgreeInv
  BY DEF Init, AgreeInv, About
<1>2. TypeInv => ReaderTypes /\ ListTypes
  BY DEF TypeInv
<1>3. ListTypes /\ AgreeInv => ChannelsAgree
  BY AgreeIsChannelsAgree
<1> QED
  BY <1>1, <1>2, <1>3, AgreeStep, TypesHold, PTL DEF Spec

-----------------------------------------------------------------------------
(* The chat. *)

Messages == {Parse(l).message : l \in Lines}

ChatInv ==
  /\ published \in Seq(Messages) /\ said \in Seq(Messages)
  /\ published \o SaidIn(todo) = said

LEMMA NothingSaid == SaidIn(<<>>) = <<>>
<1>1. [i \in DOMAIN <<>> |-> Said(<<>>[i])] = <<>>
  OBVIOUS
<1> QED
  BY <1>1, FlattenEmpty DEF SaidIn

LEMMA SaidFirst ==
  ASSUME NEW lines \in Seq(Lines), lines # <<>>
  PROVE  /\ SaidIn(lines) \in Seq(Messages) /\ SaidIn(Tail(lines)) \in Seq(Messages)
         /\ Said(Head(lines)) \in Seq(Messages)
         /\ SaidIn(lines) = Said(Head(lines)) \o SaidIn(Tail(lines))
<1> DEFINE S(ls) == [i \in DOMAIN ls |-> Said(ls[i])]
           n == Len(lines)
           t == Tail(lines)
<1>1. /\ n \in Nat /\ n # 0 /\ DOMAIN lines = 1..n /\ Head(lines) = lines[1]
      /\ \A i \in 1..n : lines[i] \in Lines
  BY EmptySeq, LenProperties
<1>2. t \in Seq(Lines) /\ Len(t) = n - 1 /\ \A i \in 1..(n - 1) : t[i] = lines[i + 1]
  BY HeadTailProperties
<1>3. DOMAIN t = 1..(n - 1)
  BY <1>2, LenProperties
<1>4. \A l \in Lines : Said(l) \in Seq(Messages)
  <2>1. \A l \in Lines : Parse(l).message \in Messages
    BY DEF Messages
  <2> HIDE DEF S, n, t
  <2>2. \A m \in Messages : <<m>> \in Seq(Messages)
    OBVIOUS
  <2>3. <<>> \in Seq(Messages)
    BY EmptySeq
  <2> QED
    BY <2>1, <2>2, <2>3, ParserAssumption
<1> HIDE DEF n, t
<1>5. S(lines) \in [1..n -> Seq(Messages)] /\ S(t) \in [1..(n - 1) -> Seq(Messages)]
  <2>1. \A i \in 1..(n - 1) : t[i] \in Lines
    BY <1>2, <1>3, ElementOfSeq
  <2> QED
    BY <1>1, <1>3, <1>4, <2>1
<1>6. n - 1 \in Nat
  BY <1>1
<1>7. S(lines) \in Seq(Seq(Messages)) /\ Len(S(lines)) = n /\ S(t) \in Seq(Seq(Messages)) /\ Len(S(t)) = n - 1
  BY <1>1, <1>5, <1>6, SeqDef
<1>8. S(lines) # <<>>
  BY <1>1, <1>7, EmptySeq
<1>9. Tail(S(lines)) \in Seq(Seq(Messages)) /\ Len(Tail(S(lines))) = n - 1
      /\ \A i \in 1..(n - 1) : Tail(S(lines))[i] = S(lines)[i + 1]
  BY <1>7, <1>8, HeadTailProperties
<1>10. \A i \in 1..(n - 1) : S(lines)[i + 1] = Said(lines[i + 1]) /\ S(t)[i] = Said(t[i])
  <2>1. \A i \in 1..(n - 1) : i + 1 \in 1..n
    BY <1>1
  <2> QED
    BY <1>1, <1>3, <2>1
<1>11. Tail(S(lines)) = S(t)
  <2>1. \A i \in 1..(n - 1) : Tail(S(lines))[i] = S(t)[i]
    BY <1>2, <1>9, <1>10
  <2> HIDE DEF S
  <2> QED
    BY <1>7, <1>9, <2>1, SeqEqual
<1>12. S(lines)[1] = Said(lines[1])
  BY <1>1
<1>13. SaidIn(lines) = FlattenSeq(S(lines)) /\ SaidIn(t) = FlattenSeq(S(t))
  BY DEF SaidIn
<1> HIDE DEF S
<1>14. /\ FlattenSeq(S(lines)) \in Seq(Messages) /\ FlattenSeq(Tail(S(lines))) \in Seq(Messages)
       /\ FlattenSeq(S(lines)) = S(lines)[1] \o FlattenSeq(Tail(S(lines)))
  BY <1>7, <1>8, FlattenFirst
<1>15. Head(lines) \in Lines /\ S(lines)[1] = Said(Head(lines))
  BY <1>1, <1>12
<1>16. Said(Head(lines)) \in Seq(Messages)
  BY <1>4, <1>15
<1>17. SaidIn(lines) = Said(Head(lines)) \o SaidIn(t) /\ SaidIn(t) \in Seq(Messages)
  BY <1>11, <1>13, <1>14, <1>15
<1> QED
  BY <1>13, <1>14, <1>16, <1>17 DEF t

LEMMA SaidIsSeq ==
  ASSUME NEW lines \in Seq(Lines)
  PROVE  SaidIn(lines) \in Seq(Messages)
BY SaidFirst, NothingSaid, EmptySeq

LEMMA ChatStep == ReaderTypes /\ ChatInv /\ [Next]_vars => ChatInv'
<1> SUFFICES ASSUME ReaderTypes, ChatInv, [Next]_vars PROVE ChatInv'
  OBVIOUS
<1>1. ASSUME UNCHANGED <<said, published, todo>>
      PROVE  ChatInv'
  BY <1>1 DEF ChatInv, SaidIn
<1>2. CASE Read
  <2> DEFINE p == Head(inbox)
  <2>1. p \in Seq(Lines)
    BY <1>2, HeadTailProperties, IngestClientAssumption DEF Read, ReaderTypes
  <2>2. todo = <<>> /\ todo' = p /\ said' = said \o SaidIn(p) /\ published' = published
    BY <1>2 DEF Read, ReaderTypes
  <2> HIDE DEF p
  <2>3. published = said
    BY <2>2, NothingSaid, ConcatEmptySeq DEF ChatInv
  <2>4. said \o SaidIn(p) \in Seq(Messages)
    BY <2>1, SaidIsSeq, ConcatProperties DEF ChatInv
  <2>5. SaidIn(todo)' = SaidIn(p)
    BY <2>2 DEF SaidIn
  <2> QED
    BY <2>2, <2>3, <2>4, <2>5 DEF ChatInv
<1>3. ASSUME reader = "lines", todo # <<>>, todo' = Tail(todo), UNCHANGED said,
             NEW m \in Seq(Messages), published' = published \o m, Said(Head(todo)) = m
      PROVE  ChatInv'
  <2>1. /\ SaidIn(todo) = m \o SaidIn(Tail(todo)) /\ SaidIn(Tail(todo)) \in Seq(Messages)
    BY <1>3, SaidFirst DEF ReaderTypes
  <2>2. (published \o m) \o SaidIn(Tail(todo)) = published \o (m \o SaidIn(Tail(todo)))
    <3>1. published \in Seq(Messages)
      BY DEF ChatInv
    <3> QED
      BY <1>3, <2>1, <3>1, ConcatAssociative
  <2>3. published' \in Seq(Messages)
    BY <1>3, ConcatProperties DEF ChatInv
  <2>4. SaidIn(todo)' = SaidIn(Tail(todo))
    BY <1>3 DEF SaidIn
  <2> QED
    BY <1>3, <2>1, <2>2, <2>3, <2>4 DEF ChatInv
<1>4. CASE SkipLine \/ AnswerPing
  <2>1. /\ reader = "lines" /\ todo # <<>> /\ todo' = Tail(todo) /\ UNCHANGED <<said, published>>
        /\ Parse(Head(todo)).kind \in {"error", "other", "ping"}
    BY <1>4 DEF SkipLine, AnswerPing, AfterLine
  <2>2. Said(Head(todo)) = <<>>
    BY <2>1, HeadOfTodo
  <2>3. published' = published \o <<>> /\ <<>> \in Seq(Messages)
    BY <2>1, ConcatEmptySeq, EmptySeq DEF ChatInv
  <2> QED
    BY <1>3, <2>1, <2>2, <2>3
<1>5. CASE PublishChat
  <2> DEFINE m == Parse(Head(todo)).message
  <2>1. /\ reader = "lines" /\ todo # <<>> /\ todo' = Tail(todo) /\ UNCHANGED said
        /\ published' = Append(published, m) /\ Parse(Head(todo)).kind = "chat"
    BY <1>5 DEF PublishChat, AfterLine, Published
  <2>2. Said(Head(todo)) = <<m>> /\ m \in Messages
    BY <2>1, HeadOfTodo DEF Messages
  <2> HIDE DEF m
  <2>3. published' = published \o <<m>> /\ <<m>> \in Seq(Messages)
    BY <2>1, <2>2, AppendIsConcat DEF ChatInv
  <2> QED
    BY <1>3, <2>1, <2>2, <2>3
<1>6. CASE LoopTop \/ ReadFails \/ PublishReturns \/ PayloadDone
  BY <1>1, <1>6 DEF LoopTop, ReadFails, PublishReturns, PayloadDone
<1>7. CASE Connect \/ MarkClosed \/ CloseConn \/ TwitchTakes \/ Drop \/ UNCHANGED vars
  BY <1>1, <1>7 DEF Connect, MarkClosed, CloseConn, TwitchTakes, Drop, vars, readerVars
<1>8. ASSUME NEW n \in Names, Join(n) \/ Part(n)
      PROVE  ChatInv'
  BY <1>1, <1>8 DEF Join, Part, Change, readerVars
<1>9. ASSUME NEW p \in Payloads, TwitchSends(p)
      PROVE  ChatInv'
  BY <1>1, <1>9 DEF TwitchSends, readerVars
<1> QED
  BY <1>2, <1>4, <1>5, <1>6, <1>7, <1>8, <1>9 DEF Next, Start

\* ChatAsSaid: what users said in the payloads read is what PublishChat was
\* called with, in order and once, followed by what is still in hand.
THEOREM ChatAsSaidCorrect == Spec => []ChatAsSaid
<1>1. Init => ChatInv
  BY NothingSaid, EmptySeq, ConcatEmptySeq DEF Init, ChatInv
<1>2. TypeInv => ReaderTypes
  BY DEF TypeInv
<1>3. ChatInv => ChatAsSaid
  BY DEF ChatInv, ChatAsSaid
<1> QED
  BY <1>1, <1>2, <1>3, ChatStep, TypesHold, PTL DEF Spec

-----------------------------------------------------------------------------
(* The PINGs: counted by their places in payloads. *)

PingsAt(lines) == {j \in DOMAIN lines : Parse(lines[j]).kind = "ping"}

LEMMA PingsAtPlaces == \A lines : PingsIn(lines) = Cardinality(PingsAt(lines))
BY DEF PingsIn, PingsAt

LEMMA PingsFinite ==
  ASSUME NEW lines \in Seq(Lines)
  PROVE  IsFiniteSet(PingsAt(lines)) /\ PingsIn(lines) \in Nat
<1>1. Len(lines) \in Nat /\ DOMAIN lines = 1..Len(lines)
  BY LenProperties
<1>2. IsFiniteSet(1..Len(lines)) /\ PingsAt(lines) \in SUBSET (1..Len(lines))
  BY <1>1, FS_Interval DEF PingsAt
<1>3. IsFiniteSet(PingsAt(lines))
  BY <1>2, FS_Subset
<1> QED
  BY <1>3, FS_CardinalityType, PingsAtPlaces

LEMMA SameNumber ==
  ASSUME NEW S, IsFiniteSet(S), NEW T, NEW f \in [S -> T],
         \A x, y \in S : f[x] = f[y] => x = y, \A t \in T : \E x \in S : f[x] = t
  PROVE  IsFiniteSet(T) /\ Cardinality(T) = Cardinality(S)
<1>1. f \in Bijection(S, T)
  BY DEF Bijection, Injection, Surjection, IsInjective
<1>2. ExistsBijection(S, T)
  BY <1>1 DEF ExistsBijection
<1> QED
  BY <1>2, FS_Bijection

LEMMA NoPings == PingsIn(<<>>) = 0
<1>1. PingsAt(<<>>) = {}
  BY DEF PingsAt
<1> QED
  BY <1>1, FS_EmptySet, PingsAtPlaces

LEMMA PingsFirst ==
  ASSUME NEW lines \in Seq(Lines), lines # <<>>
  PROVE  PingsIn(lines) = (IF Parse(Head(lines)).kind = "ping" THEN 1 ELSE 0) + PingsIn(Tail(lines))
<1> DEFINE t == Tail(lines)
           n == Len(lines)
<1>1. n \in Nat /\ n # 0 /\ DOMAIN lines = 1..n /\ Head(lines) = lines[1]
  BY EmptySeq, LenProperties
<1>2. t \in Seq(Lines) /\ Len(t) = n - 1 /\ \A i \in 1..(n - 1) : t[i] = lines[i + 1]
  BY HeadTailProperties
<1>3. DOMAIN t = 1..(n - 1)
  BY <1>2, LenProperties
<1> HIDE DEF t, n
<1> DEFINE A == PingsAt(lines)
           B == PingsAt(t)
           f == [j \in B |-> j + 1]
<1>4. IsFiniteSet(A) /\ IsFiniteSet(B)
  BY <1>2, PingsFinite
<1>5. /\ \A j \in B : j \in 1..(n - 1) /\ j + 1 \in A \ {1}
      /\ \A j \in A \ {1} : j - 1 \in B /\ (j - 1) + 1 = j
  BY <1>1, <1>2, <1>3 DEF PingsAt
<1>6. f \in [B -> A \ {1}] /\ \A j \in B : f[j] = j + 1
  BY <1>5
<1>7. \A i, j \in B : f[i] = f[j] => i = j
  BY <1>5, <1>6
<1>8. \A k \in A \ {1} : \E j \in B : f[j] = k
  BY <1>5, <1>6
<1>9. Cardinality(A \ {1}) = Cardinality(B)
  <2> HIDE DEF A, B, f
  <2> QED
    BY <1>4, <1>6, <1>7, <1>8, SameNumber
<1>10. Cardinality(A \ {1}) = IF 1 \in A THEN Cardinality(A) - 1 ELSE Cardinality(A)
  <2> HIDE DEF A
  <2> QED
    BY <1>4, FS_RemoveElement
<1>11. 1 \in A <=> Parse(Head(lines)).kind = "ping"
  BY <1>1 DEF PingsAt
<1>12. PingsIn(lines) = Cardinality(A) /\ PingsIn(t) = Cardinality(B)
  BY PingsAtPlaces
<1>13. Cardinality(A) \in Nat
  BY <1>4, FS_CardinalityType
<1> HIDE DEF A, B
<1>14. PingsIn(lines) = (IF Parse(Head(lines)).kind = "ping" THEN 1 ELSE 0) + PingsIn(t)
  BY <1>9, <1>10, <1>11, <1>12, <1>13
<1> QED
  BY <1>14 DEF t

LEMMA PlacesAre ==
  ASSUME NEW ps
  PROVE  /\ \A i, j : <<i, j>> \in PingPlaces(ps) <=> i \in DOMAIN ps /\ j \in PingsAt(ps[i])
         /\ \A x \in PingPlaces(ps) : x = <<x[1], x[2]>>
BY DEF PingPlaces, PingsAt

LEMMA PlacesOfOne ==
  ASSUME NEW lines \in Seq(Lines), NEW i
  PROVE  /\ IsFiniteSet({i} \X PingsAt(lines))
         /\ Cardinality({i} \X PingsAt(lines)) = PingsIn(lines)
<1> DEFINE A == PingsAt(lines)
           f == [j \in A |-> <<i, j>>]
<1>1. IsFiniteSet(A) /\ PingsIn(lines) = Cardinality(A)
  BY PingsFinite, PingsAtPlaces
<1>2. f \in [A -> {i} \X A] /\ \A j \in A : f[j] = <<i, j>>
  OBVIOUS
<1>3. \A j, k \in A : f[j] = f[k] => j = k
  BY <1>2
<1>4. \A x \in {i} \X A : \E j \in A : f[j] = x
  BY <1>2
<1> HIDE DEF A, f
<1>5. IsFiniteSet({i} \X A) /\ Cardinality({i} \X A) = Cardinality(A)
  BY <1>1, <1>2, <1>3, <1>4, SameNumber
<1> QED
  BY <1>1, <1>5 DEF A

LEMMA PlacesAppended ==
  ASSUME NEW ps \in Seq(Payloads), NEW p \in Payloads, IsFiniteSet(PingPlaces(ps))
  PROVE  /\ IsFiniteSet(PingPlaces(Append(ps, p)))
         /\ Cardinality(PingPlaces(Append(ps, p))) = Cardinality(PingPlaces(ps)) + PingsIn(p)
<1> DEFINE n == Len(ps)
           q == Append(ps, p)
           new == {n + 1} \X PingsAt(p)
<1>1. /\ n \in Nat /\ DOMAIN ps = 1..n
      /\ q \in Seq(Payloads) /\ Len(q) = n + 1 /\ (\A i \in 1..n : q[i] = ps[i]) /\ q[n + 1] = p
  BY LenProperties, AppendProperties
<1>2. DOMAIN q = 1..(n + 1) /\ \A i : i \in 1..(n + 1) <=> (i \in 1..n \/ i = n + 1)
  BY <1>1, LenProperties
<1>3. p \in Seq(Lines)
  BY IngestClientAssumption
<1> HIDE DEF n, q
<1>4. \A i, j : <<i, j>> \in PingPlaces(q) <=> (<<i, j>> \in PingPlaces(ps) \/ <<i, j>> \in new)
  BY <1>1, <1>2, PlacesAre
<1>5. PingPlaces(q) = PingPlaces(ps) \cup new
  <2>1. \A x \in PingPlaces(q) \cup PingPlaces(ps) \cup new : x = <<x[1], x[2]>>
    BY PlacesAre
  <2> HIDE DEF new
  <2> QED
    BY <1>4, <2>1
<1>6. PingPlaces(ps) \cap new = {}
  <2>1. \A i, j : <<i, j>> \in PingPlaces(ps) => i # n + 1
    BY <1>1, PlacesAre
  <2> QED
    BY <2>1
<1>7. IsFiniteSet(new) /\ Cardinality(new) = PingsIn(p)
  BY <1>3, PlacesOfOne
<1> HIDE DEF new
<1>8. /\ IsFiniteSet(PingPlaces(q))
      /\ Cardinality(PingPlaces(q)) = Cardinality(PingPlaces(ps)) + PingsIn(p) - Cardinality({})
  BY <1>5, <1>6, <1>7, FS_Union
<1>9. Cardinality({}) = 0 /\ Cardinality(PingPlaces(ps)) \in Nat /\ PingsIn(p) \in Nat
  BY <1>3, FS_EmptySet, FS_CardinalityType, PingsFinite
<1> QED
  BY <1>8, <1>9 DEF q

LEMMA PlacesFirst ==
  ASSUME NEW ps \in Seq(Payloads), ps # <<>>, IsFiniteSet(PingPlaces(ps))
  PROVE  /\ IsFiniteSet(PingPlaces(Tail(ps)))
         /\ Cardinality(PingPlaces(ps)) = PingsIn(Head(ps)) + Cardinality(PingPlaces(Tail(ps)))
<1> DEFINE n == Len(ps)
           t == Tail(ps)
           first == {1} \X PingsAt(ps[1])
           rest == PingPlaces(ps) \ first
           f == [x \in rest |-> <<x[1] - 1, x[2]>>]
<1>1. n \in Nat /\ n # 0 /\ DOMAIN ps = 1..n /\ Head(ps) = ps[1] /\ Head(ps) \in Payloads
  BY EmptySeq, LenProperties, HeadTailProperties
<1>2. t \in Seq(Payloads) /\ Len(t) = n - 1 /\ \A i \in 1..(n - 1) : t[i] = ps[i + 1]
  BY HeadTailProperties
<1>3. DOMAIN t = 1..(n - 1)
  BY <1>2, LenProperties
<1> HIDE DEF n, t
<1>4. \A i, j : <<i, j>> \in rest <=> (i \in 2..n /\ j \in PingsAt(ps[i]))
  <2>1. \A i : i \in 1..n /\ i # 1 <=> i \in 2..n
    BY <1>1
  <2> QED
    BY <1>1, <2>1, PlacesAre
<1>5. \A i, j : <<i, j>> \in PingPlaces(t) <=> (i \in 1..(n - 1) /\ j \in PingsAt(ps[i + 1]))
  BY <1>2, <1>3, PlacesAre
<1>6. /\ \A x \in rest : x = <<x[1], x[2]>> /\ x[1] \in 2..n
      /\ \A x \in PingPlaces(t) : x = <<x[1], x[2]>> /\ x[1] \in 1..(n - 1)
  <2>1. \A x \in PingPlaces(ps) \cup PingPlaces(t) : x = <<x[1], x[2]>>
    BY PlacesAre
  <2> QED
    BY <1>4, <1>5, <2>1
<1>7. \A i \in 2..n : i - 1 \in 1..(n - 1) /\ (i - 1) + 1 = i
  BY <1>1
<1>8. \A i \in 1..(n - 1) : i + 1 \in 2..n /\ (i + 1) - 1 = i
  BY <1>1
<1> HIDE DEF rest
<1>9. \A x \in rest : <<x[1] - 1, x[2]>> \in PingPlaces(t)
  BY <1>4, <1>5, <1>6, <1>7
<1>10. f \in [rest -> PingPlaces(t)] /\ \A x \in rest : f[x] = <<x[1] - 1, x[2]>>
  BY <1>9
<1>11. \A x, y \in rest : f[x] = f[y] => x = y
  <2> SUFFICES ASSUME NEW x \in rest, NEW y \in rest, f[x] = f[y] PROVE x = y
    OBVIOUS
  <2>1. x[1] - 1 = y[1] - 1 /\ x[2] = y[2]
    BY <1>10
  <2>2. x[1] = y[1]
    BY <1>6, <1>7, <2>1
  <2> QED
    BY <1>6, <2>1, <2>2
<1>12. \A y \in PingPlaces(t) : \E x \in rest : f[x] = y
  <2> SUFFICES ASSUME NEW y \in PingPlaces(t) PROVE \E x \in rest : f[x] = y
    OBVIOUS
  <2>1. y = <<y[1], y[2]>> /\ y[1] \in 1..(n - 1) /\ y[2] \in PingsAt(ps[y[1] + 1])
    BY <1>5, <1>6
  <2>2. <<y[1] + 1, y[2]>> \in rest
    BY <1>4, <1>8, <2>1
  <2>3. f[<<y[1] + 1, y[2]>>] = <<(y[1] + 1) - 1, y[2]>>
    BY <1>10, <2>2
  <2> QED
    BY <1>8, <2>1, <2>2, <2>3
<1>13. IsFiniteSet(rest)
  BY FS_Subset DEF rest
<1>14. IsFiniteSet(PingPlaces(t)) /\ Cardinality(PingPlaces(t)) = Cardinality(rest)
  <2> HIDE DEF f
  <2> QED
    BY <1>10, <1>11, <1>12, <1>13, SameNumber
<1>15. ps[1] \in Seq(Lines)
  BY <1>1, IngestClientAssumption
<1>16. IsFiniteSet(first) /\ Cardinality(first) = PingsIn(ps[1]) /\ PingsIn(ps[1]) \in Nat
  BY <1>15, PlacesOfOne, PingsFinite
<1>17. PingPlaces(ps) \cap first = first
  BY <1>1, PlacesAre
<1>18. Cardinality(rest) = Cardinality(PingPlaces(ps)) - PingsIn(ps[1])
  <2>1. rest = PingPlaces(ps) \ first
    BY DEF rest
  <2> HIDE DEF first
  <2>2. \A S, T : IsFiniteSet(S) =>
          Cardinality(S \ T) = Cardinality(S) - Cardinality(S \cap T)
    BY FS_Difference
  <2>3. Cardinality(PingPlaces(ps) \ first) =
          Cardinality(PingPlaces(ps)) - Cardinality(PingPlaces(ps) \cap first)
    BY <2>2, Zenon
  <2> QED
    BY <1>16, <1>17, <2>1, <2>3
<1>19. Cardinality(PingPlaces(ps)) \in Nat
  BY FS_CardinalityType
<1>20. Cardinality(PingPlaces(ps)) = PingsIn(Head(ps)) + Cardinality(PingPlaces(t))
  BY <1>1, <1>14, <1>16, <1>18, <1>19
<1> QED
  BY <1>14, <1>20 DEF t

LEMMA PlacesPrefix ==
  ASSUME NEW ps \in Seq(Payloads), NEW n \in 0..Len(ps), IsFiniteSet(PingPlaces(ps))
  PROVE  /\ IsFiniteSet(PingPlaces(SubSeq(ps, 1, n)))
         /\ Cardinality(PingPlaces(SubSeq(ps, 1, n))) <= Cardinality(PingPlaces(ps))
<1> DEFINE q == SubSeq(ps, 1, n)
<1>1. DOMAIN ps = 1..Len(ps) /\ Len(ps) \in Nat
  BY LenProperties
<1>2. DOMAIN q = 1..n /\ \A i \in 1..n : q[i] = ps[i]
  OBVIOUS
<1>3. 1..n \subseteq 1..Len(ps)
  BY <1>1
<1> HIDE DEF q
<1>4. PingPlaces(q) \in SUBSET PingPlaces(ps)
  <2>1. \A i, j : <<i, j>> \in PingPlaces(q) => <<i, j>> \in PingPlaces(ps)
    BY <1>1, <1>2, <1>3, PlacesAre
  <2> QED
    BY <2>1, PlacesAre
<1> QED
  BY <1>4, FS_Subset DEF q

\* The number of PINGs in inbox is one, and as long as no connection is lost
\* answers, PINGs in hand and PINGs on their way are all that were sent.
PingInv ==
  /\ IsFiniteSet(PingPlaces(inbox))
  /\ pongs + PingsIn(todo) + Cardinality(PingPlaces(inbox)) <= pings
  /\ conn \in {"none", "open"} => pongs + PingsIn(todo) + Cardinality(PingPlaces(inbox)) = pings

LEMMA PingNumbers ==
  ASSUME ReaderTypes, PingInv
  PROVE  PingsIn(todo) \in Nat /\ Cardinality(PingPlaces(inbox)) \in Nat
BY PingsFinite, FS_CardinalityType DEF ReaderTypes, PingInv

\* A step that takes the first line of todo and answers it if it has to.
LEMMA PingLine ==
  ASSUME ReaderTypes, CountTypes, PingInv, reader = "lines", todo # <<>>,
         todo' = Tail(todo), UNCHANGED <<conn, inbox, pings>>,
         pongs' = IF Parse(Head(todo)).kind = "ping" /\ conn = "open" THEN pongs + 1 ELSE pongs
  PROVE  PingInv'
<1> DEFINE ping == Parse(Head(todo)).kind = "ping"
           h == PingsIn(todo)
           t == PingsIn(Tail(todo))
           w == Cardinality(PingPlaces(inbox))
           a == pongs
           b == pongs'
           p == pings
<1>1. h = (IF ping THEN 1 ELSE 0) + t
  BY PingsFirst DEF ReaderTypes
<1>2. h \in Nat /\ t \in Nat /\ w \in Nat /\ a \in Nat /\ p \in Nat
  BY PingNumbers, HeadOfTodo, PingsFinite DEF CountTypes
<1>3. a + h + w <= p /\ (conn \in {"none", "open"} => a + h + w = p)
  BY DEF PingInv
<1>4. b = IF ping /\ conn = "open" THEN a + 1 ELSE a
  OBVIOUS
<1>5. conn # "none"
  BY DEF ReaderTypes
<1>6. PingsIn(todo)' = t /\ PingPlaces(inbox)' = PingPlaces(inbox)
  BY DEF PingsIn, PingPlaces
<1> HIDE DEF ping, h, t, w, a, b, p
<1>7. b + t + w <= p /\ (conn = "open" => b + t + w = p)
  BY <1>1, <1>2, <1>3, <1>4, <1>5
<1>8. pongs' = b /\ pings' = p /\ Cardinality(PingPlaces(inbox)') = w /\ IsFiniteSet(PingPlaces(inbox)')
  BY <1>6 DEF b, p, w, PingInv
<1> QED
  BY <1>5, <1>6, <1>7, <1>8 DEF PingInv

LEMMA PingStep ==
  ASSUME ReaderTypes, CountTypes, PingInv, [Next]_vars
  PROVE  PingInv'
<1>1. ASSUME UNCHANGED <<todo, inbox, pings, pongs>>,
             conn' \in {"none", "open"} => conn \in {"none", "open"}
      PROVE  PingInv'
  BY <1>1 DEF PingInv, PingsIn, PingPlaces
<1>2. CASE Read
  <2> DEFINE h == PingsIn(Head(inbox))
             w == Cardinality(PingPlaces(inbox))
             v == Cardinality(PingPlaces(Tail(inbox)))
             a == pongs
             p == pings
  <2>1. inbox # <<>> /\ todo = <<>> /\ todo' = Head(inbox) /\ inbox' = Tail(inbox)
        /\ UNCHANGED <<conn, pings, pongs>>
    BY <1>2 DEF Read, ReaderTypes, twitchVars
  <2>2. IsFiniteSet(PingPlaces(Tail(inbox))) /\ w = h + v
    BY <2>1, PlacesFirst DEF ReaderTypes, PingInv
  <2>3. Head(inbox) \in Seq(Lines)
    BY <2>1, HeadTailProperties, IngestClientAssumption DEF ReaderTypes
  <2>4. h \in Nat /\ v \in Nat /\ a \in Nat /\ p \in Nat
    BY <2>2, <2>3, PingsFinite, FS_CardinalityType DEF CountTypes
  <2>5. a + 0 + w <= p /\ (conn \in {"none", "open"} => a + 0 + w = p)
    BY <2>1, NoPings DEF PingInv
  <2>6. PingsIn(todo)' = h /\ PingPlaces(inbox)' = PingPlaces(Tail(inbox))
    BY <2>1 DEF PingsIn, PingPlaces
  <2>7. Cardinality(PingPlaces(inbox)') = v /\ pongs' = a /\ pings' = p
    BY <2>1, <2>6
  <2> HIDE DEF h, w, v, a, p
  <2>8. a + h + v <= p /\ (conn \in {"none", "open"} => a + h + v = p)
    BY <2>2, <2>4, <2>5
  <2> QED
    BY <2>1, <2>2, <2>6, <2>7, <2>8 DEF PingInv
<1>3. CASE SkipLine \/ AnswerPing \/ PublishChat
  <2>1. /\ reader = "lines" /\ todo # <<>> /\ todo' = Tail(todo)
        /\ UNCHANGED <<conn, inbox, pings>>
        /\ pongs' = IF Parse(Head(todo)).kind = "ping" /\ conn = "open" THEN pongs + 1 ELSE pongs
    BY <1>3 DEF SkipLine, AnswerPing, PublishChat, AfterLine, twitchVars
  <2> QED
    BY <2>1, PingLine
<1>4. ASSUME NEW m \in Payloads, TwitchSends(m)
      PROVE  PingInv'
  <2> DEFINE h == PingsIn(todo)
             w == Cardinality(PingPlaces(inbox))
             v == Cardinality(PingPlaces(Append(inbox, m)))
             d == PingsIn(m)
             a == pongs
             p == pings
             q == pings'
  <2>1. /\ conn = "open" /\ inbox' = Append(inbox, m) /\ q = p + d
        /\ UNCHANGED <<conn, todo, pongs>>
    BY <1>4 DEF TwitchSends, readerVars
  <2>2. IsFiniteSet(PingPlaces(Append(inbox, m))) /\ v = w + d
    BY PlacesAppended DEF ReaderTypes, PingInv
  <2>3. h \in Nat /\ w \in Nat /\ d \in Nat /\ a \in Nat /\ p \in Nat
    BY PingNumbers, PingsAreNat DEF CountTypes
  <2>4. a + h + w = p
    BY <2>1 DEF PingInv
  <2>5. PingsIn(todo)' = h /\ PingPlaces(inbox)' = PingPlaces(Append(inbox, m))
    BY <2>1 DEF PingsIn, PingPlaces
  <2>6. Cardinality(PingPlaces(inbox)') = v /\ pongs' = a /\ pings' = q
    BY <2>1, <2>5
  <2> HIDE DEF h, w, v, d, a, p, q
  <2>7. a + h + v = q /\ a + h + v <= q
    BY <2>1, <2>2, <2>3, <2>4
  <2> QED
    BY <2>2, <2>5, <2>6, <2>7 DEF PingInv
<1>5. CASE Drop
  <2>1. PICK n \in 0..Len(inbox) : inbox' = SubSeq(inbox, 1, n)
    BY <1>5 DEF Drop
  <2> DEFINE h == PingsIn(todo)
             w == Cardinality(PingPlaces(inbox))
             v == Cardinality(PingPlaces(SubSeq(inbox, 1, n)))
             a == pongs
             p == pings
  <2>2. conn' = "dropped" /\ UNCHANGED <<todo, pings, pongs>>
    BY <1>5 DEF Drop, readerVars
  <2>3. IsFiniteSet(PingPlaces(SubSeq(inbox, 1, n))) /\ v <= w
    BY PlacesPrefix DEF ReaderTypes, PingInv
  <2>4. h \in Nat /\ w \in Nat /\ v \in Nat /\ a \in Nat /\ p \in Nat
    BY <2>3, PingNumbers, FS_CardinalityType DEF CountTypes
  <2>5. a + h + w <= p
    BY DEF PingInv
  <2>6. PingsIn(todo)' = h /\ PingPlaces(inbox)' = PingPlaces(SubSeq(inbox, 1, n))
    BY <2>1, <2>2 DEF PingsIn, PingPlaces
  <2>7. Cardinality(PingPlaces(inbox)') = v /\ pongs' = a /\ pings' = p
    BY <2>2, <2>6
  <2> HIDE DEF h, w, v, a, p
  <2>8. a + h + v <= p
    BY <2>3, <2>4, <2>5
  <2> QED
    BY <2>2, <2>3, <2>6, <2>7, <2>8 DEF PingInv
<1>6. CASE LoopTop \/ ReadFails \/ PublishReturns \/ PayloadDone
  BY <1>1, <1>6 DEF LoopTop, ReadFails, PublishReturns, PayloadDone, twitchVars
<1>7. CASE Connect \/ MarkClosed \/ CloseConn \/ TwitchTakes \/ UNCHANGED vars
  BY <1>1, <1>7 DEF Connect, MarkClosed, CloseConn, ConnAfterClose, TwitchTakes, vars,
                    mainVars, readerVars, twitchVars
<1>8. ASSUME NEW n \in Names, Join(n) \/ Part(n)
      PROVE  PingInv'
  BY <1>1, <1>8 DEF Join, Part, Change, readerVars, twitchVars
<1> QED
  BY <1>2, <1>3, <1>4, <1>5, <1>6, <1>7, <1>8 DEF Next, Start

\* PingsAccounted: while the connection is up every PING Twitch sent was
\* answered, is in hand or is on its way, and none is ever answered twice.
THEOREM PingsAccountedCorrect == Spec => []PingsAccounted
<1>1. Init => PingInv
  <2> SUFFICES ASSUME Init PROVE PingInv
    OBVIOUS
  <2>1. PingPlaces(<<>>) = {}
    BY DEF PingPlaces
  <2>2. PingsIn(todo) = 0 /\ PingPlaces(inbox) = {} /\ pings = 0 /\ pongs = 0
    BY <2>1, NoPings DEF Init
  <2> QED
    BY <2>2, FS_EmptySet DEF PingInv
<1>2. TypeInv => ReaderTypes /\ CountTypes
  BY DEF TypeInv
<1>3. ReaderTypes /\ CountTypes /\ PingInv => PingsAccounted
  <2> SUFFICES ASSUME ReaderTypes, CountTypes, PingInv PROVE PingsAccounted
    OBVIOUS
  <2> DEFINE h == PingsIn(todo)
             w == Cardinality(PingPlaces(inbox))
  <2>1. h \in Nat /\ w \in Nat /\ pongs \in Nat /\ pings \in Nat
    BY PingNumbers DEF CountTypes
  <2>2. pongs + h + w <= pings /\ (conn = "open" => pongs + h + w = pings)
    BY DEF PingInv
  <2> HIDE DEF h, w
  <2>3. pongs + (h + w) <= pings /\ (conn = "open" => pongs + (h + w) = pings)
    BY <2>1, <2>2
  <2> QED
    BY <2>3 DEF h, w, PingsAccounted
<1> QED
  BY <1>1, <1>2, <1>3, PingStep, TypesHold, PTL DEF Spec
=============================================================================
