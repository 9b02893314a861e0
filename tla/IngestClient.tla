---------------------------- MODULE IngestClient ----------------------------
(***************************************************************************)
(* ingest.Client (client.go): the WebSocket connection to Twitch IRC.  One *)
(* goroutine reads payloads of lines, publishes chat to the bus and        *)
(* answers PINGs; the command loop of main joins and leaves channels over  *)
(* the same connection and closes it in the end.                           *)
(*                                                                         *)
(* Twitch is the other end: it takes what is written in order, sends       *)
(* payloads, and may drop the connection.  A write to a connection that    *)
(* was dropped may seem to succeed.  Only main reads and writes the list   *)
(* of channels, so Join and Part are one step each; writeMu makes a line   *)
(* of either goroutine one step as well.                                   *)
(***************************************************************************)
EXTENDS Integers, Sequences, FiniteSets, SequencesExt

CONSTANTS
  Lines,        \* the raw lines Twitch may send
  Payloads,     \* the sequences of them it sends in one WebSocket message
  Parse(_),     \* what ParseIRCLine makes of a line
  Said(_),      \* the chat message a user said with it, as a sequence of one or none
  Names,        \* channel names as typed
  ChannelOf,    \* the names in lower case and without "#"; NoChannel if nothing is left
  NoChannel,
  MaxPayloads,  \* bound: payloads sent
  MaxCommands   \* bound: calls of Join and Part

ASSUME IngestClientAssumption ==
  /\ Payloads \subseteq Seq(Lines)
  /\ DOMAIN ChannelOf = Names
  /\ MaxPayloads \in Nat /\ MaxCommands \in Nat

\* What the read loop takes for granted of the parser: it classifies every line,
\* and what a user said becomes a chat message, nothing else does.
ASSUME ParserAssumption ==
  \A l \in Lines :
    /\ Parse(l).kind \in {"error", "other", "ping", "chat"}
    /\ Said(l) = IF Parse(l).kind = "chat" THEN <<Parse(l).message>> ELSE <<>>

VARIABLES
  conn,       \* "none", "open", "dropped" by the other end or the network, "closed" by us
  closed,     \* the flag closed and, as it is set in the same critical section, stopCh
  reader,     \* where the goroutine of Start is
  todo,       \* the lines of the payload it has in hand
  channels,   \* the keys of Client.channels
  commands,   \* number of calls of Join and Part
  inbox,      \* payloads on their way to us
  outbox,     \* lines on their way to Twitch
  joined,     \* the channels Twitch has us in
  sent,       \* number of payloads Twitch has sent
  said,       \* history: chat users said in the payloads read
  published,  \* history: the messages PublishChat was called with
  pings,      \* history: PINGs sent by Twitch
  pongs       \* history: PONGs written before the connection was lost

vars == <<conn, closed, reader, todo, channels, commands, inbox, outbox, joined,
          sent, said, published, pings, pongs>>

mainVars == <<closed, channels, commands>>
readerVars == <<reader, todo, said, published, pongs>>
twitchVars == <<joined, sent, pings>>

Commands == {"JOIN", "PART"}
SaidIn(lines) == FlattenSeq([i \in DOMAIN lines |-> Said(lines[i])])
PingsIn(lines) == Cardinality({i \in DOMAIN lines : Parse(lines[i]).kind = "ping"})
-----------------------------------------------------------------------------
\* Connect: a failure at any line closes the connection and ends the program.
\* On success main starts the read loop.
Connect ==
  /\ conn = "none"
  /\ \/ conn' = "open" /\ reader' = "top"
     \/ conn' = "closed" /\ UNCHANGED reader
  /\ UNCHANGED <<mainVars, todo, said, published, pongs, inbox, outbox, twitchVars>>

\* writeLine on the connection as it is: what is written may be lost with it.
Write(line) ==
  outbox' = IF conn = "open" THEN Append(outbox, line) ELSE outbox

\* A failed write changes nothing; nor does an empty name, which is refused.
Change(cmd, n, list) ==
  /\ conn \in {"open", "dropped"} /\ ~closed /\ commands < MaxCommands
  /\ commands' = commands + 1
  /\ \/ /\ ChannelOf[n] # NoChannel
        /\ Write([cmd |-> cmd, arg |-> ChannelOf[n]])
        /\ channels' = list
     \/ /\ ChannelOf[n] = NoChannel \/ conn = "dropped"
        /\ UNCHANGED <<channels, outbox>>
  /\ UNCHANGED <<conn, closed, readerVars, inbox, twitchVars>>

JoinedAfter(n) == channels \cup {ChannelOf[n]}

\* Join, when main starts or by a command.
Join(n) == Change("JOIN", n, JoinedAfter(n))

\* Mutant: the name is deleted as typed.
PartedAfterTyped(n) == channels \ {n}

PartedAfter(n) == channels \ {ChannelOf[n]}

Part(n) == Change("PART", n, PartedAfter(n))

\* Close: the flag and stopCh first, ...
MarkClosed ==
  /\ conn # "none" /\ reader # "off" /\ ~closed
  /\ closed' = TRUE
  /\ UNCHANGED <<conn, channels, commands, readerVars, inbox, outbox, twitchVars>>

\* Mutant: Close relies on stopCh and leaves the connection to the runtime.
ConnAfterCloseKept == conn

ConnAfterClose == "closed"

\* ... then the connection, which ends a read that waits.
CloseConn ==
  /\ closed /\ conn # "closed"
  /\ conn' = ConnAfterClose
  /\ UNCHANGED <<mainVars, readerVars, inbox, outbox, twitchVars>>
-----------------------------------------------------------------------------
\* The top of the loop looks at stopCh and, if it is open, reads.
LoopTop ==
  /\ reader = "top"
  /\ reader' = IF closed THEN "done" ELSE "read"
  /\ UNCHANGED <<conn, mainVars, todo, said, published, pongs, inbox, outbox, twitchVars>>

\* ReadMessage returns a payload, also one that came before the connection ended.
Read ==
  /\ reader = "read" /\ inbox # <<>>
  /\ todo' = Head(inbox)
  /\ inbox' = Tail(inbox)
  /\ said' = said \o SaidIn(Head(inbox))
  /\ reader' = "lines"
  /\ UNCHANGED <<conn, mainVars, published, pongs, outbox, twitchVars>>

\* ReadMessage fails.  There is no second connection.
ReadFails ==
  /\ reader = "read" /\ conn \in {"dropped", "closed"}
  /\ reader' = "done"
  /\ UNCHANGED <<conn, mainVars, todo, said, published, pongs, inbox, outbox, twitchVars>>

\* Mutant: a line that does not parse ends the payload.
AfterLineOrError == IF Parse(Head(todo)).kind = "error" THEN <<>> ELSE Tail(todo)

AfterLine == Tail(todo)

\* Blank lines, errors and other commands are passed over.
SkipLine ==
  /\ reader = "lines" /\ todo # <<>>
  /\ Parse(Head(todo)).kind \in {"error", "other"}
  /\ todo' = AfterLine
  /\ UNCHANGED <<conn, mainVars, reader, said, published, pongs, inbox, outbox, twitchVars>>

\* A PING is answered; a failed write is only logged.
AnswerPing ==
  /\ reader = "lines" /\ todo # <<>>
  /\ Parse(Head(todo)).kind = "ping"
  /\ Write([cmd |-> "PONG", arg |-> Parse(Head(todo)).payload])
  /\ pongs' = IF conn = "open" THEN pongs + 1 ELSE pongs
  /\ todo' = AfterLine
  /\ UNCHANGED <<conn, mainVars, reader, said, published, inbox, twitchVars>>

\* Mutant: the message is published from a goroutine of its own.
PublishedAsync(m) == {Append(published, m), <<m>> \o published}

Published(m) == {Append(published, m)}

\* PublishChat is called and waits for the server; its error is only logged.
PublishChat ==
  /\ reader = "lines" /\ todo # <<>>
  /\ Parse(Head(todo)).kind = "chat"
  /\ published' \in Published(Parse(Head(todo)).message)
  /\ todo' = AfterLine
  /\ reader' = "publish"
  /\ UNCHANGED <<conn, mainVars, said, pongs, inbox, outbox, twitchVars>>

PublishReturns ==
  /\ reader = "publish"
  /\ reader' = "lines"
  /\ UNCHANGED <<conn, mainVars, todo, said, published, pongs, inbox, outbox, twitchVars>>

PayloadDone ==
  /\ reader = "lines" /\ todo = <<>>
  /\ reader' = "top"
  /\ UNCHANGED <<conn, mainVars, todo, said, published, pongs, inbox, outbox, twitchVars>>
-----------------------------------------------------------------------------
\* Twitch takes the next line we wrote.
TwitchTakes ==
  /\ conn = "open" /\ outbox # <<>>
  /\ joined' = CASE Head(outbox).cmd = "JOIN" -> joined \cup {Head(outbox).arg}
                 [] Head(outbox).cmd = "PART" -> joined \ {Head(outbox).arg}
                 [] OTHER -> joined
  /\ outbox' = Tail(outbox)
  /\ UNCHANGED <<conn, mainVars, readerVars, inbox, sent, pings>>

TwitchSends(payload) ==
  /\ conn = "open" /\ sent < MaxPayloads
  /\ sent' = sent + 1
  /\ inbox' = Append(inbox, payload)
  /\ pings' = pings + PingsIn(payload)
  /\ UNCHANGED <<conn, mainVars, readerVars, outbox, joined>>

\* The connection is lost, with what was on its way from some point on.
Drop ==
  /\ conn = "open"
  /\ conn' = "dropped"
  /\ \E n \in 0..Len(inbox) : inbox' = SubSeq(inbox, 1, n)
  /\ outbox' = <<>>
  /\ joined' = {}
  /\ UNCHANGED <<mainVars, readerVars, sent, pings>>

Init ==
  /\ conn = "none" /\ closed = FALSE
  /\ reader = "off" /\ todo = <<>>
  /\ channels = {} /\ commands = 0
  /\ inbox = <<>> /\ outbox = <<>>
  /\ joined = {} /\ sent = 0
  /\ said = <<>> /\ published = <<>>
  /\ pings = 0 /\ pongs = 0

Start ==
  \/ LoopTop \/ Read \/ ReadFails
  \/ SkipLine \/ AnswerPing \/ PublishChat \/ PublishReturns \/ PayloadDone

Next ==
  \/ Connect
  \/ \E n \in Names : Join(n) \/ Part(n)
  \/ MarkClosed \/ CloseConn
  \/ Start
  \/ TwitchTakes
  \/ \E p \in Payloads : TwitchSends(p)
  \/ Drop

Spec == Init /\ [][Next]_vars

\* The read loop runs, the bus being in the same process, and a Close once
\* begun goes on.  Nobody has to send, to drop the connection or to close it.
FairSpec == Spec /\ WF_vars(Start) /\ WF_vars(CloseConn)
-----------------------------------------------------------------------------
TypeOK ==
  /\ conn \in {"none", "open", "dropped", "closed"}
  /\ closed \in BOOLEAN
  /\ reader \in {"off", "top", "read", "lines", "publish", "done"}
  /\ todo \in Seq(Lines) /\ (todo # <<>> => reader \in {"lines", "publish"})
  /\ channels \subseteq {ChannelOf[n] : n \in Names} \ {NoChannel}
  /\ commands \in Nat /\ sent \in Nat /\ pings \in Nat /\ pongs \in Nat
  /\ inbox \in Seq(Payloads)
  /\ joined \subseteq {ChannelOf[n] : n \in Names} \ {NoChannel}

\* The last line on its way to Twitch about channel c, if there is one, is cmd.
LastLineIs(c, cmd) ==
  LET About(i) == outbox[i].cmd \in Commands /\ outbox[i].arg = c
  IN \E i \in DOMAIN outbox :
       About(i) /\ outbox[i].cmd = cmd /\ \A j \in DOMAIN outbox : About(j) => j <= i

\* While the connection is up, the channels /list and /status show are those
\* Twitch will have us in when it has taken the lines on their way: however
\* names are typed and commands follow each other, the list and Twitch agree.
ChannelsAgree ==
  conn = "open" =>
    channels = {c \in joined : ~LastLineIs(c, "PART")} \cup
               {c \in {ChannelOf[n] : n \in Names} : LastLineIs(c, "JOIN")}

\* The chat users said in the payloads read is published once, in order and
\* with the sender, text, emotes and time it was said with, whatever lines
\* come between: what is not published yet is in hand.
ChatAsSaid ==
  published \o SaidIn(todo) = said

\* Where the PINGs are in a sequence of payloads.
PingPlaces(payloads) ==
  UNION {{i} \X {j \in DOMAIN payloads[i] : Parse(payloads[i][j]).kind = "ping"} :
         i \in DOMAIN payloads}

\* No PING is passed over or answered twice, whatever lines are around it and
\* whenever the connection is lost: while it is up each was answered, is in hand
\* or on its way, and there are never more answers than that leaves.
PingsAccounted ==
  LET waiting == PingsIn(todo) + Cardinality(PingPlaces(inbox))
  IN /\ pongs + waiting <= pings
     /\ conn = "open" => pongs + waiting = pings

\* Every PING is answered, behind whatever chat and unreadable lines of its
\* payload, unless the connection is lost or closed before.
PingAnswered ==
  \A n \in 1..MaxPayloads : (pings >= n) ~> (pongs >= n \/ conn # "open" \/ closed)

\* Close ends the read loop, also one that waits for Twitch to say something.
LoopEnds == closed ~> (reader = "done")
-----------------------------------------------------------------------------
\* client.go: "Start runs the message read loop until the context is cancelled
\* or Close() is called."
RunsUntilClosed ==
  reader = "done" => closed
=============================================================================
