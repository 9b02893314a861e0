--------------------------- MODULE MCIngestClient ---------------------------
(* Checking IngestClient with the parser of IRCParser and lines as Twitch  *)
(* writes them.                                                            *)
EXTENDS IngestClient, IRCParser

MCLowerOf == [Tarik |-> "tarik"]
MCNames == {"tarik", "Tarik", "shroud", "#"}
MCChannelOf == [n \in MCNames |-> CASE n = "#" -> "" [] n = "Tarik" -> "tarik" [] OTHER -> n]
-----------------------------------------------------------------------------
(* Twitch's side: a chat message and the line that carries it. *)
Escaped == [c \in {";", " ", "\\", "\r", "\n"} |->
             CASE c = ";" -> <<"\\", ":">> [] c = " " -> <<"\\", "s">> [] c = "\r" -> <<"\\", "r">>
               [] c = "\n" -> <<"\\", "n">> [] OTHER -> <<"\\", "\\">>]
Escape(s) == FlattenSeq([i \in DOMAIN s |-> IF s[i] \in DOMAIN Escaped THEN Escaped[s[i]] ELSE <<s[i]>>])

EmoteTag(spans) ==
  IF spans = <<>> THEN <<>>
  ELSE <<"25", ":">> \o JoinTexts([i \in DOMAIN spans |->
                                  <<ToString(spans[i][1]), "-", ToString(spans[i][2])>>], ",")

\* A line without tags, or with them; absent ones are left out.
Wire(m) ==
  (IF m.tagged
   THEN <<"@">> \o JoinTexts(<< <<"id", "=">> \o m.id,
                              <<"display-name", "=">> \o Escape(m.name),
                              <<"emotes", "=">> \o EmoteTag(m.spans) >>
                           \o (IF m.bits = 0 THEN <<>> ELSE << <<"bits", "=", ToString(m.bits)>> >>)
                           \o << <<"tmi-sent-ts", "=", "1", "7">>, <<"user-id", "=", "9">> >>, ";")
        \o <<" ">>
   ELSE <<>>)
  \o <<":", "nick", "!", "nick@host", " ", "PRIVMSG", " ", "#", "tarik", " ", ":">> \o m.text

\* What ChatMessage should be for it.
Meant(m) ==
  LET inText == SelectSeq(m.spans, LAMBDA s : s[1] <= s[2] /\ s[2] < Len(m.text))
  IN [id |-> IF m.tagged THEN m.id ELSE <<>>, channel |-> <<"tarik">>,
      userID |-> IF m.tagged THEN <<"9">> ELSE <<>>,
      userName |-> IF m.tagged /\ m.name # <<>> THEN m.name ELSE <<"nick">>,
      content |-> m.text,
      emotes |-> IF m.tagged
                 THEN [i \in DOMAIN inText |-> SubSeq(m.text, inText[i][1] + 1, inText[i][2] + 1)]
                 ELSE <<>>,
      bits |-> IF m.tagged THEN m.bits ELSE 0,
      timestamp |-> IF m.tagged THEN 17 ELSE Now]

Messages ==
  [tagged : BOOLEAN, id : {<<"m1">>},
   name : {<<>>, <<"Bob">>, <<";", " ", "\\", "s">>, <<"\\", "\\", ":", "\n">>},
   text : {<<>>, <<"gg">>, <<":", "PING">>, <<"K", " ", ":", "K">>, <<" ", "a", " ", ":", "@", "b">>},
   spans : {<<>>, <<<<0, 0>>>>, <<<<0, 0>>, <<3, 3>>>>, <<<<1, 2>>, <<4, 9>>>>, <<<<2, 1>>>>},
   bits : {0, 5}]

\* Every line a user can cause is parsed to what the user said, whatever is in
\* the name, the text and the emote positions.  The parser keeps no state: it is
\* tried once, before the client connects.
ParsedAsSaid ==
  conn = "none" =>
    \A m \in Messages : ParseIRCLine(Wire(m)) = [kind |-> "chat", message |-> Meant(m)]
-----------------------------------------------------------------------------
Hype == [tagged |-> TRUE, id |-> <<"m1">>, name |-> <<"Bob">>, text |-> <<"K", " ", ":", "K">>,
         spans |-> <<<<0, 0>>, <<3, 3>>>>, bits |-> 0]
Plain == [tagged |-> FALSE, id |-> <<>>, name |-> <<>>, text |-> <<":", "PING">>, spans |-> <<>>, bits |-> 0]

ChatOf == Wire(Hype) :> <<Meant(Hype)>> @@ Wire(Plain) :> <<Meant(Plain)>>

Ping == <<"PING", " ", ":", "tmi">>
Welcome == <<":", "tmi", " ", "001", " ", "nick", " ", ":", "PRIVMSG">>
Broken == <<"@", "id", "=", "m1">>

MCLines == DOMAIN ChatOf \cup {Ping, Welcome, Broken, <<>>}
MCPayloads == {<<Wire(Hype), Wire(Plain), <<>>>>, <<Broken, Ping, <<>>>>, <<Welcome, Wire(Hype), Ping>>}
Parsed == [l \in MCLines |-> ParseIRCLine(l)]
MCParse(l) == Parsed[l]
MCSaid(l) == IF l \in DOMAIN ChatOf THEN ChatOf[l] ELSE <<>>
=============================================================================
