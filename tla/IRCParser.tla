------------------------------ MODULE IRCParser -----------------------------
(***************************************************************************)
(* ingest.ParseIRCLine (parser.go): what the IRC client makes of one line. *)
(*                                                                         *)
(* A text is a sequence of symbols: the marks the parser looks for (space, *)
(* ":", "@", ";", "=", "!", "#", "/", ",", "-", a backslash), digits, and  *)
(* words that stand for characters it treats all alike.  A symbol of a     *)
(* chat text is one rune.                                                  *)
(***************************************************************************)
EXTENDS GoStrings
-----------------------------------------------------------------------------
Unescaped == [c \in {":", "s", "\\", "r", "n"} |->
               CASE c = ":" -> ";" [] c = "s" -> " " [] c = "r" -> "\r" [] c = "n" -> "\n"
                 [] OTHER -> c]

\* Mutant: a backslash that was itself escaped escapes what follows.
UnescapeTagValueInTurns(s) ==
  FoldLeft(LAMBDA t, c : IF t # <<>> /\ Last(t) = "\\" /\ c \in DOMAIN Unescaped
                         THEN Append(Front(t), Unescaped[c]) ELSE Append(t, c), <<>>, s)

\* unescapeTagValue: one pass, so that an escaped backslash escapes nothing.
UnescapeTagValue(s) ==
  LET Step(a, c) ==
        IF a.escape /\ c \in DOMAIN Unescaped
        THEN [out |-> Append(Front(a.out), Unescaped[c]), escape |-> FALSE]
        ELSE [out |-> Append(a.out, c), escape |-> c = "\\"]
  IN FoldLeft(Step, [out |-> <<>>, escape |-> FALSE], s).out

\* The tags before the first space: a later one replaces an earlier one.
Tags(line) ==
  LET Put(tags, pair) ==
        (Left(pair, "=") :> IF Contains(pair, "=") THEN UnescapeTagValue(Right(pair, "=")) ELSE <<>>)
        @@ tags
  IN IF StartsWith(line, "@") THEN FoldLeft(Put, <<>>, Split(Tail(Left(line, " ")), ";")) ELSE <<>>

Tag(line, key) == IF <<key>> \in DOMAIN Tags(line) THEN Tags(line)[<<key>>] ELSE <<>>

NumberTag(line, key, default) ==
  IF IsNumber(Tag(line, key)) THEN Atoi(Tag(line, key)) ELSE default

InText(from, to, text) == from >= 0 /\ to >= from /\ to < Len(text)

\* runes[from : to+1]; beyond the text Go panics.
Slice(text, from, to) ==
  IF to < Len(text) THEN SubSeq(text, from + 1, to + 1) ELSE <<"panic">>

\* parseEmotes: "id:from-to,from-to/id:from-to", positions counted in runes.
ParseEmotes(tag, text) ==
  LET groups == SelectSeq(Split(tag, "/"), LAMBDA g : Contains(g, ":"))
      ranges == FlattenSeq([g \in DOMAIN groups |-> Split(Right(groups[g], ":"), ",")])
      Emote(r) ==
        IF /\ Contains(r, "-") /\ IsNumber(Left(r, "-")) /\ IsNumber(Right(r, "-"))
           /\ InText(Atoi(Left(r, "-")), Atoi(Right(r, "-")), text)
        THEN <<Slice(text, Atoi(Left(r, "-")), Atoi(Right(r, "-")))>>
        ELSE <<>>
  IN IF tag = <<>> \/ text = <<>> THEN <<>> ELSE FlattenSeq([r \in DOMAIN ranges |-> Emote(ranges[r])])
-----------------------------------------------------------------------------
AfterTags(line) == IF StartsWith(line, "@") THEN Right(line, " ") ELSE line
AfterPrefix(rest) == IF StartsWith(rest, ":") THEN Right(rest, " ") ELSE rest
Nick(rest) == IF StartsWith(rest, ":") THEN Left(Tail(Left(rest, " ")), "!") ELSE <<>>

Malformed(line) ==
  \/ StartsWith(line, "@") /\ ~Contains(line, " ")
  \/ StartsWith(AfterTags(line), ":") /\ ~Contains(AfterTags(line), " ")

\* Where the first " :" is, which begins the text.
TrailingAt(rest) ==
  LET at == {i \in 1..(Len(rest) - 1) : rest[i] = " " /\ rest[i + 1] = ":"}
  IN IF at = {} THEN Len(rest) + 1 ELSE Min(at)

Now == -1  \* time.Now(), where the line has no timestamp

ChatMessage(line) ==
  LET rest == AfterPrefix(AfterTags(line))
      fields == Fields(SubSeq(rest, 1, TrailingAt(rest) - 1))
      text == SubSeq(rest, TrailingAt(rest) + 2, Len(rest))
      name == Tag(line, "display-name")
      chan == IF StartsWith(fields[2], "#") THEN Tail(fields[2]) ELSE fields[2]
  IN [id |-> Tag(line, "id"), channel |-> Lower(chan), userID |-> Tag(line, "user-id"),
      userName |-> IF name = <<>> THEN Nick(AfterTags(line)) ELSE name,
      content |-> text, emotes |-> ParseEmotes(Tag(line, "emotes"), text),
      bits |-> NumberTag(line, "bits", 0), timestamp |-> NumberTag(line, "tmi-sent-ts", Now)]

IsChat(line) ==
  LET rest == AfterPrefix(AfterTags(line))
      fields == Fields(SubSeq(rest, 1, TrailingAt(rest) - 1))
  IN Len(fields) >= 2 /\ fields[1] = <<"PRIVMSG">>

\* A line is a PING with what is to be answered, chat, an error, or of no interest.
ParseIRCLine(line) ==
  CASE line = <<>> -> [kind |-> "error"]
    [] StartsWith(line, "PING") ->
         [kind |-> "ping",
          payload |-> IF Contains(line, ":") THEN Right(line, ":") ELSE <<"tmi.twitch.tv">>]
    [] ~StartsWith(line, "PING") /\ Malformed(line) -> [kind |-> "error"]
    [] ~StartsWith(line, "PING") /\ line # <<>> /\ ~Malformed(line) /\ IsChat(line) ->
         [kind |-> "chat", message |-> ChatMessage(line)]
    [] OTHER -> [kind |-> "other"]
=============================================================================
