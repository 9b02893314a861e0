------------------------------- MODULE Features ------------------------------
(***************************************************************************)
(* What the model sees of a window: features.SimpleNormalize and HypeScore *)
(* (normalize.go) and ComputeWindowFeatures (compute.go).  A text is a     *)
(* sequence of characters.  Ratios are kept as fractions, and the entropy, *)
(* a function of the frequencies, is left out.                             *)
(***************************************************************************)
EXTENDS GoStrings

Chars(word) == [i \in 1..Len(word) |-> SubSeq(word, i, i)]

HypeWords == [i \in 1..27 |-> Chars(
  <<"omg", "wtf", "holy", "wow", "www", "nooooo", "omgg", "omfg", "let's go", "damn", "insane",
    "sato", "shy", "woow", "no way", "looooooooool", "ggwp", "wtffff", "holllyyy", "ooo",
    "clean", "cinema", "lol", "wtff", "oo", "kekw", "lmao">>[i])]
-----------------------------------------------------------------------------
\* A character is left out if the two before it are the same.
CapRuns(s) ==
  FoldLeft(LAMBDA out, c : IF Len(out) > 1 /\ c = Last(out) /\ c = out[Len(out) - 1]
                           THEN out ELSE Append(out, c), <<>>, s)

SimpleNormalize(s) == CapRuns(JoinTexts(Fields(Lower(s)), " "))

Bigrams(s) == IF Len(s) = 1 THEN {s} ELSE {SubSeq(s, i, i + 1) : i \in 1..(Len(s) - 1)}

\* bigramJaccard as a fraction; equal texts have all they have in common.
Jaccard(A, B) == [inter |-> Cardinality(A \cap B), union |-> Cardinality(A \cup B)]
Closer(p, q) == p.inter * q.union > q.inter * p.union

\* Mutant: half of the bigrams make a match.
SimilarHalf(j) == 100 * j.inter >= 50 * j.union

Similar(j) == 100 * j.inter >= 65 * j.union

NormalizedWords == [i \in DOMAIN HypeWords |-> SimpleNormalize(HypeWords[i])]
WordBigrams == [i \in DOMAIN HypeWords |-> Bigrams(NormalizedWords[i])]

\* The word a candidate counts for: the closest of those it is similar to, the
\* first of them in the list if there are several; or none.
Vote(candidate) ==
  LET j == [i \in DOMAIN HypeWords |-> Jaccard(WordBigrams[i], Bigrams(candidate))]
      similar == {i \in DOMAIN HypeWords : Similar(j[i])}
      best == {i \in similar : \A k \in similar : ~Closer(j[k], j[i])}
  IN IF similar = {} THEN {} ELSE {NormalizedWords[Min(best)]}

\* matchCandidates: the words of a text, and two or three of them in a row.
MatchCandidates(text) ==
  LET t == Fields(text)
  IN UNION {{JoinTexts(SubSeq(t, i, i + n - 1), " ") : i \in 1..(Len(t) - n + 1)} : n \in 1..3}

HypeScore(text) == Cardinality(UNION {Vote(c) : c \in MatchCandidates(text)})
-----------------------------------------------------------------------------
\* What OnChat keeps of a message.
BufferedMessage(user, content) == [user |-> user, norm |-> SimpleNormalize(content)]

\* Mutant: one message follows the other without a space.
JoinedTight(msgs) == FlattenSeq([i \in DOMAIN msgs |-> msgs[i].norm])

Joined(msgs) == FlattenSeq([i \in DOMAIN msgs |-> Append(msgs[i].norm, " ")])

Freq(msgs, text) == Cardinality({i \in DOMAIN msgs : msgs[i].norm = text})

ComputeWindowFeatures(msgs) ==
  LET texts == {msgs[i].norm : i \in DOMAIN msgs}
  IN [msgCount |-> Len(msgs),
      uniqueUsers |-> Cardinality({msgs[i].user : i \in DOMAIN msgs}),
      totalLen |-> FoldLeft(LAMBDA n, m : n + Len(m.norm), 0, msgs),
      maxRepeatCount |-> Max({Freq(msgs, t) : t \in texts}),
      uniqueNormMsgs |-> Cardinality(texts),
      hypeScore |-> HypeScore(Joined(msgs)),
      repeated |-> Len(msgs) - Cardinality(texts)]
=============================================================================
