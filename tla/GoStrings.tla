------------------------------ MODULE GoStrings ------------------------------
(***************************************************************************)
(* The functions of Go's packages strings and strconv that the parser      *)
(* (IRCParser) and the features (Features) use.  A text is a sequence of   *)
(* symbols.                                                                *)
(***************************************************************************)
EXTENDS Integers, Sequences, SequencesExt

CONSTANT LowerOf  \* the symbols that have capitals, with their lower case

Digits == [d \in {"0", "1", "2", "3", "4", "5", "6", "7", "8", "9"} |->
            CHOOSE n \in 0..9 : ToString(n) = d]

Lower(s) == [i \in DOMAIN s |-> IF s[i] \in DOMAIN LowerOf THEN LowerOf[s[i]] ELSE s[i]]

\* SplitN(s, c, 2): the text before the first c and the text after it.
Left(s, c) == IF Contains(s, c) THEN SubSeq(s, 1, SelectInSeq(s, LAMBDA x : x = c) - 1) ELSE s
Right(s, c) == SubSeq(s, SelectInSeq(s, LAMBDA x : x = c) + 1, Len(s))

\* Split(s, c), Fields(s) and Join(texts, c).
Split(s, c) ==
  FoldLeft(LAMBDA parts, x : IF x = c THEN Append(parts, <<>>)
                             ELSE [parts EXCEPT ![Len(parts)] = Append(@, x)],
           << <<>> >>, s)
Fields(s) == SelectSeq(Split(s, " "), LAMBDA w : w # <<>>)
JoinTexts(texts, c) == FlattenSeq([i \in DOMAIN texts |-> IF i = 1 THEN texts[i] ELSE <<c>> \o texts[i]])

\* Atoi and ParseInt of a text they accept.
IsNumber(s) == s # <<>> /\ ToSet(s) \subseteq DOMAIN Digits
Atoi(s) == FoldLeft(LAMBDA n, d : 10 * n + Digits[d], 0, s)

StartsWith(s, c) == s # <<>> /\ s[1] = c
=============================================================================
