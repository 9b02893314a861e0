-------------------------- MODULE MCFeatureWindows --------------------------
(* Checking FeatureWindows, and Features on the messages of a window. *)
EXTENDS FeatureWindows, Features

\* Timestamps that lag, lead, and lag too far to be accepted.
MCOffsets == {-3, -1, 1}
MCClockSteps == {-1, 1}
-----------------------------------------------------------------------------
MCLowerOf == [O |-> "o", M |-> "m", G |-> "g", W |-> "w", A |-> "a", Y |-> "y"]

Contents == {"omg", "OoOMGg", "  no   WAY ", "no", "way gg", "let's", "go", "Wwww", "clean cinema", "gl hf", " "}
Buffered == {BufferedMessage(u, Chars(s)) : u \in {"u1"}, s \in Contents}
            \cup {BufferedMessage("u2", Chars("omg"))}
Windows == UNION {[1..n -> Buffered] : n \in 1..3}

\* The functions keep no state: they are tried once, before any chat.
Fresh == running /\ received = 0 /\ clock = 0 /\ ticker = None

\* normalize.go: '"omg" does not also count "omgg" / "omfg"'.  A hype word scores
\* one, through itself, and none of its parts scores for another word.  Text is
\* normalized once and for all, so that words and chat are compared alike.
HypeWordsRecognised ==
  Fresh =>
    /\ \A i \in DOMAIN HypeWords :
         /\ HypeScore(NormalizedWords[i]) = 1
         /\ Vote(NormalizedWords[i]) = {NormalizedWords[i]}
    /\ \A s \in Contents : LET n == SimpleNormalize(Chars(s)) IN SimpleNormalize(n) = n

\* A window has at least the hype of each of its messages, which do not run into
\* each other, and its counts agree: the texts that repeat are the messages that
\* are not the first of their text, and no text repeats more often than that.
WindowFeaturesRight ==
  Fresh => \A w \in Windows :
    LET f == ComputeWindowFeatures(w)
    IN /\ \A i \in DOMAIN w : f.hypeScore >= HypeScore(w[i].norm)
       /\ f.uniqueUsers <= f.msgCount
       /\ f.maxRepeatCount <= f.repeated + 1
       /\ f.msgCount <= f.uniqueNormMsgs * f.maxRepeatCount
=============================================================================
