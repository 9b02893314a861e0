--------------------------- MODULE MCClipDecision ---------------------------
(* Constant values for checking ClipDecision. *)
EXTENDS ClipDecision

\* Every name is a broadcaster of its own.
MCOwn == [c \in Names |-> c]
MCWallSteps == {-2}
MCNoSteps == {}

\* Time passes only while the handler waits for a token, a login or Twitch: the
\* rest of what it does takes no time.
MCNextInWaits == Next /\ (clock' # clock => pc \notin {"idle", "ack"})
MCSpecInWaits == Init /\ [][MCNextInWaits]_vars
=============================================================================
