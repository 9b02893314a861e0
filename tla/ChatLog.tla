------------------------------ MODULE ChatLog -------------------------------
(***************************************************************************)
(* What the chat store promises, whatever its batches, retries and         *)
(* failures: a message is accepted once, and then either stored together   *)
(* with everything that was pending, or lost together with it when the     *)
(* process ends.  Accepting a message again changes nothing.               *)
(***************************************************************************)
EXTENDS Integers

VARIABLES
  accepted,  \* number of messages accepted
  pending,   \* messages accepted and neither stored nor lost
  rows,      \* messages stored
  lost       \* messages that were pending when the process ended

logVars == <<accepted, pending, rows, lost>>

Init ==
  /\ accepted = 0
  /\ pending = {}
  /\ rows = {}
  /\ lost = {}

Accept ==
  /\ accepted' = accepted + 1
  /\ pending' = pending \cup {accepted'}
  /\ UNCHANGED <<rows, lost>>

\* All of it or none of it.
Store ==
  /\ rows' = rows \cup pending
  /\ pending' = {}
  /\ UNCHANGED <<accepted, lost>>

AcceptAndStore ==
  /\ accepted' = accepted + 1
  /\ rows' = rows \cup pending \cup {accepted'}
  /\ pending' = {}
  /\ UNCHANGED lost

Lose ==
  /\ lost' = lost \cup pending
  /\ pending' = {}
  /\ UNCHANGED <<accepted, rows>>

Next == Accept \/ Store \/ AcceptAndStore \/ Lose

Spec == Init /\ [][Next]_logVars
=============================================================================
