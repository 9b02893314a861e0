-------------------------------- MODULE Login --------------------------------
(***************************************************************************)
(* What a login through the browser promises to loginViaBrowser and to     *)
(* auth-cli, whatever requests reach the local port: one login is open at  *)
(* a time, it ends with what one of the redirects that came to it says or, *)
(* if it has a deadline, with that, and it ends with a code only if that   *)
(* came from the page of this login.                                       *)
(***************************************************************************)
EXTENDS Naturals

CONSTANT Logins

Outcomes == {"code", "denied", "state", "nocode"}
NoLogin == 0

VARIABLES open, limited, came, result

vars == <<open, limited, came, result>>

Init ==
  /\ open = NoLogin
  /\ limited = {}
  /\ came = [l \in Logins |-> {}]
  /\ result = [l \in Logins |-> "none"]

\* The login listens, or finds the port taken.
Begin(l) ==
  /\ result[l] = "none" /\ l # open
  /\ \/ open = NoLogin /\ open' = l /\ UNCHANGED result
     \/ open # NoLogin /\ result' = [result EXCEPT ![l] = "busy"] /\ UNCHANGED open
  /\ limited' \in {limited, limited \cup {l}}
  /\ UNCHANGED came

\* A redirect from the page of login p reaches the login that is open.
Come(p, o) ==
  /\ open # NoLogin
  /\ o = "code" => p = open
  /\ came' = [came EXCEPT ![open] = @ \cup {[page |-> p, outcome |-> o]}]
  /\ UNCHANGED <<open, limited, result>>

End(r) ==
  /\ open # NoLogin
  /\ (\E c \in came[open] : c.outcome = r) \/ (r = "timeout" /\ open \in limited)
  /\ result' = [result EXCEPT ![open] = r]
  /\ open' = NoLogin
  /\ UNCHANGED <<limited, came>>

\* The process that waits for the login ends.
Quit ==
  /\ open # NoLogin
  /\ open' = NoLogin
  /\ UNCHANGED <<limited, came, result>>

Next ==
  \/ \E l \in Logins : Begin(l)
  \/ \E p \in Logins, o \in Outcomes : Come(p, o)
  \/ \E r \in Outcomes \cup {"timeout"} : End(r)
  \/ Quit

Spec == Init /\ [][Next]_vars
=============================================================================
