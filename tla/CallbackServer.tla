--------------------------- MODULE CallbackServer ---------------------------
(***************************************************************************)
(* auth.CallbackServer (server.go) as loginViaBrowser (manager.go) of      *)
(* chat-cli and main of auth-cli use it: a login listens on a local port   *)
(* for the redirect of the browser.  Both programs use the same port, the  *)
(* browser may hold pages of several logins, and a page may be loaded      *)
(* again; each request is handled by a goroutine of its own, which sends   *)
(* its result over a channel before it answers.                            *)
(*                                                                         *)
(* A login is a number, which is also its random state.  chat-cli logs in  *)
(* under the mutex of the token manager, without a deadline, and lives on; *)
(* auth-cli logs in once, within two minutes, and exits.                   *)
(***************************************************************************)
EXTENDS Integers, Sequences, FiniteSets

CONSTANTS
  Programs,    \* the processes that log in
  AuthCli,     \* the one with a deadline and a single login
  MaxLogins,   \* bound: logins begun
  Kinds,       \* what redirects bring: "code", "denied", "nocode"
  MaxRequests  \* bound: requests that reach a login

Nobody == "nobody"

ASSUME CallbackServerAssumption ==
  /\ AuthCli \in Programs /\ Nobody \notin Programs
  /\ Kinds \subseteq {"code", "denied", "nocode"}
  /\ MaxLogins \in Nat /\ MaxRequests \in Nat

Logins == 1..MaxLogins
NoLogin == 0
NoRequest == 0

VARIABLES
  phase,     \* "new", "wait" in WaitForCode, "shutdown", "returned"; "gone" with its process
  owner,     \* the program that logs in
  port,      \* the login that listens
  requests,  \* those handled: login, page they come from, outcome, where the handler is
  resultCh,  \* the requests whose result is in the login's channel
  result,    \* what WaitForCode (or Start) returns
  decider,   \* history: the request the result came from
  cut        \* history: logins that stopped waiting for their handlers

vars == <<phase, owner, port, requests, resultCh, result, decider, cut>>

RequestsOf(l) == {i \in DOMAIN requests : requests[i].login = l}
Unfinished(l) == {i \in RequestsOf(l) : requests[i].at \in {"send", "answer"}}
-----------------------------------------------------------------------------
\* A program begins its next login when the one before has returned; auth-cli
\* needs a process of its own for each.
MayBegin(l, p) ==
  /\ phase[l] = "new" /\ \A k \in Logins : k < l => phase[k] # "new"
  /\ \A k \in Logins : owner[k] = p =>
       phase[k] \in IF p = AuthCli THEN {"gone"} ELSE {"returned", "gone"}

\* NewCallbackServer and Start: the port may be taken.
Start(l, p) ==
  /\ MayBegin(l, p)
  /\ owner' = [owner EXCEPT ![l] = p]
  /\ \/ /\ port = NoLogin
        /\ port' = l
        /\ phase' = [phase EXCEPT ![l] = "wait"]
        /\ UNCHANGED result
     \/ /\ port # NoLogin
        /\ phase' = [phase EXCEPT ![l] = "returned"]
        /\ result' = [result EXCEPT ![l] = "busy"]
        /\ UNCHANGED port
  /\ UNCHANGED <<requests, resultCh, decider, cut>>

\* Mutant: the state is not compared.
OutcomeUnchecked(l, state, kind) == kind

\* What handleCallback of login l makes of a request: an error of Twitch first,
\* then the state, then the code.
Outcome(l, state, kind) ==
  IF kind # "denied" /\ state # l THEN "state" ELSE kind

\* A request reaches the login that listens, with the state of any login: from
\* its page, a page left from an earlier login, or a reload.  Twitch adds a code
\* when the user approved the login of the page.
Redirect(state, kind) ==
  /\ port # NoLogin /\ Len(requests) < MaxRequests
  /\ requests' = Append(requests, 
      [login |-> port, page |-> state, outcome |-> Outcome(port, state, kind), at |-> "send"])
  /\ UNCHANGED <<phase, owner, port, resultCh, result, decider, cut>>

\* Mutant: an unbuffered channel, which only a waiting login empties.
RoomUnbuffered(l) == resultCh[l] = <<>> /\ phase[l] = "wait"

\* Mutant: a channel made for one result more.
RoomForTwo(l) == Len(resultCh[l]) < 2

\* The channel holds one result, and nobody reads it a second time.
Room(l) == resultCh[l] = <<>>

\* The handler sends its result, once there is room.
SendResult(i) ==
  /\ requests[i].at = "send" /\ Room(requests[i].login)
  /\ resultCh' = [resultCh EXCEPT ![requests[i].login] = Append(@, i)]
  /\ requests' = [requests EXCEPT ![i].at = "answer"]
  /\ UNCHANGED <<phase, owner, port, result, decider, cut>>

\* ... and answers with a page.
Answer(i) ==
  /\ requests[i].at = "answer"
  /\ requests' = [requests EXCEPT ![i].at = "done"]
  /\ UNCHANGED <<phase, owner, port, resultCh, result, decider, cut>>
-----------------------------------------------------------------------------
\* WaitForCode has its result; the deferred Shutdown closes the port at once.
BeginShutdown(l, r) ==
  /\ phase[l] = "wait"
  /\ result' = [result EXCEPT ![l] = r]
  /\ phase' = [phase EXCEPT ![l] = "shutdown"]
  /\ port' = NoLogin
  /\ UNCHANGED <<owner, requests, cut>>

ReceiveResult(l) ==
  /\ resultCh[l] # <<>>
  /\ BeginShutdown(l, requests[Head(resultCh[l])].outcome)
  /\ decider' = [decider EXCEPT ![l] = Head(resultCh[l])]
  /\ resultCh' = [resultCh EXCEPT ![l] = Tail(@)]

HasDeadline(l) == owner[l] = AuthCli

\* The deadline may win although a result is in the channel.
TimeOut(l) ==
  /\ HasDeadline(l)
  /\ BeginShutdown(l, "timeout")
  /\ UNCHANGED <<decider, resultCh>>

\* Mutant: the listener and its connections are closed, handlers or not.
HandlersDoneUnawaited(l) == TRUE

HandlersDone(l) == Unfinished(l) = {}

\* Mutant: Shutdown with a context that never ends.
ShutdownTimeOutNever(l) == FALSE

\* ShutdownTimeout (2 s) passes while a handler is not done.
ShutdownTimeOut(l) == Unfinished(l) # {}

Shutdown(l) ==
  /\ phase[l] = "shutdown"
  /\ \/ HandlersDone(l) /\ UNCHANGED cut
     \/ ShutdownTimeOut(l) /\ cut' = cut \cup {l}
  /\ phase' = [phase EXCEPT ![l] = "returned"]
  /\ UNCHANGED <<owner, port, requests, resultCh, result, decider>>

\* The process ends, by itself or not, and its handlers with it.
Quit(p) ==
  LET mine == {l \in Logins : owner[l] = p}
  IN /\ \E l \in mine : phase[l] # "gone"
     /\ phase' = [l \in Logins |-> IF l \in mine THEN "gone" ELSE phase[l]]
     /\ port' = IF port \in mine THEN NoLogin ELSE port
     /\ requests' = [i \in DOMAIN requests |->
                      IF i \in UNION {Unfinished(l) : l \in mine}
                      THEN [requests[i] EXCEPT !.at = "killed"] ELSE requests[i]]
     /\ UNCHANGED <<owner, resultCh, result, decider, cut>>

Init ==
  /\ phase = [l \in Logins |-> "new"]
  /\ owner = [l \in Logins |-> Nobody]
  /\ port = NoLogin
  /\ requests = <<>>
  /\ resultCh = [l \in Logins |-> <<>>]
  /\ result = [l \in Logins |-> "none"]
  /\ decider = [l \in Logins |-> NoRequest]
  /\ cut = {}

Handlers == \E i \in DOMAIN requests : SendResult(i) \/ Answer(i)

Next ==
  \/ \E l \in Logins, p \in Programs : Start(l, p)
  \/ \E s \in {l \in Logins : phase[l] # "new"}, k \in Kinds : Redirect(s, k)
  \/ Handlers
  \/ \E l \in Logins : ReceiveResult(l) \/ TimeOut(l) \/ Shutdown(l)
  \/ \E p \in Programs : Quit(p)

Spec == Init /\ [][Next]_vars

\* Goroutines that can run do, and the clock advances.  Neither the user nor the
\* browser has to do anything.
FairSpec ==
  /\ Spec
  /\ \A i \in 1..MaxRequests : WF_vars(i \in DOMAIN requests /\ (SendResult(i) \/ Answer(i)))
  /\ \A l \in Logins : WF_vars(ReceiveResult(l) \/ TimeOut(l)) /\ WF_vars(Shutdown(l))
-----------------------------------------------------------------------------
TypeOK ==
  /\ phase \in [Logins -> {"new", "wait", "shutdown", "returned", "gone"}]
  /\ owner \in [Logins -> Programs \cup {Nobody}]
  /\ port \in Logins \cup {NoLogin}
  /\ \A l \in Logins : phase[l] = "wait" <=> port = l
  /\ requests \in Seq([login : Logins, page : Logins, outcome : {"code", "denied", "state", "nocode"},
                       at : {"send", "answer", "done", "killed"}])
  /\ resultCh \in [Logins -> Seq(1..MaxRequests)]
  /\ \A l \in Logins : Len(resultCh[l]) <= 1 /\ \A i \in DOMAIN resultCh[l] : resultCh[l][i] \in RequestsOf(l)
  /\ result \in [Logins -> {"none", "busy", "timeout", "code", "denied", "state", "nocode"}]
  /\ decider \in [Logins -> 0..MaxRequests]
  /\ cut \subseteq Logins

\* Whatever pages of other logins and reloads reach the port, a login ends with
\* an outcome a redirect brought to it, with a code only if that came from the
\* page of this login, and otherwise only by its own deadline; and two never listen.
Redirects(l) == {[page |-> requests[i].page, outcome |-> requests[i].outcome] : i \in RequestsOf(l)}
Abstract == INSTANCE Login WITH
  open <- port, limited <- {l \in Logins : owner[l] = AuthCli},
  came <- [l \in Logins |-> Redirects(l)]
LoginsAsPromised == Abstract!Spec

\* When WaitForCode returns, the browser has the page that belongs to the result,
\* so that the process may exit; unless handlers were not done within 2 s.
PageBeforeReturn ==
  \A l \in Logins :
    phase[l] = "returned" /\ decider[l] # NoRequest /\ l \notin cut
      => requests[decider[l]].at = "done"

\* The results that find a place: in the channel, and with WaitForCode before it
\* unless that went by the deadline.
Taken(l) == IF result[l] = "timeout" THEN 1 ELSE 2

\* A request gets its page, also one that comes with the deadline, as long as
\* there are not more of them than the login and its channel take.
RequestAnswered ==
  \A i \in 1..MaxRequests :
    (i \in DOMAIN requests) ~>
      /\ i \in DOMAIN requests
      /\ \/ requests[i].at \in {"done", "killed"}
         \/ Cardinality(RequestsOf(requests[i].login)) > Taken(requests[i].login)

\* A login that has a deadline, or to which a redirect came, returns, and the
\* port is free again, although a handler may be stuck for good.
LoginReturns ==
  \A l \in Logins :
    (phase[l] = "wait" /\ (owner[l] = AuthCli \/ RequestsOf(l) # {}))
      ~> phase[l] \in {"returned", "gone"}
=============================================================================
