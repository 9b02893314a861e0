------------------------ MODULE CallbackServerProofs ------------------------
(***************************************************************************)
(* Proofs about CallbackServer for any number of programs, logins and      *)
(* requests: it implements Login, and the browser has its page before      *)
(* WaitForCode returns.                                                    *)
(***************************************************************************)
EXTENDS CallbackServer, SequenceTheorems, TLAPS

Request == [login : Logins, page : Logins, outcome : {"code", "denied", "state", "nocode"},
            at : {"send", "answer", "done", "killed"}]

\* A login that has not begun has no owner and nothing of its own yet; one that
\* has begun belongs to a program.
Unbegun ==
  /\ Len(requests) <= MaxRequests
  /\ \A l \in Logins :
       /\ phase[l] = "new" => owner[l] = Nobody /\ result[l] = "none" /\ decider[l] = NoRequest
       /\ phase[l] # "new" => owner[l] \in Programs

TypeInv == TypeOK /\ Unbegun

-----------------------------------------------------------------------------
(* What the steps do to the requests and the channels. *)

\* Login l, its page, outcome and place are those of every request there is.
LEMMA RequestFields ==
  ASSUME TypeInv
  PROVE  /\ requests \in Seq(Request) /\ Len(requests) \in Nat /\ DOMAIN requests = 1..Len(requests)
         /\ 1..Len(requests) \subseteq 1..MaxRequests
         /\ \A i \in DOMAIN requests :
              /\ requests[i] \in Request /\ i \in Nat /\ i # NoRequest
              /\ requests[i].login \in Logins /\ requests[i].page \in Logins
              /\ requests[i].outcome \in {"code", "denied", "state", "nocode"}
              /\ requests[i].at \in {"send", "answer", "done", "killed"}
<1>1. requests \in Seq(Request) /\ Len(requests) \in Nat /\ DOMAIN requests = 1..Len(requests)
  BY DEF TypeInv, TypeOK, Request
<1>2. Len(requests) <= MaxRequests /\ MaxRequests \in Nat
  BY CallbackServerAssumption DEF TypeInv, Unbegun
<1>3. \A i \in DOMAIN requests : requests[i] \in Request
  BY <1>1
<1> QED
  BY <1>1, <1>2, <1>3 DEF Request, NoRequest

\* The requests keep their logins, pages and outcomes.
SameRequests ==
  /\ requests' \in Seq(Request) /\ Len(requests') = Len(requests)
  /\ \A i \in DOMAIN requests :
       /\ requests'[i].login = requests[i].login /\ requests'[i].page = requests[i].page
       /\ requests'[i].outcome = requests[i].outcome

LEMMA SameRedirects ==
  ASSUME TypeInv, SameRequests
  PROVE  /\ DOMAIN requests' = DOMAIN requests
         /\ \A l : RequestsOf(l)' = RequestsOf(l) /\ Redirects(l)' = Redirects(l)
<1>1. DOMAIN requests' = DOMAIN requests
  BY RequestFields DEF SameRequests
<1> QED
  BY <1>1 DEF SameRequests, RequestsOf, Redirects

LEMMA ChangedPlace ==
  ASSUME TypeInv, NEW i \in DOMAIN requests, NEW a \in {"send", "answer", "done", "killed"},
         requests' = [requests EXCEPT ![i].at = a]
  PROVE  /\ SameRequests
         /\ \A j \in DOMAIN requests :
              requests'[j].at = IF j = i THEN a ELSE requests[j].at
<1>1. requests \in Seq(Request) /\ requests[i] \in Request /\ i \in 1..Len(requests)
  BY RequestFields
<1>2. [requests[i] EXCEPT !.at = a] \in Request
  BY <1>1 DEF Request
<1>3. requests' = [requests EXCEPT ![i] = [requests[i] EXCEPT !.at = a]]
  OBVIOUS
<1>4. /\ requests' \in Seq(Request) /\ Len(requests') = Len(requests)
      /\ \A j \in 1..Len(requests) :
           requests'[j] = IF j = i THEN [requests[i] EXCEPT !.at = a] ELSE requests[j]
  BY <1>1, <1>2, <1>3, ExceptSeq
<1>5. \A j \in DOMAIN requests : requests'[j] = IF j = i THEN [requests[i] EXCEPT !.at = a] ELSE requests[j]
  BY <1>4, RequestFields
<1>6. /\ [requests[i] EXCEPT !.at = a].login = requests[i].login
      /\ [requests[i] EXCEPT !.at = a].page = requests[i].page
      /\ [requests[i] EXCEPT !.at = a].outcome = requests[i].outcome
      /\ [requests[i] EXCEPT !.at = a].at = a
  BY <1>1 DEF Request
<1> QED
  BY <1>4, <1>5, <1>6 DEF SameRequests

LEMMA QuitPlaces ==
  ASSUME TypeInv, NEW p \in Programs, Quit(p)
  PROVE  /\ SameRequests
         /\ \A j \in DOMAIN requests :
              \/ requests'[j].at = requests[j].at
              \/ requests'[j].at = "killed" /\ owner[requests[j].login] = p
                 /\ requests[j].at \in {"send", "answer"}
<1> DEFINE mine == {l \in Logins : owner[l] = p}
           ended == UNION {Unfinished(l) : l \in mine}
           Place(i) == IF i \in ended THEN [requests[i] EXCEPT !.at = "killed"] ELSE requests[i]
<1>1. requests' = [i \in DOMAIN requests |-> Place(i)]
  BY DEF Quit
<1>2. \A i \in DOMAIN requests : requests[i] \in Request
  BY RequestFields
<1>3. \A i \in DOMAIN requests :
        /\ Place(i) \in Request /\ Place(i).login = requests[i].login
        /\ Place(i).page = requests[i].page /\ Place(i).outcome = requests[i].outcome
        /\ Place(i).at = IF i \in ended THEN "killed" ELSE requests[i].at
  BY <1>2 DEF Request
<1>4. \A i \in ended : owner[requests[i].login] = p /\ requests[i].at \in {"send", "answer"}
  BY DEF Unfinished, RequestsOf
<1> HIDE DEF ended, Place
<1>5. requests' \in [1..Len(requests) -> Request] /\ Len(requests) \in Nat
  BY <1>1, <1>3, RequestFields
<1>6. requests' \in Seq(Request) /\ Len(requests') = Len(requests)
  BY <1>5, SeqDef
<1> QED
  BY <1>1, <1>3, <1>4, <1>6 DEF SameRequests

-----------------------------------------------------------------------------
(* Type correctness. *)

\* TypeOK and Unbegun in parts, so that a step names those it disturbs.
PhaseTypes ==
  /\ phase \in [Logins -> {"new", "wait", "shutdown", "returned", "gone"}]
  /\ owner \in [Logins -> Programs \cup {Nobody}]
  /\ port \in Logins \cup {NoLogin}
  /\ \A l \in Logins : phase[l] = "wait" <=> port = l

ResultTypes ==
  /\ result \in [Logins -> {"none", "busy", "timeout", "code", "denied", "state", "nocode"}]
  /\ decider \in [Logins -> 0..MaxRequests]
  /\ cut \subseteq Logins

ChannelTypes ==
  /\ resultCh \in [Logins -> Seq(1..MaxRequests)]
  /\ \A l \in Logins : Len(resultCh[l]) <= 1 /\ \A i \in DOMAIN resultCh[l] : resultCh[l][i] \in RequestsOf(l)

RequestTypes == requests \in Seq(Request) /\ Len(requests) <= MaxRequests

BegunTypes ==
  \A l \in Logins :
    /\ phase[l] = "new" => owner[l] = Nobody /\ result[l] = "none" /\ decider[l] = NoRequest
    /\ phase[l] # "new" => owner[l] \in Programs

LEMMA TypeParts ==
  TypeInv <=> PhaseTypes /\ ResultTypes /\ ChannelTypes /\ RequestTypes /\ BegunTypes
BY DEF TypeInv, TypeOK, Unbegun, PhaseTypes, ResultTypes, ChannelTypes, RequestTypes, BegunTypes, Request

LEMMA InitTypes == Init => TypeInv
<1> SUFFICES ASSUME Init PROVE TypeInv
  OBVIOUS
<1>1. NoLogin \notin Logins /\ MaxRequests \in Nat /\ 0 \in 0..MaxRequests
  BY CallbackServerAssumption DEF NoLogin, Logins
<1>2. PhaseTypes /\ ResultTypes /\ BegunTypes
  BY <1>1 DEF Init, PhaseTypes, ResultTypes, BegunTypes, NoRequest
<1>3. <<>> \in Seq(Request) /\ Len(<<>>) = 0 /\ <<>> \in Seq(1..MaxRequests)
      /\ DOMAIN <<>> = {}
  BY EmptySeq
<1>4. ChannelTypes /\ RequestTypes
  BY <1>1, <1>3 DEF Init, ChannelTypes, RequestTypes
<1> QED
  BY <1>2, <1>4, TypeParts

LEMMA StartTypes ==
  ASSUME TypeInv, NEW l \in Logins, NEW p \in Programs, Start(l, p)
  PROVE  TypeInv'
<1>1. PhaseTypes /\ ResultTypes /\ ChannelTypes /\ RequestTypes /\ BegunTypes
  BY TypeParts
<1>2. NoLogin \notin Logins /\ phase[l] = "new" /\ p # Nobody
  BY CallbackServerAssumption DEF NoLogin, Logins, Start, MayBegin
<1>3. PhaseTypes'
  BY <1>1, <1>2 DEF PhaseTypes, Start
<1>4. ResultTypes' /\ BegunTypes'
  BY <1>1, <1>2 DEF ResultTypes, BegunTypes, PhaseTypes, Start
<1>5. ChannelTypes' /\ RequestTypes'
  BY <1>1 DEF ChannelTypes, RequestTypes, RequestsOf, Start
<1> QED
  BY <1>3, <1>4, <1>5, TypeParts, PTL

\* A redirect adds a request of the login that listens, which the handler has yet to report.
LEMMA RedirectAdds ==
  ASSUME TypeInv, NEW s \in Logins, NEW k \in Kinds, Redirect(s, k)
  PROVE  LET n == Len(requests) + 1
         IN  /\ RequestTypes' /\ DOMAIN requests' = DOMAIN requests \cup {n}
             /\ n \notin DOMAIN requests
             /\ \A i \in DOMAIN requests : requests'[i] = requests[i]
             /\ requests'[n].login = port /\ requests'[n].page = s
             /\ requests'[n].outcome = Outcome(port, s, k) /\ requests'[n].at = "send"
             /\ Outcome(port, s, k) \in {"code", "denied", "state", "nocode"} /\ port \in Logins
<1> DEFINE r == [login |-> port, page |-> s, outcome |-> Outcome(port, s, k), at |-> "send"]
<1>1. requests \in Seq(Request) /\ Len(requests) \in Nat /\ DOMAIN requests = 1..Len(requests)
  BY RequestFields
<1>2. /\ port \in Logins /\ Len(requests) < MaxRequests /\ MaxRequests \in Nat
      /\ requests' = Append(requests, r)
  BY CallbackServerAssumption DEF TypeInv, TypeOK, Redirect
<1>3. Outcome(port, s, k) \in {"code", "denied", "state", "nocode"}
  BY CallbackServerAssumption DEF Outcome
<1>4. r \in Request
  BY <1>2, <1>3 DEF Request
<1>5. r.login = port /\ r.page = s /\ r.outcome = Outcome(port, s, k) /\ r.at = "send"
  OBVIOUS
<1> HIDE DEF r
<1>6. /\ requests' \in Seq(Request) /\ Len(requests') = Len(requests) + 1
      /\ \A i \in 1..Len(requests) : requests'[i] = requests[i]
      /\ requests'[Len(requests) + 1] = r
  BY <1>1, <1>2, <1>4, AppendProperties
<1>7. DOMAIN requests' = 1..(Len(requests) + 1)
  BY <1>6
<1>8. Len(requests) + 1 <= MaxRequests
  BY <1>1, <1>2
<1>9. RequestTypes'
  BY <1>6, <1>8 DEF RequestTypes
<1> QED
  BY <1>1, <1>2, <1>3, <1>6, <1>7, <1>9, <1>5

LEMMA RedirectTypes ==
  ASSUME TypeInv, NEW s \in Logins, NEW k \in Kinds, Redirect(s, k)
  PROVE  TypeInv'
<1>1. PhaseTypes /\ ResultTypes /\ ChannelTypes /\ RequestTypes /\ BegunTypes
  BY TypeParts
<1>2. PhaseTypes' /\ ResultTypes' /\ BegunTypes'
  BY <1>1 DEF PhaseTypes, ResultTypes, BegunTypes, Redirect
<1>3. \A l : RequestsOf(l) \subseteq RequestsOf(l)'
  BY RedirectAdds DEF RequestsOf
<1>4. ChannelTypes'
  BY <1>1, <1>3 DEF ChannelTypes, Redirect
<1> QED
  BY <1>2, <1>4, RedirectAdds, TypeParts, PTL

\* A step that only moves requests to other places keeps the types.
LEMMA PlacesTypes ==
  ASSUME TypeInv, SameRequests
  PROVE  /\ RequestTypes'
         /\ UNCHANGED resultCh => ChannelTypes'
<1>1. ChannelTypes /\ RequestTypes
  BY TypeParts
<1> QED
  BY <1>1, SameRedirects DEF SameRequests, RequestTypes, ChannelTypes

\* What a handler puts in the channel of its login.
LEMMA SendFills ==
  ASSUME TypeInv, NEW i \in DOMAIN requests, SendResult(i)
  PROVE  LET l == requests[i].login
         IN  /\ resultCh'[l] = <<i>> /\ l \in Logins /\ i \in RequestsOf(l)
             /\ \A k \in Logins : k # l => resultCh'[k] = resultCh[k]
             /\ resultCh' \in [Logins -> Seq(1..MaxRequests)]
<1> DEFINE l == requests[i].login
<1>1. l \in Logins /\ i \in RequestsOf(l) /\ i \in 1..MaxRequests
  BY RequestFields DEF RequestsOf
<1>2. resultCh \in [Logins -> Seq(1..MaxRequests)] /\ resultCh[l] = <<>>
  BY DEF TypeInv, TypeOK, SendResult, Room
<1>3. Append(resultCh[l], i) = <<i>> /\ <<i>> \in Seq(1..MaxRequests)
  BY <1>1, <1>2
<1>4. resultCh' = [resultCh EXCEPT ![l] = Append(resultCh[l], i)]
  BY DEF SendResult
<1> QED
  BY <1>1, <1>2, <1>3, <1>4

LEMMA SendResultTypes ==
  ASSUME TypeInv, NEW i \in DOMAIN requests, SendResult(i)
  PROVE  TypeInv'
<1>1. PhaseTypes /\ ResultTypes /\ ChannelTypes /\ RequestTypes /\ BegunTypes
  BY TypeParts
<1>2. PhaseTypes' /\ ResultTypes' /\ BegunTypes'
  BY <1>1 DEF PhaseTypes, ResultTypes, BegunTypes, SendResult
<1>3. SameRequests
  BY ChangedPlace DEF SendResult
<1>4. Len(<<i>>) = 1 /\ DOMAIN <<i>> = {1} /\ <<i>>[1] = i
  OBVIOUS
<1>5. \A k : RequestsOf(k)' = RequestsOf(k)
  BY <1>3, SameRedirects
<1>6. resultCh' \in [Logins -> Seq(1..MaxRequests)]
  BY SendFills
<1>7. ASSUME NEW k \in Logins
      PROVE  Len(resultCh'[k]) <= 1 /\ \A j \in DOMAIN resultCh'[k] : resultCh'[k][j] \in RequestsOf(k)
  <2>1. CASE k = requests[i].login
    <3>1. resultCh'[k] = <<i>> /\ i \in RequestsOf(k)
      BY <2>1, SendFills
    <3> QED
      BY <3>1, <1>4
  <2>2. CASE k # requests[i].login
    BY <2>2, <1>1, SendFills DEF ChannelTypes
  <2> QED
    BY <2>1, <2>2
<1>8. ChannelTypes'
  BY <1>5, <1>6, <1>7 DEF ChannelTypes
<1> QED
  BY <1>2, <1>3, <1>8, PlacesTypes, TypeParts, PTL

LEMMA AnswerTypes ==
  ASSUME TypeInv, NEW i \in DOMAIN requests, Answer(i)
  PROVE  TypeInv'
<1>1. PhaseTypes /\ ResultTypes /\ BegunTypes
  BY TypeParts
<1>2. PhaseTypes' /\ ResultTypes' /\ BegunTypes'
  BY <1>1 DEF PhaseTypes, ResultTypes, BegunTypes, Answer
<1>3. SameRequests /\ UNCHANGED resultCh
  BY ChangedPlace DEF Answer
<1> QED
  BY <1>2, <1>3, PlacesTypes, TypeParts, PTL

LEMMA OnlyElement ==
  ASSUME NEW S, NEW s \in Seq(S), s # <<>>, Len(s) <= 1
  PROVE  s = <<Head(s)>> /\ DOMAIN s = {1} /\ s[1] = Head(s) /\ Tail(s) = <<>>
<1>1. Len(s) \in Nat /\ DOMAIN s = 1..Len(s) /\ Len(s) # 0
  BY EmptySeq, LenProperties
<1>2. Len(s) = 1 /\ 1..1 = {1}
  BY <1>1
<1>3. Head(s) = s[1] /\ Head(s) \in S
  BY <1>1, <1>2, HeadTailProperties
<1>4. s = [i \in 1..1 |-> s[i]]
  BY <1>1, <1>2
<1>5. s = <<Head(s)>>
  BY <1>2, <1>3, <1>4
<1>6. Tail(s) \in Seq(S) /\ Len(Tail(s)) = 0
  BY <1>2, HeadTailProperties
<1> QED
  BY <1>1, <1>2, <1>3, <1>5, <1>6, EmptySeq

\* The result a login has in its channel is that of one of its requests, and the only one.
LEMMA Received ==
  ASSUME TypeInv, NEW l \in Logins, ReceiveResult(l)
  PROVE  LET i == Head(resultCh[l])
         IN  /\ resultCh[l] = <<i>> /\ i \in RequestsOf(l) /\ i \in DOMAIN requests
             /\ \E j \in DOMAIN resultCh[l] : resultCh[l][j] = i
             /\ requests[i].outcome \in {"code", "denied", "state", "nocode"} /\ i \in 1..MaxRequests
             /\ resultCh' = [resultCh EXCEPT ![l] = <<>>]
             /\ decider' = [decider EXCEPT ![l] = i]
<1>1. ChannelTypes
  BY TypeParts
<1>2. resultCh[l] \in Seq(1..MaxRequests) /\ Len(resultCh[l]) <= 1 /\ resultCh[l] # <<>>
  BY <1>1 DEF ChannelTypes, ReceiveResult
<1>3. /\ resultCh[l] = <<Head(resultCh[l])>> /\ Tail(resultCh[l]) = <<>>
      /\ DOMAIN resultCh[l] = {1} /\ Head(resultCh[l]) = resultCh[l][1]
  BY <1>2, OnlyElement
<1>5. resultCh[l][1] \in RequestsOf(l)
  BY <1>1, <1>3 DEF ChannelTypes
<1>6. /\ resultCh[l][1] \in DOMAIN requests
      /\ requests[resultCh[l][1]].outcome \in {"code", "denied", "state", "nocode"}
      /\ resultCh[l][1] \in 1..MaxRequests
  BY <1>5, RequestFields DEF RequestsOf
<1> QED
  BY <1>3, <1>5, <1>6 DEF ReceiveResult

LEMMA ReceiveResultTypes ==
  ASSUME TypeInv, NEW l \in Logins, ReceiveResult(l)
  PROVE  TypeInv'
<1>1. PhaseTypes /\ ResultTypes /\ ChannelTypes /\ RequestTypes /\ BegunTypes
  BY TypeParts
<1> DEFINE r == requests[Head(resultCh[l])].outcome
<1>2. /\ BeginShutdown(l, r) /\ r \in {"code", "denied", "state", "nocode"}
      /\ Head(resultCh[l]) \in 1..MaxRequests
      /\ decider' = [decider EXCEPT ![l] = Head(resultCh[l])] /\ UNCHANGED cut
  BY Received DEF ReceiveResult, BeginShutdown
<1>9. Head(resultCh[l]) \in 0..MaxRequests /\ NoLogin \notin Logins
  BY <1>2, CallbackServerAssumption DEF NoLogin, Logins
<1> HIDE DEF r
<1>3. PhaseTypes'
  BY <1>1, <1>2, <1>9 DEF PhaseTypes, BeginShutdown
<1>4. ResultTypes'
  BY <1>1, <1>2, <1>9 DEF ResultTypes, BeginShutdown
<1>5. BegunTypes'
  BY <1>1, <1>2 DEF BegunTypes, BeginShutdown, PhaseTypes, ResultTypes
<1>6. RequestTypes' /\ \A k : RequestsOf(k)' = RequestsOf(k)
  BY <1>1, <1>2 DEF RequestTypes, RequestsOf, BeginShutdown
<1>7. <<>> \in Seq(1..MaxRequests) /\ Len(<<>>) = 0 /\ DOMAIN <<>> = {}
  BY EmptySeq
<1>8. ChannelTypes'
  <2>1. resultCh' = [resultCh EXCEPT ![l] = <<>>]
    BY Received
  <2> QED
    BY <2>1, <1>1, <1>6, <1>7 DEF ChannelTypes
<1> QED
  BY <1>3, <1>4, <1>5, <1>6, <1>8, TypeParts, PTL

LEMMA TimeOutTypes ==
  ASSUME TypeInv, NEW l \in Logins, TimeOut(l)
  PROVE  TypeInv'
<1>1. PhaseTypes /\ ResultTypes /\ ChannelTypes /\ RequestTypes /\ BegunTypes
  BY TypeParts
<1>2. PhaseTypes'
  BY <1>1 DEF PhaseTypes, TimeOut, BeginShutdown, NoLogin, Logins
<1>3. ResultTypes'
  BY <1>1 DEF ResultTypes, TimeOut, BeginShutdown
<1>4. BegunTypes'
  BY <1>1 DEF BegunTypes, TimeOut, BeginShutdown, PhaseTypes, ResultTypes
<1>5. ChannelTypes' /\ RequestTypes'
  BY <1>1 DEF ChannelTypes, RequestTypes, RequestsOf, TimeOut, BeginShutdown
<1> QED
  BY <1>2, <1>3, <1>4, <1>5, TypeParts, PTL

LEMMA ShutdownTypes ==
  ASSUME TypeInv, NEW l \in Logins, Shutdown(l)
  PROVE  TypeInv'
<1>1. PhaseTypes /\ ResultTypes /\ ChannelTypes /\ RequestTypes /\ BegunTypes
  BY TypeParts
<1>2. PhaseTypes' /\ BegunTypes'
  BY <1>1 DEF PhaseTypes, BegunTypes, Shutdown
<1>3. ResultTypes'
  BY <1>1 DEF ResultTypes, Shutdown
<1>4. ChannelTypes' /\ RequestTypes'
  BY <1>1 DEF ChannelTypes, RequestTypes, RequestsOf, Shutdown
<1> QED
  BY <1>2, <1>3, <1>4, TypeParts, PTL

LEMMA QuitTypes ==
  ASSUME TypeInv, NEW p \in Programs, Quit(p)
  PROVE  TypeInv'
<1>1. PhaseTypes /\ ResultTypes /\ BegunTypes
  BY TypeParts
<1>2. p # Nobody /\ NoLogin \notin Logins
  BY CallbackServerAssumption DEF NoLogin, Logins
<1>3. PhaseTypes'
  BY <1>1, <1>2 DEF PhaseTypes, Quit
<1>4. ResultTypes' /\ BegunTypes'
  BY <1>1, <1>2 DEF ResultTypes, BegunTypes, PhaseTypes, Quit
<1>5. SameRequests /\ UNCHANGED resultCh
  BY QuitPlaces DEF Quit
<1> QED
  BY <1>3, <1>4, <1>5, PlacesTypes, TypeParts, PTL

LEMMA TypeStep == TypeInv /\ [Next]_vars => TypeInv'
<1> SUFFICES ASSUME TypeInv, [Next]_vars PROVE TypeInv'
  OBVIOUS
<1>1. CASE \E l \in Logins, p \in Programs : Start(l, p)
  BY <1>1, StartTypes
<1>2. CASE \E s \in {l \in Logins : phase[l] # "new"}, k \in Kinds : Redirect(s, k)
  BY <1>2, RedirectTypes
<1>3. CASE Handlers
  BY <1>3, SendResultTypes, AnswerTypes DEF Handlers
<1>4. CASE \E l \in Logins : ReceiveResult(l) \/ TimeOut(l) \/ Shutdown(l)
  BY <1>4, ReceiveResultTypes, TimeOutTypes, ShutdownTypes
<1>5. CASE \E p \in Programs : Quit(p)
  BY <1>5, QuitTypes
<1>6. CASE UNCHANGED vars
  BY <1>6 DEF vars, TypeInv, TypeOK, Unbegun, RequestsOf
<1> QED
  BY <1>1, <1>2, <1>3, <1>4, <1>5, <1>6 DEF Next

LEMMA TypesHold == Spec => []TypeInv
BY InitTypes, TypeStep, PTL DEF Spec

\* The types of all variables: in particular two logins never listen, a channel
\* holds one result at most, and only results of requests to its own login.
THEOREM TypeCorrect == Spec => []TypeOK
<1>1. TypeInv => TypeOK
  BY DEF TypeInv
<1> QED
  BY <1>1, TypesHold, PTL

-----------------------------------------------------------------------------
(* The page before the return. *)

\* A result that is in a channel, or decided a login, was sent; a handler is
\* killed only with the process of its login.
SentInv ==
  /\ \A l \in Logins : decider[l] # NoRequest =>
       decider[l] \in RequestsOf(l) /\ requests[decider[l]].at # "send"
  /\ \A l \in Logins : \A j \in DOMAIN resultCh[l] : requests[resultCh[l][j]].at # "send"
  /\ \A i \in DOMAIN requests : requests[i].at = "killed" => phase[requests[i].login] = "gone"

PageInv == SentInv /\ PageBeforeReturn

LEMMA PageInit == Init => PageInv
BY DEF Init, PageInv, SentInv, PageBeforeReturn

\* A decided login has its request among those handled.
LEMMA DeciderIsRequest ==
  ASSUME TypeInv, SentInv, NEW l \in Logins, decider[l] # NoRequest
  PROVE  decider[l] \in DOMAIN requests /\ requests[decider[l]].login = l
BY DEF SentInv, RequestsOf

LEMMA PageStart ==
  ASSUME TypeInv, PageInv, NEW l \in Logins, NEW p \in Programs, Start(l, p)
  PROVE  PageInv'
<1>1. /\ phase[l] = "new" /\ decider[l] = NoRequest
      /\ phase \in [Logins -> {"new", "wait", "shutdown", "returned", "gone"}]
  BY DEF Start, MayBegin, TypeInv, TypeOK, Unbegun
<1>2. /\ UNCHANGED <<requests, resultCh, decider, cut>>
      /\ \A k \in Logins : k # l => phase'[k] = phase[k]
  BY <1>1 DEF Start
<1>3. SentInv'
  BY <1>1, <1>2, RequestFields DEF PageInv, SentInv, RequestsOf
<1>4. PageBeforeReturn'
  BY <1>1, <1>2 DEF PageInv, PageBeforeReturn
<1> QED
  BY <1>3, <1>4 DEF PageInv

LEMMA PageRedirect ==
  ASSUME TypeInv, PageInv, NEW s \in Logins, NEW k \in Kinds, Redirect(s, k)
  PROVE  PageInv'
<1>1. UNCHANGED <<phase, owner, port, resultCh, result, decider, cut>>
  BY DEF Redirect
<1>2. \A i \in DOMAIN requests : requests'[i] = requests[i] /\ i \in DOMAIN requests'
  BY RedirectAdds
<1>3. \A l \in Logins : decider[l] # NoRequest => decider[l] \in DOMAIN requests
  BY DeciderIsRequest DEF PageInv
<1>4. \A l \in Logins : \A j \in DOMAIN resultCh[l] : resultCh[l][j] \in DOMAIN requests
  BY DEF TypeInv, TypeOK, RequestsOf
<1>5. \A i \in DOMAIN requests' : i \in DOMAIN requests \/ requests'[i].at = "send"
  <2> DEFINE n == Len(requests) + 1
  <2>1. /\ DOMAIN requests' = DOMAIN requests \cup {n}
        /\ requests'[n].at = "send"
    BY RedirectAdds
  <2> HIDE DEF n
  <2> QED
    BY <2>1
<1>6. SentInv'
  BY <1>1, <1>2, <1>3, <1>4, <1>5 DEF PageInv, SentInv, RequestsOf
<1>7. PageBeforeReturn'
  BY <1>1, <1>2, <1>3 DEF PageInv, PageBeforeReturn
<1> QED
  BY <1>6, <1>7 DEF PageInv

\* A handler that goes on does not go back to before its result was sent.
LEMMA PageMoves ==
  ASSUME TypeInv, PageInv, SameRequests, UNCHANGED <<phase, decider, cut>>,
         \A i \in DOMAIN requests :
           \/ requests'[i].at = requests[i].at
           \/ requests[i].at = "send" /\ requests'[i].at = "answer"
           \/ requests[i].at = "answer" /\ requests'[i].at = "done",
         \A l \in Logins : \A j \in DOMAIN resultCh'[l] :
           resultCh'[l][j] \in DOMAIN requests /\ requests'[resultCh'[l][j]].at # "send"
  PROVE  PageInv'
<1>1. DOMAIN requests' = DOMAIN requests /\ \A l : RequestsOf(l)' = RequestsOf(l)
  BY SameRedirects
<1>2. \A l \in Logins : decider[l] # NoRequest => decider[l] \in DOMAIN requests
  BY DeciderIsRequest DEF PageInv
<1>3. \A l \in Logins : decider'[l] # NoRequest =>
        decider'[l] \in RequestsOf(l)' /\ requests'[decider'[l]].at # "send"
  BY <1>1, <1>2 DEF PageInv, SentInv
<1>4. \A i \in DOMAIN requests' : requests'[i].at = "killed" => phase'[requests'[i].login] = "gone"
  BY <1>1 DEF PageInv, SentInv, SameRequests
<1>5. SentInv'
  BY <1>3, <1>4 DEF SentInv
<1>6. PageBeforeReturn'
  BY <1>2 DEF PageInv, PageBeforeReturn
<1> QED
  BY <1>5, <1>6 DEF PageInv

LEMMA PageSendResult ==
  ASSUME TypeInv, PageInv, NEW i \in DOMAIN requests, SendResult(i)
  PROVE  PageInv'
<1>1. SameRequests /\ \A j \in DOMAIN requests :
        requests'[j].at = IF j = i THEN "answer" ELSE requests[j].at
  BY ChangedPlace DEF SendResult
<1>2. ASSUME NEW l \in Logins, NEW j \in DOMAIN resultCh'[l]
      PROVE  resultCh'[l][j] \in DOMAIN requests /\ requests'[resultCh'[l][j]].at # "send"
  <2>1. CASE l = requests[i].login
    <3>1. resultCh'[l] = <<i>>
      BY <2>1, SendFills
    <3>2. resultCh'[l][j] = i
      BY <3>1
    <3> QED
      BY <3>2, <1>1
  <2>2. CASE l # requests[i].login
    <3>1. resultCh'[l] = resultCh[l]
      BY <2>2, SendFills
    <3>2. resultCh[l][j] \in DOMAIN requests /\ requests[resultCh[l][j]].at # "send"
      BY <3>1 DEF PageInv, SentInv, TypeInv, TypeOK, RequestsOf
    <3> QED
      BY <3>1, <3>2, <1>1
  <2> QED
    BY <2>1, <2>2
<1>3. requests[i].at = "send" /\ UNCHANGED <<phase, decider, cut>>
  BY DEF SendResult
<1> QED
  BY <1>1, <1>2, <1>3, PageMoves

LEMMA PageAnswer ==
  ASSUME TypeInv, PageInv, NEW i \in DOMAIN requests, Answer(i)
  PROVE  PageInv'
<1>1. SameRequests /\ \A j \in DOMAIN requests :
        requests'[j].at = IF j = i THEN "done" ELSE requests[j].at
  BY ChangedPlace DEF Answer
<1>2. requests[i].at = "answer" /\ UNCHANGED <<phase, decider, cut, resultCh>>
  BY DEF Answer
<1>3. \A l \in Logins : \A j \in DOMAIN resultCh[l] :
        resultCh[l][j] \in DOMAIN requests /\ requests[resultCh[l][j]].at # "send"
  BY DEF PageInv, SentInv, TypeInv, TypeOK, RequestsOf
<1>4. \A l \in Logins : \A j \in DOMAIN resultCh'[l] :
        resultCh'[l][j] \in DOMAIN requests /\ requests'[resultCh'[l][j]].at # "send"
  BY <1>1, <1>2, <1>3
<1> QED
  BY <1>1, <1>2, <1>4, PageMoves

LEMMA PageReceiveResult ==
  ASSUME TypeInv, PageInv, NEW l \in Logins, ReceiveResult(l)
  PROVE  PageInv'
<1> DEFINE i == Head(resultCh[l])
<1>1. /\ i \in RequestsOf(l) /\ requests[i].at # "send"
      /\ resultCh' = [resultCh EXCEPT ![l] = <<>>] /\ decider' = [decider EXCEPT ![l] = i]
  BY Received DEF PageInv, SentInv
<1> HIDE DEF i
<1>2. /\ phase[l] = "wait" /\ phase' = [phase EXCEPT ![l] = "shutdown"] /\ UNCHANGED <<requests, cut>>
      /\ decider \in [Logins -> 0..MaxRequests] /\ resultCh \in [Logins -> Seq(1..MaxRequests)]
      /\ phase \in [Logins -> {"new", "wait", "shutdown", "returned", "gone"}]
  BY DEF ReceiveResult, BeginShutdown, TypeInv, TypeOK
<1>3. \A k \in Logins : decider'[k] # NoRequest =>
        decider'[k] \in RequestsOf(k)' /\ requests'[decider'[k]].at # "send"
  BY <1>1, <1>2 DEF PageInv, SentInv, RequestsOf
<1>4. DOMAIN <<>> = {}
  OBVIOUS
<1>5. \A k \in Logins : \A j \in DOMAIN resultCh'[k] : requests'[resultCh'[k][j]].at # "send"
  BY <1>1, <1>2, <1>4 DEF PageInv, SentInv
<1>6. \A j \in DOMAIN requests' : requests'[j].at = "killed" => phase'[requests'[j].login] = "gone"
  BY <1>2, RequestFields DEF PageInv, SentInv
<1>7. PageBeforeReturn'
  BY <1>1, <1>2 DEF PageInv, PageBeforeReturn
<1> QED
  BY <1>3, <1>5, <1>6, <1>7 DEF PageInv, SentInv

LEMMA PageTimeOut ==
  ASSUME TypeInv, PageInv, NEW l \in Logins, TimeOut(l)
  PROVE  PageInv'
<1>1. /\ phase[l] = "wait" /\ phase' = [phase EXCEPT ![l] = "shutdown"]
      /\ UNCHANGED <<requests, cut, decider, resultCh>>
      /\ phase \in [Logins -> {"new", "wait", "shutdown", "returned", "gone"}]
  BY DEF TimeOut, BeginShutdown, TypeInv, TypeOK
<1>2. SentInv'
  BY <1>1, RequestFields DEF PageInv, SentInv, RequestsOf
<1>3. PageBeforeReturn'
  BY <1>1 DEF PageInv, PageBeforeReturn
<1> QED
  BY <1>2, <1>3 DEF PageInv

\* The one step that matters: Shutdown returns when no handler of the login is
\* before its answer, or gives them up and says so.
LEMMA PageShutdown ==
  ASSUME TypeInv, PageInv, NEW l \in Logins, Shutdown(l)
  PROVE  PageInv'
<1>1. /\ phase[l] = "shutdown" /\ phase' = [phase EXCEPT ![l] = "returned"]
      /\ UNCHANGED <<requests, decider, resultCh>>
      /\ phase \in [Logins -> {"new", "wait", "shutdown", "returned", "gone"}]
      /\ (HandlersDone(l) /\ UNCHANGED cut) \/ cut' = cut \cup {l}
  BY DEF Shutdown, TypeInv, TypeOK
<1>2. SentInv'
  BY <1>1, RequestFields DEF PageInv, SentInv, RequestsOf
<1>3. ASSUME HandlersDone(l), decider[l] # NoRequest
      PROVE  requests[decider[l]].at = "done"
  <2>1. decider[l] \in DOMAIN requests /\ requests[decider[l]].login = l /\ decider[l] \in RequestsOf(l)
    BY <1>3, DeciderIsRequest DEF PageInv, RequestsOf
  <2>2. requests[decider[l]].at \notin {"send", "answer"}
    BY <1>3, <2>1 DEF HandlersDone, Unfinished
  <2>3. requests[decider[l]].at # "killed"
    BY <1>1, <2>1 DEF PageInv, SentInv
  <2> QED
    BY <2>1, <2>2, <2>3, RequestFields
<1>4. PageBeforeReturn'
  BY <1>1, <1>3 DEF PageInv, PageBeforeReturn
<1> QED
  BY <1>2, <1>4 DEF PageInv

LEMMA PageQuit ==
  ASSUME TypeInv, PageInv, NEW p \in Programs, Quit(p)
  PROVE  PageInv'
<1>1. /\ UNCHANGED <<resultCh, decider, cut>>
      /\ \A l \in Logins : phase'[l] = IF owner[l] = p THEN "gone" ELSE phase[l]
  BY DEF Quit
<1>2. /\ SameRequests
      /\ DOMAIN requests' = DOMAIN requests /\ \A l : RequestsOf(l)' = RequestsOf(l)
      /\ \A j \in DOMAIN requests :
           \/ requests'[j].at = requests[j].at
           \/ requests'[j].at = "killed" /\ owner[requests[j].login] = p
              /\ requests[j].at \in {"send", "answer"}
  BY QuitPlaces, SameRedirects
<1>3. \A l \in Logins : decider[l] # NoRequest => decider[l] \in DOMAIN requests
  BY DeciderIsRequest DEF PageInv
<1>4. \A l \in Logins : \A j \in DOMAIN resultCh[l] : resultCh[l][j] \in DOMAIN requests
  BY DEF TypeInv, TypeOK, RequestsOf
<1>5. \A l \in Logins : decider'[l] # NoRequest =>
        decider'[l] \in RequestsOf(l)' /\ requests'[decider'[l]].at # "send"
  BY <1>1, <1>2, <1>3 DEF PageInv, SentInv
<1>6. \A l \in Logins : \A j \in DOMAIN resultCh'[l] : requests'[resultCh'[l][j]].at # "send"
  BY <1>1, <1>2, <1>4 DEF PageInv, SentInv
<1>7. \A i \in DOMAIN requests' : requests'[i].at = "killed" => phase'[requests'[i].login] = "gone"
  BY <1>1, <1>2, RequestFields DEF PageInv, SentInv, SameRequests
<1>8. PageBeforeReturn'
  BY <1>1, <1>2, <1>3 DEF PageInv, PageBeforeReturn
<1> QED
  BY <1>5, <1>6, <1>7, <1>8 DEF PageInv, SentInv

LEMMA PageStep == TypeInv /\ PageInv /\ [Next]_vars => PageInv'
<1> SUFFICES ASSUME TypeInv, PageInv, [Next]_vars PROVE PageInv'
  OBVIOUS
<1>1. CASE \E l \in Logins, p \in Programs : Start(l, p)
  BY <1>1, PageStart
<1>2. CASE \E s \in {l \in Logins : phase[l] # "new"}, k \in Kinds : Redirect(s, k)
  BY <1>2, PageRedirect
<1>3. CASE Handlers
  BY <1>3, PageSendResult, PageAnswer DEF Handlers
<1>4. CASE \E l \in Logins : ReceiveResult(l) \/ TimeOut(l) \/ Shutdown(l)
  BY <1>4, PageReceiveResult, PageTimeOut, PageShutdown
<1>5. CASE \E p \in Programs : Quit(p)
  BY <1>5, PageQuit
<1>6. CASE UNCHANGED vars
  BY <1>6 DEF vars, PageInv, SentInv, PageBeforeReturn, RequestsOf
<1> QED
  BY <1>1, <1>2, <1>3, <1>4, <1>5, <1>6 DEF Next

\* PageBeforeReturn: whenever WaitForCode has returned with a result that came
\* by a request, the handler of that request has answered the browser, unless
\* ShutdownTimeout passed; whatever other handlers and logins do.
THEOREM PageBeforeReturnCorrect == Spec => []PageBeforeReturn
<1>1. PageInv => PageBeforeReturn
  BY DEF PageInv
<1> QED
  BY <1>1, PageInit, PageStep, TypesHold, PTL DEF Spec

-----------------------------------------------------------------------------
(* The server implements Login. *)

Limited == {l \in Logins : owner[l] = AuthCli}
Came == [l \in Logins |-> Redirects(l)]

\* The abstract variables, each from the variables of the server.
LEMMA LoginInit == Init => Abstract!Init
<1> SUFFICES ASSUME Init PROVE Abstract!Init
  OBVIOUS
<1>1. Limited = {}
  BY CallbackServerAssumption DEF Init, Limited
<1>2. \A l \in Logins : Redirects(l) = {}
  BY DEF Init, Redirects, RequestsOf
<1> QED
  BY <1>1, <1>2 DEF Init, Abstract!Init, Limited, Abstract!NoLogin, NoLogin

\* A step that leaves open, result, owners and redirects alone is none of Login's.
LEMMA LoginStutter ==
  ASSUME UNCHANGED <<port, owner, result>>, \A l : Redirects(l)' = Redirects(l)
  PROVE  UNCHANGED Abstract!vars
BY DEF Abstract!vars

LEMMA LoginStart ==
  ASSUME TypeInv, NEW l \in Logins, NEW p \in Programs, Start(l, p)
  PROVE  Abstract!Begin(l)
<1>1. phase[l] = "new" /\ result[l] = "none" /\ l # port /\ owner[l] = Nobody
  BY DEF Start, MayBegin, TypeInv, TypeOK, Unbegun
<1>2. \/ port = NoLogin /\ port' = l /\ UNCHANGED result
      \/ port # NoLogin /\ result' = [result EXCEPT ![l] = "busy"] /\ UNCHANGED port
  BY DEF Start
<1>3. owner \in [Logins -> Programs \cup {Nobody}] /\ AuthCli # Nobody /\ owner' = [owner EXCEPT ![l] = p]
  BY CallbackServerAssumption DEF TypeInv, TypeOK, Start
<1>4. Limited' \in {Limited, Limited \cup {l}}
  <2>1. CASE p = AuthCli
    BY <2>1, <1>3 DEF Limited
  <2>2. CASE p # AuthCli
    BY <2>2, <1>1, <1>3 DEF Limited
  <2> QED
    BY <2>1, <2>2
<1>5. UNCHANGED Came
  BY DEF Start, Came, Redirects, RequestsOf
<1> QED
  BY <1>1, <1>2, <1>4, <1>5 DEF Abstract!Begin, Abstract!NoLogin, NoLogin, Limited, Came

LEMMA LoginRedirect ==
  ASSUME TypeInv, NEW s \in Logins, NEW k \in Kinds, Redirect(s, k)
  PROVE  Abstract!Come(s, Outcome(port, s, k)) /\ Outcome(port, s, k) \in Abstract!Outcomes
<1> DEFINE n == Len(requests) + 1
           o == Outcome(port, s, k)
           c == [page |-> s, outcome |-> o]
<1>1. /\ port \in Logins /\ n \notin DOMAIN requests /\ DOMAIN requests' = DOMAIN requests \cup {n}
      /\ \A i \in DOMAIN requests : requests'[i] = requests[i]
      /\ requests'[n].login = port /\ requests'[n].page = s /\ requests'[n].outcome = o
      /\ o \in {"code", "denied", "state", "nocode"}
  BY RedirectAdds
<1>2. o = "code" => s = port
  BY DEF Outcome
<1> HIDE DEF n, o
<1>3. \A l \in Logins : RequestsOf(l)' = IF l = port THEN RequestsOf(l) \cup {n} ELSE RequestsOf(l)
  BY <1>1 DEF RequestsOf
<1>4. \A l \in Logins : \A i \in RequestsOf(l) : requests'[i] = requests[i]
  BY <1>1 DEF RequestsOf
<1>5. \A l \in Logins : Redirects(l)' = IF l = port THEN Redirects(l) \cup {c} ELSE Redirects(l)
  BY <1>1, <1>3, <1>4 DEF Redirects
<1>6. Came' = [Came EXCEPT ![port] = Came[port] \cup {c}]
  BY <1>1, <1>5 DEF Came
<1>7. UNCHANGED <<port, owner, result>>
  BY DEF Redirect
<1> QED
  BY <1>1, <1>2, <1>6, <1>7 DEF Abstract!Come, Abstract!NoLogin, NoLogin, Abstract!Outcomes, Logins, o, Came

LEMMA LoginReceiveResult ==
  ASSUME TypeInv, NEW l \in Logins, ReceiveResult(l)
  PROVE  \E r \in Abstract!Outcomes : Abstract!End(r)
<1> DEFINE i == Head(resultCh[l])
           r == requests[i].outcome
<1>1. /\ i \in RequestsOf(l) /\ r \in {"code", "denied", "state", "nocode"}
      /\ BeginShutdown(l, r) /\ port = l
  BY Received DEF ReceiveResult, BeginShutdown, TypeInv, TypeOK
<1>2. [page |-> requests[i].page, outcome |-> r] \in Redirects(l)
  BY <1>1 DEF Redirects
<1>3. \E c \in Redirects(l) : c.outcome = r
  BY <1>2
<1> HIDE DEF r, i
<1>4. UNCHANGED <<owner, requests>> /\ result' = [result EXCEPT ![port] = r] /\ port' = NoLogin
  BY <1>1 DEF BeginShutdown
<1>5. UNCHANGED <<Limited, Came>>
  BY <1>4 DEF Limited, Came, Redirects, RequestsOf
<1>6. port # NoLogin /\ Came[port] = Redirects(l)
  BY <1>1 DEF NoLogin, Logins, Came
<1>7. Abstract!End(r)
  BY <1>3, <1>4, <1>5, <1>6 DEF Abstract!End, Abstract!NoLogin, NoLogin, Came, Limited
<1> QED
  BY <1>1, <1>7 DEF Abstract!Outcomes

LEMMA LoginTimeOut ==
  ASSUME TypeInv, NEW l \in Logins, TimeOut(l)
  PROVE  Abstract!End("timeout")
<1>1. port = l /\ l \in Limited
  BY DEF TimeOut, BeginShutdown, TypeInv, TypeOK, HasDeadline, Limited
<1>2. l # NoLogin
  BY DEF NoLogin, Logins
<1>3. /\ port = l /\ l \in Limited /\ port # NoLogin
      /\ UNCHANGED <<owner, requests>> /\ result' = [result EXCEPT ![port] = "timeout"] /\ port' = NoLogin
  BY <1>1, <1>2 DEF TimeOut, BeginShutdown
<1>4. UNCHANGED <<Limited, Came>>
  BY <1>3 DEF Limited, Came, Redirects, RequestsOf
<1> QED
  BY <1>3, <1>4 DEF Abstract!End, Abstract!NoLogin, NoLogin, Came, Limited

\* The end of a process closes its login, if that listens.
LEMMA LoginQuit ==
  ASSUME TypeInv, NEW p \in Programs, Quit(p)
  PROVE  Abstract!Quit \/ UNCHANGED Abstract!vars
<1>1. UNCHANGED <<owner, result>> /\ \A l : Redirects(l)' = Redirects(l)
  BY QuitPlaces, SameRedirects DEF Quit
<1>2. (port # NoLogin /\ port' = NoLogin) \/ UNCHANGED port
  BY DEF Quit, NoLogin, Logins
<1> QED
  BY <1>1, <1>2, LoginStutter DEF Abstract!Quit, Abstract!NoLogin, NoLogin

LEMMA LoginStep == TypeInv /\ [Next]_vars => [Abstract!Next]_(Abstract!vars)
<1> SUFFICES ASSUME TypeInv, [Next]_vars PROVE Abstract!Next \/ UNCHANGED Abstract!vars
  OBVIOUS
<1>1. CASE \E l \in Logins, p \in Programs : Start(l, p)
  BY <1>1, LoginStart DEF Abstract!Next
<1>2. CASE \E s \in {l \in Logins : phase[l] # "new"}, k \in Kinds : Redirect(s, k)
  BY <1>2, LoginRedirect DEF Abstract!Next
<1>3. ASSUME NEW i \in DOMAIN requests, SendResult(i) \/ Answer(i)
      PROVE  UNCHANGED Abstract!vars
  <2>1. SameRequests /\ UNCHANGED <<port, owner, result>>
    BY <1>3, ChangedPlace DEF SendResult, Answer
  <2> QED
    BY <2>1, SameRedirects, LoginStutter
<1>4. CASE \E l \in Logins : ReceiveResult(l)
  BY <1>4, LoginReceiveResult DEF Abstract!Next
<1>5. CASE \E l \in Logins : TimeOut(l)
  BY <1>5, LoginTimeOut DEF Abstract!Next
<1>6. CASE \E l \in Logins : Shutdown(l)
  <2>1. UNCHANGED <<port, owner, result, requests>>
    BY <1>6 DEF Shutdown
  <2> QED
    BY <2>1, LoginStutter DEF Redirects, RequestsOf
<1>7. CASE \E p \in Programs : Quit(p)
  BY <1>7, LoginQuit DEF Abstract!Next
<1>8. CASE UNCHANGED vars
  BY <1>8, LoginStutter DEF vars, Redirects, RequestsOf
<1> QED
  BY <1>1, <1>2, <1>3, <1>4, <1>5, <1>6, <1>7, <1>8 DEF Next, Handlers

\* LoginsAsPromised: whatever pages of other logins, reloads, handlers and ends
\* of processes come in between, the callback servers of all programs together
\* behave like Login.
THEOREM ImplementsLogin == Spec => LoginsAsPromised
BY LoginInit, LoginStep, TypesHold, PTL DEF Spec, LoginsAsPromised, Abstract!Spec

-----------------------------------------------------------------------------
(* What the state parameter is for. *)

\* Only a request from the page of its login brings a code, and a login that
\* ended with a code has had one.
CodeInv ==
  /\ \A i \in DOMAIN requests : requests[i].outcome = "code" => requests[i].page = requests[i].login
  /\ \A l \in Logins : result[l] = "code" => \E i \in RequestsOf(l) : requests[i].outcome = "code"

OwnCode ==
  \A l \in Logins : result[l] = "code" =>
    \E i \in RequestsOf(l) : requests[i].page = l /\ requests[i].outcome = "code"

LEMMA CodeStep == TypeInv /\ CodeInv /\ [Next]_vars => CodeInv'
<1> SUFFICES ASSUME TypeInv, CodeInv, [Next]_vars PROVE CodeInv'
  OBVIOUS
<1> DEFINE Coded(l) == \E i \in RequestsOf(l) : requests[i].outcome = "code"
<1>0. result \in [Logins -> {"none", "busy", "timeout", "code", "denied", "state", "nocode"}]
  BY DEF TypeInv, TypeOK
<1>1. ASSUME SameRequests, UNCHANGED result
      PROVE  CodeInv'
  <2>1. DOMAIN requests' = DOMAIN requests /\ \A l : RequestsOf(l)' = RequestsOf(l)
    BY <1>1, SameRedirects
  <2> QED
    BY <1>1, <2>1 DEF CodeInv, SameRequests, RequestsOf
<1>2. ASSUME NEW l \in Logins, NEW r, UNCHANGED requests,
             result' = [result EXCEPT ![l] = r], r = "code" => Coded(l)
      PROVE  CodeInv'
  BY <1>0, <1>2 DEF CodeInv, RequestsOf
<1>3. ASSUME NEW l \in Logins, NEW p \in Programs, Start(l, p)
      PROVE  CodeInv'
  <2>1. UNCHANGED requests /\ (UNCHANGED result \/ result' = [result EXCEPT ![l] = "busy"])
    BY <1>3 DEF Start
  <2> QED
    BY <2>1, <1>2 DEF CodeInv, RequestsOf
<1>4. ASSUME NEW s \in Logins, NEW k \in Kinds, Redirect(s, k)
      PROVE  CodeInv'
  <2> DEFINE n == Len(requests) + 1
             o == Outcome(port, s, k)
  <2>1. /\ n \notin DOMAIN requests /\ DOMAIN requests' = DOMAIN requests \cup {n}
        /\ \A i \in DOMAIN requests : requests'[i] = requests[i]
        /\ requests'[n].login = port /\ requests'[n].page = s /\ requests'[n].outcome = o
    BY <1>4, RedirectAdds
  <2>2. (o = "code" => s = port) /\ UNCHANGED result
    BY <1>4 DEF Outcome, Redirect
  <2> HIDE DEF n, o
  <2> QED
    BY <2>1, <2>2 DEF CodeInv, RequestsOf
<1>5. ASSUME NEW i \in DOMAIN requests, SendResult(i) \/ Answer(i)
      PROVE  CodeInv'
  BY <1>1, <1>5, ChangedPlace DEF SendResult, Answer
<1>6. ASSUME NEW l \in Logins, ReceiveResult(l)
      PROVE  CodeInv'
  <2> DEFINE i == Head(resultCh[l])
  <2>1. i \in RequestsOf(l) /\ BeginShutdown(l, requests[i].outcome)
    BY <1>6, Received DEF ReceiveResult
  <2> HIDE DEF i
  <2> QED
    BY <2>1, <1>2 DEF BeginShutdown
<1>7. ASSUME NEW l \in Logins, TimeOut(l)
      PROVE  CodeInv'
  BY <1>2, <1>7 DEF TimeOut, BeginShutdown
<1>8. ASSUME NEW l \in Logins, Shutdown(l)
      PROVE  CodeInv'
  BY <1>8 DEF Shutdown, CodeInv, RequestsOf
<1>9. ASSUME NEW p \in Programs, Quit(p)
      PROVE  CodeInv'
  BY <1>1, <1>9, QuitPlaces DEF Quit
<1>10. CASE UNCHANGED vars
  BY <1>10 DEF vars, CodeInv, RequestsOf
<1> QED
  BY <1>3, <1>4, <1>5, <1>6, <1>7, <1>8, <1>9, <1>10 DEF Next, Handlers

\* A login ends with a code only if a redirect from its own page brought one:
\* handleCallback compares the state before it takes the code.
THEOREM CodeFromOwnPage == Spec => []OwnCode
<1>1. Init => CodeInv
  BY DEF Init, CodeInv
<1>2. CodeInv => OwnCode
  BY DEF CodeInv, OwnCode, RequestsOf
<1> QED
  BY <1>1, <1>2, CodeStep, TypesHold, PTL DEF Spec

=============================================================================
