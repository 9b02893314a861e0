------------------------- MODULE ClipDecisionProofs -------------------------
(***************************************************************************)
(* Proofs about ClipDecision for every set of names and broadcasters,      *)
(* every cooldown, AckWait and clock, and any number of windows.           *)
(***************************************************************************)
EXTENDS ClipDecision, TLAPS

\* The steps that touch neither the bus nor a decision.
Quiet == Tick \/ WallStep \/ GetToken \/ AskLogin \/ LoginReturns \/ FetchUser \/ RequestClip
-----------------------------------------------------------------------------
LEMMA QuietSteps ==
  ASSUME Quiet
  PROVE  UNCHANGED <<ready, stream, queue, deadline, acked, copied, cur, decisionVars>>
BY DEF Quiet, Tick, WallStep, GetToken, AskLogin, LoginReturns, FetchUser, RequestClip,
       handlerRest, timeVars, busVars, decisionVars

\* A published window takes the next number and keeps the others.
LEMMA PublishAppends ==
  ASSUME TypeOK, NEW c \in Names, NEW score \in Scores, Publish(c, score)
  PROVE  /\ stream' \in Seq(FeatureVector)
         /\ Len(stream') = Len(stream) + 1
         /\ \A i \in Windows : i \in Windows' /\ stream'[i] = stream[i] /\ deadline'[i] = deadline[i]
         /\ deadline' \in Seq(Int) /\ Len(deadline') = Len(stream')
         /\ deadline'[Len(stream')] = clock + AckWait
         /\ queue' \in Seq(Nat) /\ Len(queue') = Len(queue) + 1
         /\ \A k \in 1..Len(queue') : \/ k \in 1..Len(queue) /\ queue'[k] = queue[k]
                                      \/ k = Len(queue') /\ queue'[k] = Len(stream')
         /\ UNCHANGED <<clock, ready, acked, copied, cur, pc, decisionVars>>
<1>1. stream' = Append(stream, [chan |-> c, score |-> score])
  BY DEF Publish
<1>2. stream \in Seq(FeatureVector) /\ [chan |-> c, score |-> score] \in FeatureVector
  BY DEF TypeOK, FeatureVector
<1>3. /\ stream' \in Seq(FeatureVector) /\ Len(stream') = Len(stream) + 1
      /\ \A i \in 1..Len(stream) : stream'[i] = stream[i]
  BY <1>1, <1>2
<1>4. deadline' = Append(deadline, clock + AckWait) /\ deadline \in Seq(Int)
      /\ clock + AckWait \in Int /\ Len(deadline) = Len(stream)
  BY ClipDecisionAssumption DEF Publish, TypeOK
<1>5. queue' = Append(queue, Len(stream')) /\ queue \in Seq(Nat) /\ Len(stream') \in Nat
  BY <1>3 DEF Publish, TypeOK
<1>6. /\ deadline' \in Seq(Int) /\ Len(deadline') = Len(stream')
      /\ deadline'[Len(stream')] = clock + AckWait
      /\ \A i \in 1..Len(stream) : deadline'[i] = deadline[i]
  BY <1>3, <1>4
<1>7. /\ queue' \in Seq(Nat) /\ Len(queue') = Len(queue) + 1
      /\ \A k \in 1..Len(queue') : \/ k \in 1..Len(queue) /\ queue'[k] = queue[k]
                                   \/ k = Len(queue') /\ queue'[k] = Len(stream')
  BY <1>5
<1>8. UNCHANGED <<clock, ready, acked, copied, cur, pc, decisionVars>>
  BY DEF Publish, timeVars
<1>9. Len(stream) \in Nat /\ \A i \in Windows : i \in 1..Len(stream) /\ i \in Windows'
  BY <1>2, <1>3 DEF Windows
<1>10. \A i \in Windows :
         i \in Windows' /\ stream'[i] = stream[i] /\ deadline'[i] = deadline[i]
  BY <1>3, <1>6, <1>9
<1> QED
  BY <1>3, <1>6, <1>7, <1>8, <1>10

LEMMA ChanTyped ==
  ASSUME TypeOK
  PROVE  \A i \in Windows : Chan(i) \in Names /\ stream[i].score \in Scores
<1> SUFFICES ASSUME NEW i \in Windows PROVE stream[i].chan \in Names /\ stream[i].score \in Scores
  BY DEF Chan
<1>1. stream \in Seq(FeatureVector) /\ i \in 1..Len(stream)
  BY DEF TypeOK, Windows
<1>2. stream[i] \in FeatureVector
  BY <1>1
<1> QED
  BY <1>2 DEF FeatureVector

\* The handler takes the copy at the head of the queue.
LEMMA HandlerTakes ==
  ASSUME TypeOK, OnFeatures
  PROVE  /\ Len(queue) > 0 /\ cur' = queue[1] /\ cur' \in Windows
         /\ Chan(cur') \in Names
         /\ queue' \in Seq(Nat) /\ Len(queue') = Len(queue) - 1
         /\ \A k \in 1..Len(queue') : k + 1 \in 1..Len(queue) /\ queue'[k] = queue[k + 1]
         /\ UNCHANGED <<clock, wall, ready, stream, deadline, acked, copied>>
<1>1. queue # <<>> /\ queue \in Seq(Nat) /\ cur' = Head(queue) /\ queue' = Tail(queue)
  BY DEF OnFeatures, TypeOK
<1>2. Len(queue) > 0 /\ Head(queue) = queue[1] /\ Len(queue) \in Nat
  BY <1>1
<1>3. /\ queue' \in Seq(Nat) /\ Len(queue') = Len(queue) - 1
      /\ \A k \in 1..Len(queue') : k + 1 \in 1..Len(queue) /\ queue'[k] = queue[k + 1]
  BY <1>1, <1>2
<1>4. cur' \in Windows
  BY <1>1, <1>2 DEF TypeOK
<1>5. Chan(cur') \in Names
  BY <1>4, ChanTyped
<1>6. UNCHANGED <<clock, wall, ready, stream, deadline, acked, copied>>
  BY DEF OnFeatures, timeVars
<1> QED
  BY <1>1, <1>2, <1>3, <1>4, <1>5, <1>6

\* What the handler decides about a window, as one of three cases.
LEMMA Decision ==
  ASSUME TypeOK, OnFeatures
  PROVE  /\ cooldowns' = cooldowns \/ cooldowns' = [cooldowns EXCEPT ![Chan(cur')] = wall + ClipCooldown]
         /\ lastProb' = lastProb \/ lastProb' = [lastProb EXCEPT ![Chan(cur')] = cur']
         /\ \/ UNCHANGED <<cooldowns, attempts, skipped>> /\ (~ready \/ stream[cur'].score # "hype")
            \/ /\ UNCHANGED <<cooldowns, attempts>>
               /\ cooldowns[Chan(cur')] # None /\ wall < cooldowns[Chan(cur')]
               /\ skipped' = skipped \cup {[window |-> cur', chan |-> Chan(cur'), at |-> wall]}
            \/ /\ UNCHANGED skipped
               /\ cooldowns[Chan(cur')] # None => ~(wall < cooldowns[Chan(cur')])
               /\ cooldowns' = [cooldowns EXCEPT ![Chan(cur')] = wall + ClipCooldown]
               /\ attempts' = attempts \cup {[window |-> cur', chan |-> Chan(cur'), at |-> wall]}
<1>1. Dismiss(cur') \/ Refuse(cur') \/ Attempt(cur')
  BY DEF OnFeatures
<1>2. CASE Dismiss(cur')
  BY <1>2 DEF Dismiss
<1>3. CASE Refuse(cur')
  BY <1>3 DEF Refuse, InCooldown, CooldownsAfter
<1>4. CASE Attempt(cur')
  BY <1>4 DEF Attempt, InCooldown, CooldownsAfter
<1> QED
  BY <1>1, <1>2, <1>3, <1>4

LEMMA AckSteps ==
  ASSUME Ack
  PROVE  /\ acked' = acked \cup {cur}
         /\ cur' = 0 /\ pc = "ack" /\ pc' = "idle"
         /\ UNCHANGED <<clock, ready, stream, queue, deadline, copied, decisionVars>>
BY DEF Ack, timeVars, decisionVars

LEMMA RedeliverSteps ==
  ASSUME TypeOK, NEW i \in Windows, Redeliver(i)
  PROVE  /\ i \notin acked /\ clock >= deadline[i]
         /\ queue' \in Seq(Nat) /\ Len(queue') = Len(queue) + 1
         /\ \A k \in 1..Len(queue') : \/ k \in 1..Len(queue) /\ queue'[k] = queue[k]
                                      \/ k = Len(queue') /\ queue'[k] = i
         /\ deadline' \in Seq(Int) /\ Len(deadline') = Len(deadline)
         /\ copied' = copied \cup {i}
         /\ UNCHANGED <<clock, wall, ready, configured, stream, acked, pc, cur, userCache,
                        decisionVars, clips>>
<1>1. queue \in Seq(Nat) /\ i \in Nat /\ queue' = Append(queue, i)
  BY DEF Redeliver, TypeOK, Windows
<1>2. deadline \in Seq(Int) /\ clock + AckWait \in Int /\ i \in 1..Len(deadline)
      /\ deadline' = [deadline EXCEPT ![i] = clock + AckWait]
  BY ClipDecisionAssumption DEF Redeliver, TypeOK, Windows
<1>3. deadline' \in Seq(Int) /\ Len(deadline') = Len(deadline)
  BY <1>2
<1> QED
  BY <1>1, <1>3 DEF Redeliver, Unacked, timeVars

\* Every step is one of these, or changes nothing.
LEMMA Steps ==
  ASSUME [Next]_vars
  PROVE  \/ \E c \in Names, score \in Scores : Publish(c, score)
         \/ \E i \in Windows : Redeliver(i)
         \/ Quiet
         \/ OnFeatures
         \/ Ack
         \/ UNCHANGED vars
BY DEF Next, Handler, Quiet

LEMMA Stutter ==
  ASSUME UNCHANGED vars
  PROVE  UNCHANGED <<clock, wall, ready, configured, stream, queue, deadline, acked, copied, pc,
                     cur, userCache, decisionVars, clips>>
BY DEF vars, decisionVars
-----------------------------------------------------------------------------
\* The types of the variables are kept by every step.
THEOREM TypeCorrect == Spec => []TypeOK
<1>1. Init => TypeOK
  BY DEF Init, TypeOK, Windows, States
<1>2. TypeOK /\ [Next]_vars => TypeOK'
  <2> SUFFICES ASSUME TypeOK, [Next]_vars PROVE TypeOK'
    OBVIOUS
  <2>1. ASSUME NEW c \in Names, NEW score \in Scores, Publish(c, score) PROVE TypeOK'
    <3>1. \A i \in Windows : i \in Windows'
      BY <2>1, PublishAppends
    <3>2. Len(stream') \in Windows'
      BY <2>1, PublishAppends DEF Windows, TypeOK
    <3>3. \A k \in 1..Len(queue') : queue'[k] \in Windows'
      BY <2>1, <3>1, <3>2, PublishAppends DEF TypeOK
    <3>4. UNCHANGED <<wall, configured, userCache, clips>>
      BY <2>1 DEF Publish, timeVars
    <3>5. UNCHANGED <<clock, ready, acked, copied, cur, pc, decisionVars>>
      BY <2>1, PublishAppends
    <3>6. /\ stream' \in Seq(FeatureVector) /\ queue' \in Seq(Nat)
          /\ deadline' \in Seq(Int) /\ Len(deadline') = Len(stream')
      BY <2>1, PublishAppends
    <3> QED
      BY <3>1, <3>3, <3>4, <3>5, <3>6 DEF TypeOK, decisionVars
  <2>2. ASSUME NEW i \in Windows, Redeliver(i) PROVE TypeOK'
    <3>1. Windows' = Windows
      BY <2>2, RedeliverSteps DEF Windows
    <3>2. \A k \in 1..Len(queue') : queue'[k] \in Windows
      BY <2>2, RedeliverSteps DEF TypeOK
    <3> QED
      BY <2>2, <3>1, <3>2, RedeliverSteps DEF TypeOK, decisionVars
  <2>3. CASE Quiet
    <3>1. Windows' = Windows
      BY <2>3, QuietSteps DEF Windows
    <3>2. clock' \in Int /\ wall' \in Int /\ configured' = configured
      BY <2>3, ClipDecisionAssumption
         DEF Quiet, TypeOK, Tick, WallStep, GetToken, AskLogin, LoginReturns, FetchUser,
             RequestClip, handlerRest, timeVars
    <3>3. pc' \in States /\ ((pc' = "idle") <=> (pc = "idle"))
      BY <2>3 DEF Quiet, TypeOK, States, Tick, WallStep, GetToken, AskLogin, LoginReturns,
                  FetchUser, RequestClip, AfterFailure
    <3>4. userCache' \subseteq Broadcasters
      <4>1. CASE FetchUser
        <5>1. cur \in Windows
          BY <4>1 DEF FetchUser, TypeOK
        <5>2. Broadcaster(cur) \in Broadcasters
          BY <5>1, ChanTyped, ClipDecisionAssumption DEF Broadcaster
        <5> QED
          BY <4>1, <5>2 DEF FetchUser, TypeOK
      <4> QED
        BY <2>3, <4>1 DEF Quiet, TypeOK, Tick, WallStep, GetToken, AskLogin, LoginReturns,
                          RequestClip
    <3>5. clips' \subseteq [window : Windows, at : Int, known : BOOLEAN]
      <4>1. CASE RequestClip
        <5>1. cur \in Windows /\ clock \in Int
          BY <4>1 DEF RequestClip, TypeOK
        <5> QED
          BY <4>1, <5>1 DEF RequestClip, TypeOK
      <4> QED
        BY <2>3, <4>1 DEF Quiet, TypeOK, Tick, WallStep, GetToken, AskLogin, LoginReturns,
                          FetchUser
    <3> QED
      BY <2>3, <3>1, <3>2, <3>3, <3>4, <3>5, QuietSteps DEF TypeOK, decisionVars
  <2>4. CASE OnFeatures
    <3>1. Windows' = Windows
      BY <2>4, HandlerTakes DEF Windows
    <3>2. wall \in Int /\ wall + ClipCooldown \in Int /\ clock \in Int
      BY ClipDecisionAssumption DEF TypeOK
    <3>3. cur' \in Windows /\ cur' # 0 /\ Chan(cur') \in Names
      BY <2>4, HandlerTakes DEF Windows, TypeOK
    <3>4. /\ cooldowns' \in [Names -> Int \cup {None}]
          /\ lastProb' \in [Names -> Windows \cup {0}]
      BY <2>4, <3>2, <3>3, Decision DEF TypeOK
    <3>5. /\ attempts' \subseteq [window : Windows, chan : Names, at : Int]
          /\ skipped' \subseteq [window : Windows, chan : Names, at : Int]
      BY <2>4, <3>2, <3>3, Decision DEF TypeOK
    <3>6. pc' \in States /\ pc' # "idle"
      BY <2>4 DEF OnFeatures, Dismiss, Refuse, Attempt, States
    <3>7. clips' \subseteq [window : Windows, at : Int, known : BOOLEAN]
      <4>1. clips' = clips \/ clips' = clips \cup {[window |-> cur', at |-> clock, known |-> TRUE]}
        BY <2>4 DEF OnFeatures, Dismiss, Refuse, Attempt
      <4>2. [window |-> cur', at |-> clock, known |-> TRUE] \in [window : Windows, at : Int, known : BOOLEAN]
        BY <3>2, <3>3
      <4>3. clips \subseteq [window : Windows, at : Int, known : BOOLEAN]
        BY DEF TypeOK
      <4> QED
        BY <4>1, <4>2, <4>3
    <3>8. \A k \in 1..Len(queue') : queue'[k] \in Windows
      BY <2>4, HandlerTakes DEF TypeOK
    <3>9. configured' = configured /\ userCache' = userCache
      BY <2>4 DEF OnFeatures
    <3> QED
      BY <2>4, <3>1, <3>3, <3>4, <3>5, <3>6, <3>7, <3>8, <3>9, HandlerTakes DEF TypeOK
  <2>5. CASE Ack
    <3>1. Windows' = Windows
      BY <2>5, AckSteps DEF Windows
    <3>2. cur \in Windows
      BY <2>5, AckSteps DEF TypeOK
    <3>3. UNCHANGED <<wall, configured, userCache, clips>>
      BY <2>5 DEF Ack, timeVars
    <3> QED
      BY <2>5, <3>1, <3>2, <3>3, AckSteps DEF TypeOK, decisionVars, States
  <2>6. CASE UNCHANGED vars
    BY <2>6, Stutter DEF TypeOK, Windows, decisionVars
  <2> QED
    BY <2>1, <2>2, <2>3, <2>4, <2>5, <2>6, Steps
<1> QED
  BY <1>1, <1>2, PTL DEF Spec
-----------------------------------------------------------------------------
\* A cooldown reaches ClipCooldown past every attempt for its name...
CooldownCovers ==
  \A a \in attempts : cooldowns[a.chan] # None /\ a.at + ClipCooldown <= cooldowns[a.chan]

\* ... and no further than one of them.
CooldownFromAttempt ==
  \A c \in Names : cooldowns[c] # None =>
    \E a \in attempts : a.chan = c /\ a.at + ClipCooldown = cooldowns[c]

\* Steps other than the handler's decision change neither cooldowns nor histories.
LEMMA NoDecision ==
  ASSUME TypeOK, [Next]_vars, ~OnFeatures
  PROVE  UNCHANGED <<ready, cooldowns, lastProb, attempts, skipped>>
<1>1. ASSUME NEW c \in Names, NEW score \in Scores, Publish(c, score)
      PROVE  UNCHANGED <<ready, cooldowns, lastProb, attempts, skipped>>
  BY <1>1, PublishAppends DEF decisionVars
<1>2. ASSUME NEW i \in Windows, Redeliver(i)
      PROVE  UNCHANGED <<ready, cooldowns, lastProb, attempts, skipped>>
  BY <1>2, RedeliverSteps DEF decisionVars
<1> QED
  BY <1>1, <1>2, Steps, QuietSteps, AckSteps, Stutter DEF decisionVars

\* AttemptsSpaced: the cooldown keeps the attempts for a name apart.
THEOREM AttemptsSpacedCorrect == Spec => []AttemptsSpaced
<1> DEFINE IInv == CooldownCovers /\ AttemptsSpaced
<1>1. Init => IInv
  BY DEF Init, CooldownCovers, AttemptsSpaced
<1>2. TypeOK /\ IInv /\ [Next]_vars => IInv'
  <2> SUFFICES ASSUME TypeOK, IInv, [Next]_vars PROVE IInv'
    OBVIOUS
  <2>1. CASE ~OnFeatures
    BY <2>1, NoDecision DEF CooldownCovers, AttemptsSpaced
  <2>2. CASE OnFeatures
    <3>1. CASE attempts' = attempts /\ cooldowns' = cooldowns
      BY <3>1 DEF CooldownCovers, AttemptsSpaced
    <3>2. CASE /\ cooldowns[Chan(cur')] # None => ~(wall < cooldowns[Chan(cur')])
               /\ cooldowns' = [cooldowns EXCEPT ![Chan(cur')] = wall + ClipCooldown]
               /\ attempts' = attempts \cup {[window |-> cur', chan |-> Chan(cur'), at |-> wall]}
      <4> DEFINE new == [window |-> cur', chan |-> Chan(cur'), at |-> wall]
      <4>1. new.chan \in Names /\ new.at = wall /\ wall \in Int /\ wall + ClipCooldown \in Int
        BY <2>2, HandlerTakes, ClipDecisionAssumption DEF TypeOK
      <4>2. \A a \in attempts : /\ a.chan \in Names /\ a.at \in Int
                                /\ cooldowns[a.chan] \in Int
                                /\ a.at + ClipCooldown <= cooldowns[a.chan]
        BY DEF CooldownCovers, TypeOK
      <4>3. \A a \in attempts : a.chan = new.chan => a.at + ClipCooldown <= wall
        BY <3>2, <4>1, <4>2, ClipDecisionAssumption
      <4>4. /\ cooldowns'[new.chan] = wall + ClipCooldown
            /\ \A c \in Names : c # new.chan => cooldowns'[c] = cooldowns[c]
        BY <3>2, <4>1 DEF TypeOK
      <4>5. wall + ClipCooldown # None
        BY <4>1, ClipDecisionAssumption
      <4>6. ASSUME NEW a \in attempts'
            PROVE  cooldowns'[a.chan] # None /\ a.at + ClipCooldown <= cooldowns'[a.chan]
        <5>1. CASE a = new
          BY <5>1, <4>1, <4>4, <4>5
        <5>2. CASE a \in attempts /\ a.chan # new.chan
          BY <5>2, <4>2, <4>4 DEF CooldownCovers
        <5>3. CASE a \in attempts /\ a.chan = new.chan
          BY <5>3, <4>1, <4>2, <4>3, <4>4, <4>5, ClipDecisionAssumption
        <5> QED
          BY <5>1, <5>2, <5>3, <3>2
      <4>7. AttemptsSpaced'
        BY <3>2, <4>1, <4>3 DEF AttemptsSpaced
      <4> QED
        BY <4>6, <4>7 DEF CooldownCovers
    <3> QED
      BY <2>2, <3>1, <3>2, Decision
  <2> QED
    BY <2>1, <2>2
<1> QED
  BY <1>1, <1>2, TypeCorrect, PTL DEF Spec

\* RefusedAfterAttempt: a refusal has an attempt to answer for it.
THEOREM RefusedAfterAttemptCorrect == Spec => []RefusedAfterAttempt
<1> DEFINE IInv == CooldownFromAttempt /\ RefusedAfterAttempt
<1>1. Init => IInv
  BY DEF Init, CooldownFromAttempt, RefusedAfterAttempt
<1>2. TypeOK /\ IInv /\ [Next]_vars => IInv'
  <2> SUFFICES ASSUME TypeOK, IInv, [Next]_vars PROVE IInv'
    OBVIOUS
  <2>1. CASE ~OnFeatures
    BY <2>1, NoDecision DEF CooldownFromAttempt, RefusedAfterAttempt
  <2>2. CASE OnFeatures
    <3>1. wall \in Int /\ Chan(cur') \in Names
      BY <2>2, HandlerTakes DEF TypeOK
    <3>2. CASE UNCHANGED <<cooldowns, attempts, skipped>>
      BY <3>2 DEF CooldownFromAttempt, RefusedAfterAttempt
    <3>3. CASE /\ UNCHANGED <<cooldowns, attempts>>
               /\ cooldowns[Chan(cur')] # None /\ wall < cooldowns[Chan(cur')]
               /\ skipped' = skipped \cup {[window |-> cur', chan |-> Chan(cur'), at |-> wall]}
      <4>1. \E a \in attempts : a.chan = Chan(cur') /\ wall < a.at + ClipCooldown
        BY <3>1, <3>3 DEF CooldownFromAttempt
      <4> QED
        BY <3>3, <4>1 DEF CooldownFromAttempt, RefusedAfterAttempt
    <3>4. CASE /\ UNCHANGED skipped
               /\ cooldowns' = [cooldowns EXCEPT ![Chan(cur')] = wall + ClipCooldown]
               /\ attempts' = attempts \cup {[window |-> cur', chan |-> Chan(cur'), at |-> wall]}
      <4> DEFINE new == [window |-> cur', chan |-> Chan(cur'), at |-> wall]
      <4>0. new \in attempts' /\ new.chan = Chan(cur') /\ new.at = wall
        BY <3>4
      <4>1. \E a \in attempts' : a.chan = Chan(cur') /\ a.at = wall
        BY <4>0
      <4>2. /\ cooldowns'[Chan(cur')] = wall + ClipCooldown
            /\ \A c \in Names : c # Chan(cur') => cooldowns'[c] = cooldowns[c]
        BY <3>1, <3>4 DEF TypeOK
      <4>3. CooldownFromAttempt'
        BY <3>4, <4>1, <4>2 DEF CooldownFromAttempt
      <4>4. RefusedAfterAttempt'
        BY <3>4 DEF RefusedAfterAttempt
      <4> QED
        BY <4>3, <4>4
    <3> QED
      BY <2>2, <3>2, <3>3, <3>4, Decision
  <2> QED
    BY <2>1, <2>2
<1> QED
  BY <1>1, <1>2, TypeCorrect, PTL DEF Spec
-----------------------------------------------------------------------------
WasDecided(i) ==
  ready /\ stream[i].score = "hype" => \E d \in attempts \cup skipped : d.window = i

\* AckedWereDecided: what is acked was first decided, as was the window in hand.
THEOREM AckedWereDecidedCorrect == Spec => []AckedWereDecided
<1> DEFINE IInv == (cur # 0 => WasDecided(cur)) /\ AckedWereDecided
<1>1. Init => IInv
  BY DEF Init, AckedWereDecided
<1>2. TypeOK /\ IInv /\ [Next]_vars => IInv'
  <2> SUFFICES ASSUME TypeOK, IInv, [Next]_vars PROVE IInv'
    OBVIOUS
  <2>1. ASSUME NEW c \in Names, NEW score \in Scores, Publish(c, score) PROVE IInv'
    <3>1. UNCHANGED <<ready, attempts, skipped, acked, cur>>
      BY <2>1, PublishAppends DEF decisionVars
    <3>2. \A i \in Windows : stream'[i] = stream[i]
      BY <2>1, PublishAppends
    <3>3. acked \subseteq Windows /\ (cur # 0 => cur \in Windows)
      BY DEF TypeOK
    <3> QED
      BY <3>1, <3>2, <3>3 DEF WasDecided, AckedWereDecided
  <2>2. ASSUME NEW i \in Windows, Redeliver(i) PROVE IInv'
    BY <2>2, RedeliverSteps DEF WasDecided, AckedWereDecided, decisionVars
  <2>3. CASE Quiet
    BY <2>3, QuietSteps DEF WasDecided, AckedWereDecided, decisionVars
  <2>4. CASE OnFeatures
    <3>1. UNCHANGED <<ready, stream, acked>>
      BY <2>4, HandlerTakes
    <3>2. attempts \subseteq attempts' /\ skipped \subseteq skipped'
      BY <2>4, Decision
    <3>3. ready /\ stream[cur'].score = "hype" => \E d \in attempts' \cup skipped' : d.window = cur'
      <4> DEFINE new == [window |-> cur', chan |-> Chan(cur'), at |-> wall]
      <4>1. ready /\ stream[cur'].score = "hype" => new \in attempts' \cup skipped'
        BY <2>4, Decision
      <4>2. new.window = cur'
        OBVIOUS
      <4> QED
        BY <4>1, <4>2
    <3>4. WasDecided(cur)'
      BY <3>1, <3>3 DEF WasDecided
    <3>5. AckedWereDecided'
      BY <3>1, <3>2 DEF AckedWereDecided
    <3> QED
      BY <3>4, <3>5
  <2>5. CASE Ack
    <3>1. cur # 0
      BY <2>5, AckSteps DEF TypeOK
    <3> QED
      BY <2>5, <3>1, AckSteps DEF WasDecided, AckedWereDecided, decisionVars
  <2>6. CASE UNCHANGED vars
    BY <2>6, Stutter DEF WasDecided, AckedWereDecided, decisionVars
  <2> QED
    BY <2>1, <2>2, <2>3, <2>4, <2>5, <2>6, Steps
<1> QED
  BY <1>1, <1>2, TypeCorrect, PTL DEF Spec
-----------------------------------------------------------------------------
\* A window in the queue that was not pushed again is newer than all that are
\* before it there, were decided or are shown by /status: copies of other windows
\* may be anywhere, but they are older.
FirstInLine ==
  \A k \in 1..Len(queue) : queue[k] \notin copied =>
    /\ \A j \in 1..(k - 1) : queue[j] < queue[k]
    /\ \A d \in attempts \cup skipped : d.window < queue[k]
    /\ \A c \in Names : lastProb[c] < queue[k]

OrderInv == FirstInLine /\ DecidedOnce

NotBack == \A c \in Names : lastProb'[c] < lastProb[c] => lastProb'[c] \in copied

LEMMA OrderStep ==
  ASSUME TypeOK, OrderInv, [Next]_vars
  PROVE  OrderInv' /\ NotBack
<1>0. /\ Len(stream) \in Nat /\ Len(queue) \in Nat
      /\ \A k \in 1..Len(queue) : queue[k] \in 1..Len(stream)
      /\ \A d \in attempts \cup skipped : d.window \in 1..Len(stream)
      /\ \A c \in Names : lastProb[c] \in 0..Len(stream)
  BY DEF TypeOK, Windows
<1>1. ASSUME NEW c \in Names, NEW score \in Scores, Publish(c, score) PROVE OrderInv' /\ NotBack
  <2>1. UNCHANGED <<copied, lastProb, attempts, skipped>>
    BY <1>1, PublishAppends DEF decisionVars
  <2>2. /\ Len(stream') = Len(stream) + 1 /\ Len(queue') = Len(queue) + 1
        /\ \A k \in 1..Len(queue') : \/ k \in 1..Len(queue) /\ queue'[k] = queue[k]
                                     \/ k = Len(queue') /\ queue'[k] = Len(stream')
    BY <1>1, PublishAppends
  <2>3. FirstInLine'
    <3> SUFFICES ASSUME NEW k \in 1..Len(queue'), queue'[k] \notin copied
                 PROVE  /\ \A j \in 1..(k - 1) : queue'[j] < queue'[k]
                        /\ \A d \in attempts \cup skipped : d.window < queue'[k]
                        /\ \A c2 \in Names : lastProb[c2] < queue'[k]
      BY <2>1 DEF FirstInLine
    <3>1. \A j \in 1..(k - 1) : j \in 1..Len(queue) /\ queue'[j] = queue[j]
      BY <1>0, <2>2
    <3>2. CASE k \in 1..Len(queue) /\ queue'[k] = queue[k]
      BY <3>1, <3>2 DEF OrderInv, FirstInLine
    <3>3. CASE queue'[k] = Len(stream')
      BY <1>0, <2>2, <3>1, <3>3
    <3> QED
      BY <2>2, <3>2, <3>3
  <2> QED
    BY <1>0, <2>1, <2>3 DEF OrderInv, DecidedOnce, NotBack
<1>2. ASSUME NEW i \in Windows, Redeliver(i) PROVE OrderInv' /\ NotBack
  <2>1. copied' = copied \cup {i} /\ UNCHANGED <<lastProb, attempts, skipped>>
    BY <1>2, RedeliverSteps DEF decisionVars
  <2>2. /\ Len(queue') = Len(queue) + 1
        /\ \A k \in 1..Len(queue') : \/ k \in 1..Len(queue) /\ queue'[k] = queue[k]
                                     \/ k = Len(queue') /\ queue'[k] = i
    BY <1>2, RedeliverSteps
  <2>3. FirstInLine'
    <3> SUFFICES ASSUME NEW k \in 1..Len(queue'), queue'[k] \notin copied'
                 PROVE  /\ \A j \in 1..(k - 1) : queue'[j] < queue'[k]
                        /\ \A d \in attempts \cup skipped : d.window < queue'[k]
                        /\ \A c \in Names : lastProb[c] < queue'[k]
      BY <2>1 DEF FirstInLine
    <3>1. k \in 1..Len(queue) /\ queue'[k] = queue[k] /\ queue[k] \notin copied
      BY <2>1, <2>2
    <3>2. \A j \in 1..(k - 1) : j \in 1..Len(queue) /\ queue'[j] = queue[j]
      BY <1>0, <2>2, <3>1
    <3> QED
      BY <3>1, <3>2 DEF OrderInv, FirstInLine
  <2> QED
    BY <1>0, <2>1, <2>3 DEF OrderInv, DecidedOnce, NotBack
<1>3. CASE OnFeatures
  <2>1. /\ Len(queue) > 0 /\ cur' = queue[1] /\ Len(queue') = Len(queue) - 1
        /\ \A k \in 1..Len(queue') : k + 1 \in 1..Len(queue) /\ queue'[k] = queue[k + 1]
        /\ UNCHANGED copied /\ Chan(cur') \in Names
    BY <1>3, HandlerTakes
  <2> DEFINE new == [window |-> cur', chan |-> Chan(cur'), at |-> wall]
  <2>2. (attempts \cup skipped)' \subseteq (attempts \cup skipped) \cup {new}
    BY <1>3, Decision
  <2>3. new.window = queue[1] /\ 1 \in 1..Len(queue)
    BY <1>0, <2>1
  <2>4. \A c \in Names : lastProb'[c] = lastProb[c] \/ lastProb'[c] = queue[1]
    BY <1>3, <2>1, Decision DEF TypeOK
  <2>5. FirstInLine'
    <3> SUFFICES ASSUME NEW k \in 1..Len(queue'), queue'[k] \notin copied
                 PROVE  /\ \A j \in 1..(k - 1) : queue'[j] < queue'[k]
                        /\ \A d \in (attempts \cup skipped)' : d.window < queue'[k]
                        /\ \A c \in Names : lastProb'[c] < queue'[k]
      BY <2>1 DEF FirstInLine
    <3>1. k + 1 \in 1..Len(queue) /\ queue'[k] = queue[k + 1]
      BY <2>1
    <3>2. /\ \A j \in 1..k : queue[j] < queue[k + 1]
          /\ \A d \in attempts \cup skipped : d.window < queue[k + 1]
          /\ \A c \in Names : lastProb[c] < queue[k + 1]
      BY <3>1 DEF OrderInv, FirstInLine
    <3>3. \A j \in 1..(k - 1) : j + 1 \in 1..k /\ queue'[j] = queue[j + 1]
      BY <1>0, <2>1
    <3>4. queue[1] < queue[k + 1]
      BY <1>0, <2>1, <3>2
    <3>5. \A d \in (attempts \cup skipped)' : d.window < queue'[k]
      BY <2>2, <2>3, <3>1, <3>2, <3>4
    <3>6. \A c \in Names : lastProb'[c] < queue'[k]
      BY <2>4, <3>1, <3>2, <3>4
    <3> QED
      BY <3>1, <3>2, <3>3, <3>5, <3>6
  <2>6. queue[1] \notin copied => /\ \A d \in attempts \cup skipped : d.window < queue[1]
                                  /\ \A c \in Names : lastProb[c] < queue[1]
    BY <2>3 DEF OrderInv, FirstInLine
  <2>7. DecidedOnce'
    BY <1>0, <2>1, <2>2, <2>3, <2>6 DEF OrderInv, DecidedOnce
  <2>8. NotBack
    BY <1>0, <2>3, <2>4, <2>6 DEF NotBack
  <2> QED
    BY <2>5, <2>7, <2>8 DEF OrderInv
<1>4. CASE Quiet \/ Ack \/ UNCHANGED vars
  <2>1. UNCHANGED <<queue, copied, lastProb, attempts, skipped>>
    BY <1>4, QuietSteps, AckSteps, Stutter DEF decisionVars
  <2> QED
    BY <1>0, <2>1 DEF OrderInv, FirstInLine, DecidedOnce, NotBack
<1> QED
  BY <1>1, <1>2, <1>3, <1>4, Steps

LEMMA OrderInit ==
  ASSUME Init
  PROVE  OrderInv
BY DEF Init, OrderInv, FirstInLine, DecidedOnce

\* DecidedOnce: at-least-once delivery is once for all that is not pushed again.
THEOREM DecidedOnceCorrect == Spec => []DecidedOnce
<1>1. TypeOK /\ OrderInv /\ [Next]_vars => OrderInv'
  BY OrderStep
<1>2. OrderInv => DecidedOnce
  BY DEF OrderInv
<1> QED
  BY <1>1, <1>2, OrderInit, TypeCorrect, PTL DEF Spec

\* StatusNeverGoesBack, from the order of the queue.
THEOREM StatusNeverGoesBackCorrect == Spec => StatusNeverGoesBack
<1>1. TypeOK /\ OrderInv /\ [Next]_vars => OrderInv'
  BY OrderStep
<1>2. TypeOK /\ OrderInv /\ [Next]_vars => [NotBack]_vars
  BY OrderStep
<1>3. [NotBack]_vars => [\A c \in Names : lastProb'[c] < lastProb[c] => lastProb'[c] \in copied]_vars
  BY DEF NotBack
<1> QED
  BY <1>1, <1>2, <1>3, OrderInit, TypeCorrect, PTL DEF Spec, StatusNeverGoesBack
-----------------------------------------------------------------------------
(* The refinement of Delivery. *)

\* Every window published is acked, in the handler or in the queue...
NoneLost == \A i \in Windows : i \in acked \/ i = cur \/ \E k \in 1..Len(queue) : queue[k] = i

\* ... and one that was not pushed again is in only one of these places.
OnePlace == \A k \in 1..Len(queue) : queue[k] \notin copied => queue[k] \notin acked \cup {cur}

PlaceInv == NoneLost /\ OnePlace

LEMMA PlaceInit == Init => PlaceInv
BY DEF Init, PlaceInv, NoneLost, OnePlace, Windows

LEMMA PlaceStep ==
  ASSUME TypeOK, OrderInv, PlaceInv, [Next]_vars
  PROVE  PlaceInv'
<1>0. /\ Len(stream) \in Nat /\ Len(queue) \in Nat /\ Windows = 1..Len(stream)
      /\ \A k \in 1..Len(queue) : queue[k] \in Windows
      /\ acked \subseteq Windows /\ copied \subseteq Windows /\ cur \in Windows \cup {0}
  BY DEF TypeOK, Windows
<1> USE DEF PlaceInv
<1>1. ASSUME NEW c \in Names, NEW score \in Scores, Publish(c, score) PROVE PlaceInv'
  <2>1. /\ Len(stream') = Len(stream) + 1 /\ Len(queue') = Len(queue) + 1
        /\ \A k \in 1..Len(queue') : \/ k \in 1..Len(queue) /\ queue'[k] = queue[k]
                                     \/ k = Len(queue') /\ queue'[k] = Len(stream')
        /\ UNCHANGED <<acked, copied, cur>>
    BY <1>1, PublishAppends
  <2>2. /\ Windows' = Windows \cup {Len(stream')} /\ Len(stream') \notin Windows \cup {0}
        /\ Len(queue') \in 1..Len(queue')
        /\ \A k \in 1..Len(queue) : k \in 1..Len(queue') /\ queue'[k] = queue[k]
    BY <1>0, <2>1 DEF Windows
  <2>3. queue'[Len(queue')] = Len(stream')
    BY <1>0, <2>1, <2>2
  <2>4. NoneLost'
    BY <2>1, <2>2, <2>3 DEF NoneLost
  <2>5. OnePlace'
    BY <1>0, <2>1, <2>2 DEF OnePlace
  <2> QED
    BY <2>4, <2>5
<1>2. ASSUME NEW i \in Windows, Redeliver(i) PROVE PlaceInv'
  <2>1. /\ Len(queue') = Len(queue) + 1 /\ copied' = copied \cup {i}
        /\ \A k \in 1..Len(queue') : \/ k \in 1..Len(queue) /\ queue'[k] = queue[k]
                                     \/ k = Len(queue') /\ queue'[k] = i
        /\ UNCHANGED <<acked, cur, stream>>
    BY <1>2, RedeliverSteps
  <2>2. Windows' = Windows /\ \A k \in 1..Len(queue) : k \in 1..Len(queue') /\ queue'[k] = queue[k]
    BY <1>0, <2>1 DEF Windows
  <2>3. NoneLost'
    BY <2>1, <2>2 DEF NoneLost
  <2>4. OnePlace'
    BY <2>1 DEF OnePlace
  <2> QED
    BY <2>3, <2>4
<1>3. CASE OnFeatures
  <2>1. /\ Len(queue) > 0 /\ cur' = queue[1] /\ Len(queue') = Len(queue) - 1
        /\ \A k \in 1..Len(queue') : k + 1 \in 1..Len(queue) /\ queue'[k] = queue[k + 1]
        /\ UNCHANGED <<acked, copied, stream>>
    BY <1>3, HandlerTakes
  <2>2. cur = 0 /\ cur \notin Windows /\ Windows' = Windows
    BY <1>0, <1>3, <2>1 DEF OnFeatures, TypeOK, Windows
  <2>3. \A k \in 1..Len(queue) : k = 1 \/ (k - 1 \in 1..Len(queue') /\ queue'[k - 1] = queue[k])
    BY <1>0, <2>1
  <2>4. NoneLost'
    BY <2>1, <2>2, <2>3 DEF NoneLost
  <2>5. OnePlace'
    <3> SUFFICES ASSUME NEW k \in 1..Len(queue'), queue'[k] \notin copied
                 PROVE  queue'[k] \notin acked /\ queue'[k] # queue[1]
      BY <2>1 DEF OnePlace
    <3>1. k + 1 \in 1..Len(queue) /\ queue'[k] = queue[k + 1] /\ 1 \in 1..((k + 1) - 1)
      BY <1>0, <2>1
    <3>2. queue[1] < queue[k + 1] /\ queue[k + 1] \in Nat
      BY <1>0, <3>1 DEF OrderInv, FirstInLine
    <3> QED
      BY <3>1, <3>2 DEF OnePlace
  <2> QED
    BY <2>4, <2>5
<1>4. CASE Ack
  <2>1. acked' = acked \cup {cur} /\ cur' = 0 /\ UNCHANGED <<stream, queue, copied>>
    BY <1>4, AckSteps
  <2>2. Windows' = Windows /\ 0 \notin Windows
    BY <1>0, <2>1 DEF Windows
  <2> QED
    BY <1>0, <2>1, <2>2 DEF NoneLost, OnePlace
<1>5. CASE Quiet \/ UNCHANGED vars
  <2>1. UNCHANGED <<stream, queue, copied, acked, cur>>
    BY <1>5, QuietSteps, Stutter
  <2> QED
    BY <2>1 DEF NoneLost, OnePlace, Windows
<1> QED
  BY <1>1, <1>2, <1>3, <1>4, <1>5, Steps

LEMMA PlacesHold == Spec => [](TypeOK /\ OrderInv /\ PlaceInv)
<1>1. TypeOK /\ OrderInv /\ [Next]_vars => OrderInv'
  BY OrderStep
<1>2. TypeOK /\ OrderInv /\ PlaceInv /\ [Next]_vars => PlaceInv'
  BY PlaceStep
<1> QED
  BY <1>1, <1>2, OrderInit, PlaceInit, TypeCorrect, PTL DEF Spec

\* What the handler takes is a copy, or all that was published before was acked
\* or pushed again.
LEMMA TakenInTurn ==
  ASSUME TypeOK, OrderInv, PlaceInv, OnFeatures
  PROVE  cur' \in copied \/ Bus!InTurn(cur')
<1> SUFFICES ASSUME cur' \notin copied PROVE Bus!InTurn(cur')
  OBVIOUS
<1>1. /\ Len(queue) > 0 /\ Len(queue) \in Nat /\ cur' = queue[1] /\ cur' \in Windows
      /\ cur = 0 /\ Windows = 1..Len(stream) /\ Len(stream) \in Nat
      /\ \A k \in 1..Len(queue) : queue[k] \in Windows
  BY HandlerTakes DEF OnFeatures, TypeOK, Windows
<1>2. 1 \in 1..Len(queue) /\ queue[1] \notin acked
  BY <1>1 DEF PlaceInv, OnePlace
<1>3. ASSUME NEW j \in 1..(cur' - 1), j \notin acked PROVE j \in copied
  <2>1. j \in Windows /\ j # cur /\ j < queue[1]
    BY <1>1
  <2>2. PICK k \in 1..Len(queue) : queue[k] = j
    BY <1>3, <2>1 DEF PlaceInv, NoneLost
  <2>3. 1 \in 1..(k - 1)
    BY <1>1, <2>1, <2>2
  <2>4. queue[k] \notin copied => queue[1] < queue[k]
    BY <2>3 DEF OrderInv, FirstInLine
  <2> QED
    BY <1>1, <2>1, <2>2, <2>4
<1> QED
  BY <1>1, <1>2, <1>3 DEF Bus!InTurn

LEMMA InitDelivery == Init => Bus!Init
BY DEF Init, Bus!Init

LEMMA StepDelivery ==
  ASSUME TypeOK, OrderInv, PlaceInv, [Next]_vars
  PROVE  [Bus!Next]_(Bus!deliveryVars)
<1>1. ASSUME NEW c \in Names, NEW score \in Scores, Publish(c, score) PROVE Bus!Next
  <2>1. Len(stream') = Len(stream) + 1 /\ UNCHANGED <<acked, copied, cur>>
    BY <1>1, PublishAppends
  <2> QED
    BY <2>1 DEF Bus!Next, Bus!PublishItem
<1>2. ASSUME NEW i \in Windows, Redeliver(i) PROVE Bus!Next
  <2>1. i \notin acked /\ copied' = copied \cup {i} /\ UNCHANGED <<stream, acked, cur>>
    BY <1>2, RedeliverSteps
  <2>2. i \in 1..Len(stream) /\ Bus!Copy(i)
    BY <2>1 DEF Bus!Copy, Windows
  <2> QED
    BY <2>2 DEF Bus!Next
<1>3. CASE OnFeatures
  <2>1. cur' \in 1..Len(stream) /\ cur = 0 /\ UNCHANGED <<stream, acked, copied>>
    BY <1>3, HandlerTakes DEF OnFeatures, TypeOK, Windows
  <2>2. PICK i : i = cur'
    OBVIOUS
  <2>3. i \in copied \/ Bus!InTurn(i)
    BY <1>3, <2>2, TakenInTurn DEF Bus!InTurn
  <2>4. i \in 1..Len(stream) /\ Bus!HandOver(i)
    BY <2>1, <2>2, <2>3 DEF Bus!HandOver
  <2> QED
    BY <2>4 DEF Bus!Next
<1>4. CASE Ack
  <2>1. cur # 0 /\ acked' = acked \cup {cur} /\ cur' = 0 /\ UNCHANGED <<stream, copied>>
    BY <1>4, AckSteps DEF TypeOK
  <2> QED
    BY <2>1 DEF Bus!Next, Bus!AckItem
<1>5. CASE Quiet \/ UNCHANGED vars
  BY <1>5, QuietSteps, Stutter DEF Bus!deliveryVars
<1> QED
  BY <1>1, <1>2, <1>3, <1>4, <1>5, Steps

\* However the pushes of JetStream, the queue, the waits for Twitch and the acks
\* interleave, the handler gets every window in turn, and again only if pushed again.
THEOREM ImplementsDelivery == Spec => WindowsDelivered
<1>1. TypeOK /\ OrderInv /\ PlaceInv /\ [Next]_vars => [Bus!Next]_(Bus!deliveryVars)
  BY StepDelivery
<1> QED
  BY <1>1, InitDelivery, PlacesHold, PTL DEF Spec, WindowsDelivered, Bus!Spec

\* No window is ever nowhere: what is not acked is in the handler or still to come.
THEOREM NoWindowLost == Spec => []NoneLost
<1>1. PlaceInv => NoneLost
  BY DEF PlaceInv
<1> QED
  BY <1>1, PlacesHold, PTL
=============================================================================
