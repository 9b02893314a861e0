---------------------------- MODULE ClipDecision ----------------------------
(***************************************************************************)
(* The predict consumer: Consumers.onFeatures (consumers.go) behind the    *)
(* durable subscription of NATSBus.SubscribeFeatures (nats.go), with the   *)
(* two Helix calls that create a clip (helix.go).                          *)
(*                                                                         *)
(* JetStream pushes a published window to the subscription at once and     *)
(* pushes it again whenever AckWait passes without an ack, however many    *)
(* copies the client still holds.  One goroutine handles the copies in     *)
(* turn and acks each when the handler has returned.  The handler waits    *)
(* for Twitch up to four times; time passes and windows arrive meanwhile.  *)
(*                                                                         *)
(* clock is the server's monotonic time.  The cooldown is kept in wall     *)
(* time: time.Now().UTC() has no monotonic part, so it may be stepped.     *)
(***************************************************************************)
EXTENDS Integers, Sequences, FiniteSets

CONSTANTS
  Names,          \* channel names as published: the /simulate command does not fold case
  Broadcasters,   \* Twitch broadcaster ids
  BroadcasterOf,  \* the broadcaster GetUserID finds for a name (it folds case)
  ClipCooldown,   \* 30 s
  AckWait,        \* JetStream's default, 30 s
  WallSteps,      \* by how much the wall clock may be stepped; {} for never
  MaxClock,       \* bound: the last reading of the clock
  MaxWindows,     \* bound: windows published
  None            \* a channel that has no cooldown yet

ASSUME ClipDecisionAssumption ==
  /\ BroadcasterOf \in [Names -> Broadcasters]
  /\ ClipCooldown \in Nat \ {0}
  /\ AckWait \in Nat \ {0}
  /\ WallSteps \subseteq Int
  /\ MaxClock \in Nat
  /\ MaxWindows \in Nat
  /\ None \notin Int

VARIABLES
  clock,       \* monotonic time
  wall,        \* wall-clock time
  ready,       \* Predictor.Ready()
  configured,  \* Helix.IsConfigured()
  stream,      \* the feature windows published so far
  queue,       \* copies pushed to the client and not yet taken by the handler
  deadline,    \* per window: when JetStream pushes it again
  acked,       \* windows acked
  copied,      \* history: windows pushed again
  pc,          \* where the subscription's goroutine is
  cur,         \* the window it handles, 0 for none
  userCache,   \* broadcasters GetUserID has found before
  cooldowns,   \* per name: the end of its cooldown
  lastProb,    \* per name: the window whose probability /status shows, 0 for none
  attempts,    \* history: clips attempted
  skipped,     \* history: hype windows refused by the cooldown
  clips        \* history: clips that exist at Twitch

vars == <<clock, wall, ready, configured, stream, queue, deadline, acked, copied, pc, cur,
          userCache, cooldowns, lastProb, attempts, skipped, clips>>

timeVars == <<clock, wall>>
busVars == <<stream, queue, deadline, acked, copied>>
decisionVars == <<cooldowns, lastProb, attempts, skipped>>

Windows == 1..Len(stream)
Scores == {"hype", "calm", "error"}
FeatureVector == [chan : Names, score : Scores]
States == {"idle", "userToken", "userLogin", "userRequest",
           "clipToken", "clipLogin", "clipRequest", "ack"}
Chan(i) == stream[i].chan
Broadcaster(i) == BroadcasterOf[Chan(i)]
-----------------------------------------------------------------------------
\* PublishFeatures, by the monitor.  The score stands for the eight features:
\* what PredictProba and Decide make of them, the same for every copy.
Publish(c, score) ==
  /\ Len(stream) < MaxWindows
  /\ stream' = Append(stream, [chan |-> c, score |-> score])
  /\ queue' = Append(queue, Len(stream'))
  /\ deadline' = Append(deadline, clock + AckWait)
  /\ UNCHANGED <<timeVars, ready, configured, acked, copied, pc, cur, userCache, decisionVars, clips>>

Unacked == Windows \ acked

\* JetStream pushes again a window whose ack has not come in time.
Redeliver(i) ==
  /\ i \in Unacked
  /\ clock >= deadline[i]
  /\ queue' = Append(queue, i)
  /\ deadline' = [deadline EXCEPT ![i] = clock + AckWait]
  /\ copied' = copied \cup {i}
  /\ UNCHANGED <<timeVars, ready, configured, stream, acked, pc, cur, userCache,
                 decisionVars, clips>>

\* Time passes.
Tick ==
  /\ clock < MaxClock
  /\ clock' = clock + 1
  /\ wall' = wall + 1
  /\ UNCHANGED <<ready, configured, busVars, pc, cur, userCache, decisionVars, clips>>

\* The wall clock is set forwards or backwards.
WallStep ==
  /\ \E d \in WallSteps : wall' = wall + d /\ wall' \in 0..MaxClock
  /\ UNCHANGED <<clock, ready, configured, busVars, pc, cur, userCache, decisionVars, clips>>
-----------------------------------------------------------------------------
\* Mutant: no window is refused.
InCooldownNever(c) == FALSE

InCooldown(c) == cooldowns[c] # None /\ wall < cooldowns[c]

\* Mutant: a refused window extends the cooldown.
CooldownsAfterExtending(c) == [cooldowns EXCEPT ![c] = wall + ClipCooldown]

\* tryCooldown: the cooldown starts before Twitch is asked for anything.
CooldownsAfter(c) ==
  IF InCooldown(c) THEN cooldowns ELSE [cooldowns EXCEPT ![c] = wall + ClipCooldown]

\* Mutant: the threshold is compared the wrong way for some hype window.
DismissAny(i) ==
  /\ lastProb' = [lastProb EXCEPT ![Chan(i)] = i]
  /\ pc' = "ack"
  /\ UNCHANGED <<cooldowns, attempts, skipped, clips>>

\* The handler ends where the window asks for no clip.
Dismiss(i) ==
  /\ ~ready \/ stream[i].score # "hype"
  /\ lastProb' = IF ready /\ stream[i].score = "calm"
                 THEN [lastProb EXCEPT ![Chan(i)] = i] ELSE lastProb
  /\ pc' = "ack"
  /\ UNCHANGED <<cooldowns, attempts, skipped, clips>>

\* A hype window of a channel that was clipped, or tried, too recently.
Refuse(i) ==
  /\ ready /\ stream[i].score = "hype" /\ InCooldown(Chan(i))
  /\ lastProb' = [lastProb EXCEPT ![Chan(i)] = i]
  /\ cooldowns' = CooldownsAfter(Chan(i))
  /\ skipped' = skipped \cup {[window |-> i, chan |-> Chan(i), at |-> wall]}
  /\ pc' = "ack"
  /\ UNCHANGED <<attempts, clips>>

\* A hype window to be clipped: without Helix credentials only in the log, at
\* once, and Twitch is asked for nothing.
Attempt(i) ==
  /\ ready /\ stream[i].score = "hype" /\ ~InCooldown(Chan(i))
  /\ lastProb' = [lastProb EXCEPT ![Chan(i)] = i]
  /\ cooldowns' = CooldownsAfter(Chan(i))
  /\ attempts' = attempts \cup {[window |-> i, chan |-> Chan(i), at |-> wall]}
  /\ pc' = IF ~configured THEN "ack"
           ELSE IF Broadcaster(i) \in userCache THEN "clipToken" ELSE "userToken"
  /\ UNCHANGED <<skipped, clips>>

\* onFeatures up to the first call that waits.  Only this goroutine writes
\* what it reads, so it is one step.
OnFeatures ==
  /\ pc = "idle"
  /\ queue # <<>>
  /\ cur' = Head(queue)
  /\ queue' = Tail(queue)
  /\ Dismiss(cur') \/ Refuse(cur') \/ Attempt(cur')
  /\ UNCHANGED <<timeVars, ready, configured, stream, deadline, acked, copied, userCache>>
-----------------------------------------------------------------------------
handlerRest == <<timeVars, ready, configured, busVars, cur, decisionVars>>

\* getToken gives a token or an error within the time limits of its requests...
GetToken ==
  /\ \/ pc = "userToken" /\ pc' \in {"userRequest", "ack"}
     \/ pc = "clipToken" /\ pc' \in {"clipRequest", "ack"}
  /\ UNCHANGED <<handlerRest, userCache, clips>>

\* ... or it waits for the operator to log in with a browser, with no time limit
\* (or, TokenManager.mu being taken, for the login a /clip command waits for).
AskLogin ==
  /\ \/ pc = "userToken" /\ pc' = "userLogin"
     \/ pc = "clipToken" /\ pc' = "clipLogin"
  /\ UNCHANGED <<handlerRest, userCache, clips>>

LoginReturns ==
  /\ \/ pc = "userLogin" /\ pc' \in {"userRequest", "ack"}
     \/ pc = "clipLogin" /\ pc' \in {"clipRequest", "ack"}
  /\ UNCHANGED <<handlerRest, userCache, clips>>

\* Mutant: a failed request leaves the handler without an ack.
AfterFailureNoAck == "idle"

AfterFailure == "ack"

\* The request of GetUserID.  A failed one does not end the cooldown.
FetchUser ==
  /\ pc = "userRequest"
  /\ \/ pc' = "clipToken" /\ userCache' = userCache \cup {Broadcaster(cur)}
     \/ pc' = AfterFailure /\ UNCHANGED userCache
  /\ UNCHANGED <<handlerRest, clips>>

\* The request of CreateClip: it succeeds, fails, or creates a clip whose
\* reply is lost.  Only a known clip is printed and handed to the indexer.
RequestClip ==
  /\ pc = "clipRequest"
  /\ \/ /\ \E known \in BOOLEAN :
             clips' = clips \cup {[window |-> cur, at |-> clock, known |-> known]}
        /\ pc' = "ack"
     \/ pc' = AfterFailure /\ UNCHANGED clips
  /\ UNCHANGED <<handlerRest, userCache>>

\* Mutant: m.Nak(), which has the window pushed again behind newer ones.
AckNak ==
  /\ pc = "ack"
  /\ queue' = Append(queue, cur)
  /\ cur' = 0
  /\ pc' = "idle"
  /\ UNCHANGED <<timeVars, ready, configured, stream, deadline, acked, copied, userCache,
                 decisionVars, clips>>

\* m.Ack() once the handler has returned, whatever came of it.
Ack ==
  /\ pc = "ack"
  /\ acked' = acked \cup {cur}
  /\ cur' = 0
  /\ pc' = "idle"
  /\ UNCHANGED <<timeVars, ready, configured, stream, queue, deadline, copied, userCache,
                 decisionVars, clips>>

Init ==
  /\ clock = 0 /\ wall = 0
  /\ ready \in BOOLEAN /\ configured \in BOOLEAN
  /\ stream = <<>> /\ queue = <<>> /\ deadline = <<>>
  /\ acked = {} /\ copied = {}
  /\ pc = "idle" /\ cur = 0
  /\ userCache = {}
  /\ cooldowns = [c \in Names |-> None]
  /\ lastProb = [c \in Names |-> 0]
  /\ attempts = {} /\ skipped = {} /\ clips = {}

Handler == OnFeatures \/ GetToken \/ AskLogin \/ LoginReturns \/ FetchUser \/ RequestClip \/ Ack

Next ==
  \/ \E c \in Names, score \in Scores : Publish(c, score)
  \/ \E i \in Windows : Redeliver(i)
  \/ Tick
  \/ WallStep
  \/ Handler

Spec == Init /\ [][Next]_vars

\* The goroutine runs and every request has a time limit; the operator need
\* never log in.
FairSpec ==
  /\ Spec
  /\ WF_vars(OnFeatures) /\ WF_vars(GetToken \/ AskLogin)
  /\ WF_vars(FetchUser) /\ WF_vars(RequestClip) /\ WF_vars(Ack)
-----------------------------------------------------------------------------
TypeOK ==
  /\ clock \in Int /\ wall \in Int
  /\ ready \in BOOLEAN /\ configured \in BOOLEAN
  /\ stream \in Seq(FeatureVector)
  /\ queue \in Seq(Nat) /\ \A k \in 1..Len(queue) : queue[k] \in Windows
  /\ deadline \in Seq(Int) /\ Len(deadline) = Len(stream)
  /\ acked \subseteq Windows /\ copied \subseteq Windows
  /\ pc \in States
  /\ cur \in Windows \cup {0}
  /\ pc = "idle" <=> cur = 0
  /\ userCache \subseteq Broadcasters
  /\ cooldowns \in [Names -> Int \cup {None}]
  /\ lastProb \in [Names -> Windows \cup {0}]
  /\ attempts \subseteq [window : Windows, chan : Names, at : Int]
  /\ skipped \subseteq [window : Windows, chan : Names, at : Int]
  /\ clips \subseteq [window : Windows, at : Int, known : BOOLEAN]

\* The clips attempted for a name are ClipCooldown apart on the wall clock,
\* whichever copies JetStream pushes again, however long Twitch takes and even
\* if it is set back.
AttemptsSpaced ==
  \A a, b \in attempts :
    a # b /\ a.chan = b.chan => a.at + ClipCooldown <= b.at \/ b.at + ClipCooldown <= a.at

\* A hype window is refused only within ClipCooldown of an attempt for the same
\* name: refusals do not extend the cooldown, and other channels do not start it.
RefusedAfterAttempt ==
  \A s \in skipped : \E a \in attempts : a.chan = s.chan /\ s.at < a.at + ClipCooldown

\* A hype window is not acked before it led to an attempt or was refused: an
\* ack, after which JetStream forgets the window, loses none of them.
AckedWereDecided ==
  \A i \in acked : ready /\ stream[i].score = "hype" => \E d \in attempts \cup skipped : d.window = i

\* A window that was acked before AckWait was over is not clipped twice, nor
\* clipped by one copy and refused by another.
DecidedOnce ==
  \A d, e \in attempts \cup skipped : d.window = e.window /\ d.window \notin copied => d = e

\* The probability /status shows does not go back to that of an older window,
\* unless that window was pushed again: a copy of one window disturbs the order
\* of no other.
StatusNeverGoesBack ==
  [][\A c \in Names : lastProb'[c] < lastProb[c] => lastProb'[c] \in copied]_vars

Bus == INSTANCE Delivery WITH published <- Len(stream), inHand <- cur

\* The predict consumer is handed its windows as Delivery promises: JetStream's
\* pushes, the client's queue and the one goroutine keep windows in order and
\* skip none, and only an ack, once the handler has returned, lets go of one.
WindowsDelivered == Bus!Spec

\* A published window is acked in the end, unless a login is never answered.
WindowAcked ==
  \A i \in 1..MaxWindows :
    (i \in Windows) ~> (i \in acked \/ pc \in {"userLogin", "clipLogin"})
-----------------------------------------------------------------------------
\* A window leads to one clip at Twitch at most, as the project's text has it.
\* README: "creates a Helix clip when the model says the moment is worth saving".
OneClipPerWindow ==
  \A k, l \in clips : k.window = l.window => k = l
=============================================================================
