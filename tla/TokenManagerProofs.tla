------------------------- MODULE TokenManagerProofs -------------------------
(***************************************************************************)
(* Proofs about TokenManager for every set of callers and accounts and any *)
(* number of pairs and restarts.                                           *)
(***************************************************************************)
EXTENDS TokenManager, TLAPS

\* The locations of a caller inside EnsureValidToken.
Inside == Locations \ {"idle", "lock"}

\* A step of caller c inside, to l, that does not unlock.
Moves(c, l) ==
  /\ pc[c] \in Inside /\ l \in Inside
  /\ pc' = [pc EXCEPT ![c] = l]
  /\ UNCHANGED <<holder, process>>
-----------------------------------------------------------------------------
\* A pair that Twitch issues takes the next number; the pairs before keep theirs.
LEMMA IssueAppends ==
  ASSUME TypeOK, NEW a \in Accounts, NEW old, Issue(a, old)
  PROVE  /\ owner' \in Seq(Accounts)
         /\ Len(owner') = Len(owner) + 1
         /\ Len(owner') \in Pairs' /\ Pairs \subseteq Pairs'
         /\ \A g \in Pairs : g < Len(owner')
         /\ \A g \in Pairs' : owner'[g] \in Accounts
         /\ valid' \subseteq Pairs' /\ redeemable' \subseteq Pairs'
<1>1. owner \in Seq(Accounts) /\ owner' = Append(owner, a)
  BY DEF TypeOK, Issue
<1>2. owner' \in Seq(Accounts) /\ Len(owner') = Len(owner) + 1 /\ Len(owner) \in Nat
  BY <1>1
<1>3. Len(owner') \in Pairs' /\ Pairs \subseteq Pairs' /\ \A g \in Pairs : g < Len(owner')
  BY <1>2 DEF Pairs
<1>4. \A g \in Pairs' : owner'[g] \in Accounts
  BY <1>2 DEF Pairs
<1>5. valid' \subseteq valid \cup {Len(owner')} /\ redeemable' \subseteq redeemable \cup {Len(owner')}
  BY DEF Issue
<1>6. valid' \subseteq Pairs' /\ redeemable' \subseteq Pairs'
  BY <1>3, <1>5 DEF TypeOK
<1> QED
  BY <1>2, <1>3, <1>4, <1>6

LEMMA OwnerTyped ==
  ASSUME TypeOK
  PROVE  \A g \in Pairs : owner[g] \in Accounts
<1> SUFFICES ASSUME NEW g \in Pairs PROVE owner[g] \in Accounts
  OBVIOUS
<1>1. owner \in Seq(Accounts) /\ g \in 1..Len(owner)
  BY DEF TypeOK, Pairs
<1> QED
  BY <1>1

\* Twitch issues nothing: the set of pairs is the same.
LEMMA SamePairs ==
  ASSUME UNCHANGED owner
  PROVE  Pairs' = Pairs
BY DEF Pairs

\* The part of TypeOK about the callers and the mutex.
CallersOK ==
  /\ holder \in Callers \cup {None}
  /\ pc \in [Callers -> Locations]
  /\ \A c \in Callers : pc[c] \in {"idle", "lock"} <=> holder # c

\* Moving inside the mutex keeps the mutex with the caller.
LEMMA MovesKeepMutex ==
  ASSUME CallersOK, NEW c \in Callers, NEW l, Moves(c, l)
  PROVE  CallersOK'
BY DEF CallersOK, Moves, Inside, Locations

\* What every step does to the callers and to the mutex.
LEMMA CallersStep ==
  ASSUME CallersOK, [Next]_vars
  PROVE  CallersOK'
<1>1. CASE UNCHANGED <<holder, pc>>
  BY <1>1 DEF CallersOK
<1>2. CASE Expire \/ Cli \/ Start
  BY <1>2, <1>1 DEF Expire, Cli, CliExchange, CliValidate, CliTruncate, CliWrite, CliEnds, Start
<1>3. CASE End
  BY <1>3, TokenManagerAssumption DEF End, CallersOK, Locations
<1>4. ASSUME NEW c \in Callers, Call(c) PROVE CallersOK'
  BY <1>4 DEF Call, Goto, CallersOK, Locations
<1>5. ASSUME NEW c \in Callers, Lock(c) PROVE CallersOK'
  <2>1. /\ pc[c] = "lock" /\ holder = None /\ holder' = c
        /\ \E l \in {"login", "validate"} : pc' = [pc EXCEPT ![c] = l]
    BY <1>5 DEF Lock, MutexFree, Goto
  <2> QED
    BY <2>1, TokenManagerAssumption DEF CallersOK, Locations
<1>6. ASSUME NEW c \in Callers, Return(c) PROVE CallersOK'
  <2>1. pc[c] = "return" /\ holder' = None /\ pc' = [pc EXCEPT ![c] = "idle"]
    BY <1>6 DEF Return, Goto
  <2> QED
    BY <2>1, TokenManagerAssumption DEF CallersOK, Locations
<1>7. ASSUME NEW c \in Callers,
             \/ Validate(c) \/ Refresh(c) \/ ValidateNew(c) \/ Login(c) \/ Redirect(c)
             \/ Exchange(c) \/ ValidateLogin(c) \/ Truncate(c) \/ Write(c)
      PROVE  CallersOK'
  <2>1. CASE Validate(c)
    <3>1. \E l \in {"soon", "refresh", "login", "return"} : Moves(c, l)
      BY <2>1 DEF Validate, Goto, Moves, Inside, Locations
    <3> QED BY <3>1, MovesKeepMutex
  <2>2. CASE Refresh(c)
    <3>1. \E l \in {"truncate", "validateNew", "login", "return"} : Moves(c, l)
      BY <2>2 DEF Refresh, AfterRefresh, Goto, Moves, Inside, Locations
    <3> QED BY <3>1, MovesKeepMutex
  <2>3. CASE ValidateNew(c)
    <3>1. Moves(c, "truncate")
      BY <2>3 DEF ValidateNew, Goto, Moves, Inside, Locations
    <3> QED BY <3>1, MovesKeepMutex
  <2>4. CASE Login(c)
    <3>1. \E l \in {"redirect", "return"} : Moves(c, l)
      BY <2>4 DEF Login, AfterFailedLogin, Goto, Moves, Inside, Locations
    <3> QED BY <3>1, MovesKeepMutex
  <2>5. CASE Redirect(c)
    <3>1. \E l \in {"exchange", "return"} : Moves(c, l)
      BY <2>5 DEF Redirect, AfterFailedLogin, Goto, Moves, Inside, Locations
    <3> QED BY <3>1, MovesKeepMutex
  <2>6. CASE Exchange(c)
    <3>1. \E l \in {"validateLogin", "return"} : Moves(c, l)
      BY <2>6 DEF Exchange, AfterFailedLogin, Goto, Moves, Inside, Locations
    <3> QED BY <3>1, MovesKeepMutex
  <2>7. CASE ValidateLogin(c)
    <3>1. Moves(c, "truncate")
      BY <2>7 DEF ValidateLogin, Goto, Moves, Inside, Locations
    <3> QED BY <3>1, MovesKeepMutex
  <2>8. CASE Truncate(c)
    <3>1. \E l \in {"write", "return"} : Moves(c, l)
      BY <2>8 DEF Truncate, Goto, Moves, Inside, Locations
    <3> QED BY <3>1, MovesKeepMutex
  <2>9. CASE Write(c)
    <3>1. Moves(c, "return")
      BY <2>9 DEF Write, Goto, Moves, Inside, Locations
    <3> QED BY <3>1, MovesKeepMutex
  <2> QED
    BY <1>7, <2>1, <2>2, <2>3, <2>4, <2>5, <2>6, <2>7, <2>8, <2>9
<1> QED
  BY <1>1, <1>2, <1>3, <1>4, <1>5, <1>6, <1>7 DEF Next, Ensure, vars
-----------------------------------------------------------------------------
\* The part of TypeOK about Twitch, the file and the tokens.
TokensOK ==
  /\ owner \in Seq(Accounts)
  /\ valid \subseteq Pairs /\ redeemable \subseteq Pairs
  /\ file \in [pair : Pairs \cup {0}, user : Accounts \cup {None}]
  /\ lost \in BOOLEAN /\ newest \in Pairs \cup {0}
  /\ cliAt \in CliLocations /\ cliPair \in Pairs \cup {0}
  /\ cliAt # "idle" => cliPair \in Pairs
  /\ up \in BOOLEAN /\ secret \in BOOLEAN
  /\ token \in Pairs \cup {0}
  /\ user \in Accounts \cup {None}
  /\ pair \in [Callers -> Pairs \cup {0}]
  /\ replaced \subseteq Pairs

LEMMA TypeParts == TypeOK <=> CallersOK /\ TokensOK
BY DEF TypeOK, CallersOK, TokensOK

LEMMA NoFileTyped == NoFile \in [pair : {0}, user : {None}]
BY DEF NoFile

\* A step that issues no pair keeps what is known of Twitch.
LEMMA TwitchSame ==
  ASSUME TokensOK, UNCHANGED owner, valid' \subseteq valid, redeemable' \subseteq redeemable
  PROVE  /\ owner' \in Seq(Accounts) /\ Pairs' = Pairs
         /\ valid' \subseteq Pairs' /\ redeemable' \subseteq Pairs'
BY DEF TokensOK, Pairs

\* A complete write leaves its content or nothing that can be read.
LEMMA WrittenTyped ==
  ASSUME NEW content, NEW f \in Written(content)
  PROVE  f \in {content, NoFile}
BY DEF Written

LEMMA HasTyped ==
  ASSUME NEW S, newest \in S, NEW g \in S, Has(g)
  PROVE  token' = g /\ newest' \in S
BY DEF Has

\* A pair of type Pairs keeps its type when Twitch issues another.
LEMMA TypesKept ==
  ASSUME TokensOK, Pairs \subseteq Pairs'
  PROVE  /\ file \in [pair : Pairs' \cup {0}, user : Accounts \cup {None}]
         /\ newest \in Pairs' \cup {0} /\ token \in Pairs' \cup {0}
         /\ cliPair \in Pairs' \cup {0} /\ (cliAt # "idle" => cliPair \in Pairs')
         /\ pair \in [Callers -> Pairs' \cup {0}]
         /\ replaced \subseteq Pairs'
<1> DEFINE S == Pairs
           T == Pairs'
<1>1. S \subseteq T
  OBVIOUS
<1>2. /\ file \in [pair : S \cup {0}, user : Accounts \cup {None}]
      /\ newest \in S \cup {0} /\ token \in S \cup {0}
      /\ cliPair \in S \cup {0} /\ (cliAt # "idle" => cliPair \in S)
      /\ pair \in [Callers -> S \cup {0}]
      /\ replaced \subseteq S
  BY DEF TokensOK
<1> HIDE DEF S, T
<1>3. /\ file \in [pair : T \cup {0}, user : Accounts \cup {None}]
      /\ newest \in T \cup {0} /\ token \in T \cup {0}
      /\ cliPair \in T \cup {0} /\ (cliAt # "idle" => cliPair \in T)
      /\ pair \in [Callers -> T \cup {0}]
      /\ replaced \subseteq T
  BY <1>1, <1>2
<1> QED
  BY <1>3 DEF T

\* The steps of a caller inside.
LEMMA CallerTokens ==
  ASSUME TypeOK, NEW c \in Callers, Call(c) \/ Lock(c) \/ Redirect(c) \/ Ensure(c)
  PROVE  TokensOK'
<1> USE TypeParts
<1>1. CASE Call(c) \/ Login(c) \/ Redirect(c)
  <2>1. UNCHANGED <<twitch, disk, cli, process, memory, user, pair, replaced>>
    BY <1>1 DEF Call, Login, Redirect
  <2> QED BY <2>1 DEF TokensOK, Pairs, twitch, disk, cli, process, memory
<1>2. CASE Lock(c) \/ Return(c)
  <2>1. UNCHANGED <<twitch, disk, cli, process, memory, user, replaced>>
        /\ pair' \in [Callers -> Pairs \cup {0}]
    BY <1>2 DEF Lock, Return, TokensOK
  <2> QED BY <2>1 DEF TokensOK, Pairs, twitch, disk, cli, process, memory
<1>3. CASE Validate(c) \/ ValidateNew(c)
  <2>1. UNCHANGED <<twitch, disk, cli, process, memory, pair, replaced>>
        /\ (user' = user \/ (pair[c] \in valid /\ user' = owner[pair[c]]))
    BY <1>3 DEF Validate, ValidateNew
  <2>2. user' \in Accounts \cup {None}
    BY <2>1, OwnerTyped DEF TokensOK
  <2> QED BY <2>1, <2>2 DEF TokensOK, Pairs, twitch, disk, cli, process, memory
<1>4. CASE ValidateLogin(c)
  <2>1. UNCHANGED <<twitch, disk, cli, process, pair, replaced>> /\ Has(pair[c])
        /\ (user' = user \/ (pair[c] \in valid /\ user' = owner[pair[c]]))
    BY <1>4 DEF ValidateLogin
  <2>2. user' \in Accounts \cup {None} /\ pair[c] \in Pairs \cup {0}
    BY <2>1, OwnerTyped DEF TokensOK
  <2>3. token' \in Pairs \cup {0} /\ newest' \in Pairs \cup {0}
    BY <2>1, <2>2, HasTyped DEF TokensOK
  <2> QED BY <2>1, <2>2, <2>3 DEF TokensOK, Pairs, twitch, disk, cli, process
<1>5. CASE Refresh(c)
  <2>1. CASE UNCHANGED <<twitch, memory, pair, replaced>>
    BY <1>5, <2>1 DEF Refresh, TokensOK, Pairs, twitch, disk, cli, process, memory
  <2>2. CASE /\ pair[c] \in redeemable /\ Issue(owner[pair[c]], {pair[c]})
             /\ UNCHANGED memory \/ Has(Len(owner'))
             /\ pair' \in {pair, [pair EXCEPT ![c] = Len(owner')]}
             /\ replaced' \in {replaced, replaced \cup {pair[c]}}
    <3>1. owner[pair[c]] \in Accounts /\ pair[c] \in Pairs
      BY <2>2, OwnerTyped DEF TokensOK
    <3>2. /\ owner' \in Seq(Accounts) /\ Len(owner') \in Pairs' /\ Pairs \subseteq Pairs'
          /\ valid' \subseteq Pairs' /\ redeemable' \subseteq Pairs'
      BY <2>2, <3>1, IssueAppends
    <3>3. UNCHANGED <<disk, cli, process, user>>
      BY <1>5 DEF Refresh
    <3>4. token' \in Pairs' \cup {0} /\ newest' \in Pairs' \cup {0}
      BY <2>2, <3>2, TypesKept, HasTyped DEF memory
    <3>5. pair' \in [Callers -> Pairs' \cup {0}] /\ replaced' \subseteq Pairs'
      BY <2>2, <3>1, <3>2, TypesKept
    <3> QED BY <3>2, <3>3, <3>4, <3>5, TypesKept DEF TokensOK, disk, cli, process
  <2>3. pair' = [pair EXCEPT ![c] = token'] /\ Has(Len(owner'))
          => pair' = [pair EXCEPT ![c] = Len(owner')]
    BY DEF Has
  <2> QED BY <1>5, <2>1, <2>2, <2>3 DEF Refresh
<1>6. CASE Exchange(c)
  <2>1. CASE UNCHANGED <<twitch, pair>>
    BY <1>6, <2>1 DEF Exchange, TokensOK, Pairs, twitch, disk, cli, process, memory
  <2>2. ASSUME NEW a \in Accounts, Issue(a, {}), pair' = [pair EXCEPT ![c] = Len(owner')]
        PROVE  TokensOK'
    <3>1. /\ owner' \in Seq(Accounts) /\ Len(owner') \in Pairs' /\ Pairs \subseteq Pairs'
          /\ valid' \subseteq Pairs' /\ redeemable' \subseteq Pairs'
      BY <2>2, IssueAppends
    <3>2. UNCHANGED <<disk, cli, process, memory, user, replaced>>
      BY <1>6 DEF Exchange
    <3>3. pair' \in [Callers -> Pairs' \cup {0}]
      BY <2>2, <3>1, TypesKept
    <3> QED BY <3>1, <3>2, <3>3, TypesKept DEF TokensOK, disk, cli, process, memory
  <2> QED BY <1>6, <2>1, <2>2 DEF Exchange
<1>7. CASE Truncate(c)
  <2>1. UNCHANGED <<twitch, cli, process, memory, user, pair, replaced>>
        /\ file' \in {file, NoFile} /\ lost' \in BOOLEAN
    BY <1>7 DEF Truncate, TokensOK
  <2> QED BY <2>1, NoFileTyped DEF TokensOK, Pairs, twitch, cli, process, memory
<1>8. CASE Write(c)
  <2>1. UNCHANGED <<twitch, cli, process, memory, user, pair, replaced>>
        /\ file' \in {[pair |-> token, user |-> user], file, NoFile}
        /\ lost' \in BOOLEAN
    BY <1>8, WrittenTyped DEF Write
  <2> QED BY <2>1, NoFileTyped DEF TokensOK, Pairs, twitch, cli, process, memory
<1> QED
  BY <1>1, <1>2, <1>3, <1>4, <1>5, <1>6, <1>7, <1>8 DEF Ensure

\* The steps of auth-cli.
LEMMA CliTokens ==
  ASSUME TypeOK, Cli
  PROVE  TokensOK'
<1> USE TypeParts
<1>1. CASE CliExchange
  <2>1. PICK a \in Accounts : Issue(a, {})
    BY <1>1 DEF CliExchange
  <2>2. /\ owner' \in Seq(Accounts) /\ Len(owner') \in Pairs' /\ Pairs \subseteq Pairs'
        /\ valid' \subseteq Pairs' /\ redeemable' \subseteq Pairs'
    BY <2>1, IssueAppends
  <2>3. UNCHANGED <<disk, process, memory, user, pair, replaced>>
        /\ cliPair' = Len(owner') /\ cliAt' \in CliLocations
    BY <1>1 DEF CliExchange, CliLocations
  <2> QED BY <2>2, <2>3, TypesKept DEF TokensOK, disk, process, memory
<1>2. CASE CliValidate \/ CliTruncate \/ CliWrite \/ CliEnds
  <2>1. UNCHANGED <<twitch, process, memory, user, pair, replaced>>
    BY <1>2 DEF CliValidate, CliTruncate, CliWrite, CliEnds, disk
  <2>2. /\ lost' \in BOOLEAN /\ cliAt' \in CliLocations
        /\ cliPair' = cliPair \/ cliPair' = 0
        /\ cliAt' # "idle" => cliAt # "idle" /\ cliPair' = cliPair
    BY <1>2 DEF CliValidate, CliTruncate, CliWrite, CliEnds, CliLocations, disk, TokensOK
  <2>3. file' \in [pair : Pairs \cup {0}, user : Accounts \cup {None}]
    <3>1. CASE CliWrite
      <4>1. cliPair \in Pairs
        BY <3>1 DEF CliWrite, TokensOK
      <4>2. file' \in {[pair |-> cliPair, user |-> owner[cliPair]], file, NoFile}
        BY <3>1, WrittenTyped DEF CliWrite
      <4> QED BY <4>1, <4>2, NoFileTyped, OwnerTyped DEF TokensOK
    <3>2. CASE ~CliWrite
      BY <1>2, <3>2, NoFileTyped DEF CliValidate, CliTruncate, CliEnds, disk, TokensOK
    <3> QED BY <3>1, <3>2
  <2> QED BY <2>1, <2>2, <2>3 DEF TokensOK, Pairs, twitch, process, memory
<1> QED
  BY <1>1, <1>2 DEF Cli

\* TypeOK holds in every reachable state; in particular the mutex is always
\* with the one caller that is inside EnsureValidToken.
THEOREM TypeCorrect == Spec => []TypeOK
<1>1. Init => TypeOK
  <2> SUFFICES ASSUME Init PROVE TypeOK
    OBVIOUS
  <2>1. CallersOK
    BY TokenManagerAssumption DEF Init, CallersOK, Locations
  <2>2. owner \in Seq(Accounts) /\ file \in [pair : Pairs \cup {0}, user : Accounts \cup {None}]
    <3>1. CASE owner = <<>> /\ file = NoFile
      BY <3>1 DEF NoFile, Pairs
    <3>2. ASSUME NEW a \in Accounts, owner = <<a>>, file = [pair |-> 1, user |-> a]
          PROVE  owner \in Seq(Accounts) /\ file \in [pair : Pairs \cup {0}, user : Accounts \cup {None}]
      <4>1. owner \in Seq(Accounts) /\ Len(owner) = 1
        BY <3>2
      <4>2. 1 \in Pairs
        BY <4>1 DEF Pairs
      <4> QED BY <3>2, <4>1, <4>2
    <3> QED BY <3>1, <3>2 DEF Init
  <2>4. TokensOK
    BY <2>2 DEF Init, TokensOK, CliLocations
  <2> QED BY <2>1, <2>4, TypeParts
<1>2. TypeOK /\ [Next]_vars => TypeOK'
  <2> SUFFICES ASSUME TypeOK, [Next]_vars PROVE TokensOK'
    BY TypeParts, CallersStep DEF TypeOK, CallersOK, TokensOK
  <2> USE TypeParts
  <2>1. CASE UNCHANGED vars
    BY <2>1 DEF vars, TokensOK, Pairs
  <2>2. CASE Expire
    <3>1. UNCHANGED owner /\ valid' \subseteq valid /\ redeemable' \subseteq redeemable
      BY <2>2 DEF Expire
    <3> QED BY <2>2, <3>1, TwitchSame DEF Expire, TokensOK, disk, cli, process, memory
  <2>3. CASE Cli
    BY <2>3, CliTokens
  <2>4. CASE Start
    <3>1. file.pair \in Pairs \cup {0} /\ file.user \in Accounts \cup {None}
      BY DEF TokensOK
    <3>2. token' \in Pairs \cup {0} /\ newest' \in Pairs \cup {0}
      BY <2>4, <3>1, HasTyped DEF Start, TokensOK
    <3> QED BY <2>4, <3>1, <3>2 DEF Start, TokensOK, Pairs, twitch, disk, cli
  <2>5. CASE End
    BY <2>5 DEF End, TokensOK, Pairs, twitch, cli
  <2>6. ASSUME NEW c \in Callers, Call(c) \/ Lock(c) \/ Ensure(c) \/ Redirect(c)
        PROVE  TokensOK'
    BY <2>6, CallerTokens
  <2> QED BY <2>1, <2>2, <2>3, <2>4, <2>5, <2>6 DEF Next
<1> QED BY <1>1, <1>2, PTL DEF Spec
-----------------------------------------------------------------------------
\* A process that is down holds nothing and remembers nothing.
DownForgets ==
  ~up => holder = None /\ replaced = {} /\ \A c \in Callers : pc[c] = "idle"

\* The pairs this process has replaced are older than its token.
ReplacedOld == \A g \in replaced : g < token

\* A caller that validates or refreshes does so with the token of the manager,
\* a login brings a newer one than any before, and what is saved is the newest.
CallersCurrent ==
  \A c \in Callers :
    /\ pc[c] \in {"validate", "soon", "refresh"} => pair[c] = token
    /\ pc[c] = "validateLogin" => pair[c] > token /\ pair[c] > newest
    /\ pc[c] \in Saving => token = newest

IInv == TypeOK /\ DownForgets /\ ReplacedOld /\ CallersCurrent /\ FileNotBehind

\* The facts the steps below need of the current state.
LEMMA Numbers ==
  ASSUME TypeOK
  PROVE  /\ Len(owner) \in Nat /\ token \in Nat /\ file.pair \in Nat
         /\ token <= Len(owner) /\ file.pair <= Len(owner)
         /\ newest \in Nat /\ newest <= Len(owner)
         /\ \A g \in Pairs : g \in Nat /\ g <= Len(owner)
         /\ \A c \in Callers : pair[c] \in Nat /\ pair[c] <= Len(owner)
<1>1. Len(owner) \in Nat
  BY DEF TypeOK
<1>2. \A g \in Pairs \cup {0} : g \in Nat /\ g <= Len(owner)
  BY <1>1 DEF Pairs
<1>3. token \in Pairs \cup {0} /\ file.pair \in Pairs \cup {0} /\ newest \in Pairs \cup {0}
      /\ \A c \in Callers : pair[c] \in Pairs \cup {0}
  BY DEF TypeOK
<1> QED
  BY <1>1, <1>2, <1>3

\* While one caller is inside, the others are not.
LEMMA Alone ==
  ASSUME TypeOK, NEW c \in Callers, holder = c
  PROVE  \A d \in Callers \ {c} : pc[d] \in {"idle", "lock"}
BY DEF TypeOK

LEMMA InsideHolds ==
  ASSUME TypeOK, NEW c \in Callers, pc[c] \notin {"idle", "lock"}
  PROVE  holder = c
BY DEF TypeOK

LEMMA LengthGrows ==
  ASSUME TypeOK, NEW a \in Accounts, NEW old, Issue(a, old)
  PROVE  Len(owner') = Len(owner) + 1
BY IssueAppends

\* A pair that Twitch has just issued is newer than what chat-cli has had.
LEMMA HasIssued ==
  ASSUME TypeOK, NEW a \in Accounts, NEW old, Issue(a, old)
  PROVE  /\ Len(owner') > token /\ Len(owner') > newest
         /\ Has(Len(owner')) => token' = Len(owner') /\ newest' = Len(owner')
<1>1. Len(owner') = Len(owner) + 1
  BY LengthGrows
<1> DEFINE n == Len(owner')
<1>2. n = Len(owner) + 1
  BY <1>1
<1> HIDE DEF n
<1>3. n > token /\ n > newest
  BY <1>2, Numbers
<1>4. Has(n) => token' = n /\ newest' = n
  BY <1>3 DEF Has
<1> QED
  BY <1>3, <1>4 DEF n

\* A step of a caller inside that leaves the token and the file alone.
LEMMA QuietStep ==
  ASSUME IInv, NEW c \in Callers, NEW l, holder = c, up,
         pc' = [pc EXCEPT ![c] = l],
         UNCHANGED <<token, newest, pair, replaced, up, holder>>,
         l \in {"soon", "refresh"} => pc[c] = "validate",
         l \notin {"validate", "validateLogin"},
         l \in Saving => pc[c] \in Saving,
         \/ lost' \/ l \in Saving \/ file'.pair >= newest
         \/ UNCHANGED <<lost, file>> /\ pc[c] \notin Saving
  PROVE  DownForgets' /\ ReplacedOld' /\ CallersCurrent' /\ FileNotBehind'
<1>1. DownForgets' /\ ReplacedOld'
  BY DEF IInv, DownForgets, ReplacedOld
<1>2. pc \in [Callers -> Locations]
  BY DEF IInv, TypeOK
<1>3. CallersCurrent'
  BY <1>2 DEF IInv, CallersCurrent
<1>4. FileNotBehind'
  BY <1>2 DEF IInv, FileNotBehind
<1> QED
  BY <1>1, <1>3, <1>4

\* The steps of the callers.
LEMMA CallerStep ==
  ASSUME IInv, NEW c \in Callers, Call(c) \/ Lock(c) \/ Redirect(c) \/ Ensure(c)
  PROVE  DownForgets' /\ ReplacedOld' /\ CallersCurrent' /\ FileNotBehind'
<1> USE TokenManagerAssumption
<1>1. TypeOK /\ pc \in [Callers -> Locations] /\ pair \in [Callers -> Pairs \cup {0}]
  BY DEF IInv, TypeOK
<1>2. pc[c] \notin {"idle", "lock"} =>
        holder = c /\ up /\ \A d \in Callers \ {c} : pc[d] \in {"idle", "lock"}
  BY <1>1, InsideHolds, Alone DEF IInv, DownForgets
<1>3. CASE Call(c)
  <2>1. up /\ pc' = [pc EXCEPT ![c] = "lock"] /\ pc[c] = "idle"
        /\ UNCHANGED <<file, lost, newest, up, token, holder, pair, replaced>>
    BY <1>3 DEF Call, Goto, disk, process, memory
  <2> QED BY <1>1, <2>1 DEF IInv, DownForgets, ReplacedOld, CallersCurrent, FileNotBehind, Saving
<1>4. CASE Lock(c)
  <2>1. /\ pc[c] = "lock" /\ holder = None
        /\ \E l \in {"login", "validate"} : pc' = [pc EXCEPT ![c] = l]
        /\ pair' = [pair EXCEPT ![c] = token]
        /\ UNCHANGED <<file, lost, newest, up, token, replaced>>
    BY <1>4 DEF Lock, MutexFree, Goto, disk, process, memory
  <2>2. up
    BY <2>1 DEF IInv, DownForgets
  <2> QED BY <1>1, <2>1, <2>2
          DEF IInv, DownForgets, ReplacedOld, CallersCurrent, FileNotBehind, Saving
<1>5. CASE Return(c)
  <2>1. pc[c] = "return" /\ pc' = [pc EXCEPT ![c] = "idle"] /\ pair' = [pair EXCEPT ![c] = 0]
        /\ UNCHANGED <<file, lost, newest, up, token, replaced>>
    BY <1>5 DEF Return, Goto, disk, process, memory
  <2> QED BY <1>1, <1>2, <2>1
          DEF IInv, DownForgets, ReplacedOld, CallersCurrent, FileNotBehind, Saving
<1>6. CASE Validate(c)
  <2>1. /\ pc[c] = "validate"
        /\ \E l \in {"soon", "refresh", "login", "return"} : pc' = [pc EXCEPT ![c] = l]
        /\ UNCHANGED <<file, lost, newest, up, token, holder, pair, replaced>>
    BY <1>6 DEF Validate, Goto, disk, process, memory
  <2> QED BY <1>2, <2>1, QuietStep DEF Saving
<1>7. CASE ValidateNew(c)
  <2>1. pc[c] = "validateNew" /\ pc' = [pc EXCEPT ![c] = "truncate"]
        /\ UNCHANGED <<file, lost, newest, up, token, holder, pair, replaced>>
    BY <1>7 DEF ValidateNew, Goto, disk, process, memory
  <2> QED BY <1>2, <2>1, QuietStep DEF Saving
<1>8. CASE Login(c) \/ Redirect(c)
  <2>1. /\ pc[c] \in {"login", "redirect"}
        /\ \E l \in {"redirect", "exchange", "return"} : pc' = [pc EXCEPT ![c] = l]
        /\ UNCHANGED <<file, lost, newest, up, token, holder, pair, replaced>>
    BY <1>8 DEF Login, Redirect, AfterFailedLogin, Goto, disk, process, memory
  <2> QED BY <1>2, <2>1, QuietStep DEF Saving
<1>9. CASE Refresh(c)
  <2>1. pc[c] \in {"soon", "refresh"} /\ UNCHANGED <<file, lost, up, holder>>
    BY <1>9 DEF Refresh, disk, process
  <2>2. CASE UNCHANGED <<token, newest, pair, replaced>> /\
             \E l \in {"login", "return"} : pc' = [pc EXCEPT ![c] = l]
    BY <1>2, <2>1, <2>2, QuietStep DEF Saving
  <2>3. CASE /\ pair[c] \in redeemable /\ Issue(owner[pair[c]], {pair[c]})
             /\ Has(Len(owner')) /\ pair' = [pair EXCEPT ![c] = token']
             /\ replaced' = replaced \cup {pair[c]}
             /\ \E l \in {"truncate", "validateNew"} : pc' = [pc EXCEPT ![c] = l]
    <3>1. pair[c] \in Pairs
      BY <1>1, <2>3 DEF TypeOK
    <3>2. Len(owner') = Len(owner) + 1 /\ token' = Len(owner') /\ newest' = token'
      BY <1>1, <2>3, <3>1, OwnerTyped, LengthGrows, HasIssued
    <3>3. ReplacedOld'
      <4>1. \A g \in replaced : g \in Nat /\ g <= Len(owner)
        BY <1>1, Numbers DEF TypeOK
      <4> QED BY <1>1, <2>3, <3>1, <3>2, <4>1, Numbers DEF ReplacedOld
    <3>4. DownForgets' /\ CallersCurrent' /\ FileNotBehind'
      BY <1>1, <1>2, <2>1, <2>3, <3>2
         DEF DownForgets, CallersCurrent, FileNotBehind, Saving
    <3> QED BY <3>3, <3>4
  <2> QED BY <1>9, <2>2, <2>3 DEF Refresh, AfterRefresh, Goto, memory
<1>10. CASE Exchange(c)
  <2>1. pc[c] = "exchange" /\ UNCHANGED <<file, lost, newest, up, token, holder, replaced>>
    BY <1>10 DEF Exchange, disk, process, memory
  <2>2. CASE UNCHANGED pair /\ pc' = [pc EXCEPT ![c] = "return"]
    BY <1>2, <2>1, <2>2, QuietStep DEF Saving
  <2>3. ASSUME NEW a \in Accounts, Issue(a, {}), pair' = [pair EXCEPT ![c] = Len(owner')],
               pc' = [pc EXCEPT ![c] = "validateLogin"]
        PROVE  DownForgets' /\ ReplacedOld' /\ CallersCurrent' /\ FileNotBehind'
    <3>1. Len(owner') > token /\ Len(owner') > newest
      BY <1>1, <2>3, HasIssued
    <3> QED BY <1>1, <1>2, <2>1, <2>3, <3>1
            DEF IInv, DownForgets, ReplacedOld, CallersCurrent, FileNotBehind, Saving
  <2> QED BY <1>10, <2>2, <2>3 DEF Exchange, AfterFailedLogin, Goto
<1>11. CASE ValidateLogin(c)
  <2>1. /\ pc[c] = "validateLogin" /\ pc' = [pc EXCEPT ![c] = "truncate"]
        /\ Has(pair[c])
        /\ UNCHANGED <<file, lost, up, holder, pair, replaced>>
    BY <1>11 DEF ValidateLogin, Goto, disk, process
  <2>2. pair[c] > token /\ pair[c] > newest /\ pair[c] \in Nat
    BY <1>1, <2>1, Numbers DEF IInv, CallersCurrent
  <2>3. token' = pair[c] /\ newest' = token' /\ token' > token /\ token' \in Nat
    BY <2>1, <2>2 DEF Has
  <2>4. ReplacedOld'
    <3>1. \A g \in replaced : g \in Nat
      BY <1>1, Numbers DEF TypeOK
    <3> QED BY <1>1, <2>1, <2>3, <3>1, Numbers DEF IInv, ReplacedOld
  <2> QED BY <1>1, <1>2, <2>1, <2>3, <2>4 DEF DownForgets, CallersCurrent, FileNotBehind, Saving
<1>12. CASE Truncate(c)
  <2>1. /\ pc[c] = "truncate" /\ UNCHANGED <<up, token, newest, holder, pair, replaced>>
        /\ \E l \in {"write", "return"} :
             pc' = [pc EXCEPT ![c] = l] /\ (l = "write" \/ lost')
    BY <1>12 DEF Truncate, Goto, process, memory
  <2> QED BY <1>2, <2>1, QuietStep DEF Saving
<1>13. CASE Write(c)
  <2>1. /\ pc[c] = "write" /\ pc' = [pc EXCEPT ![c] = "return"]
        /\ UNCHANGED <<up, token, newest, holder, pair, replaced>>
    BY <1>13 DEF Write, Goto, process, memory
  <2>2. lost' \/ file'.pair = token
    <3>1. CASE file' \in Written([pair |-> token, user |-> user]) /\ lost' = (file' = NoFile)
      <4>1. file' = [pair |-> token, user |-> user] \/ file' = NoFile
        BY <3>1 DEF Written
      <4>2. file' = NoFile => lost'
        BY <3>1, Zenon
      <4>3. [pair |-> token, user |-> user].pair = token
        OBVIOUS
      <4> QED BY <4>1, <4>2, <4>3, Zenon
    <3>2. CASE lost' = TRUE
      BY <3>2, Zenon
    <3> QED BY <1>13, <3>1, <3>2 DEF Write
  <2>3. token = newest /\ newest \in Nat
    BY <1>1, <2>1, Numbers DEF IInv, CallersCurrent, Saving
  <2>4. lost' \/ file'.pair >= newest
    BY <2>2, <2>3
  <2>5. holder = c /\ up
    BY <1>2, <2>1
  <2> QED BY <2>1, <2>4, <2>5, QuietStep DEF Saving
<1> QED
  BY <1>3, <1>4, <1>5, <1>6, <1>7, <1>8, <1>9, <1>10, <1>11, <1>12, <1>13 DEF Ensure

\* The steps of auth-cli touch nothing but the file; where it leaves an older pair
\* there it is lost by definition.
LEMMA CliStep ==
  ASSUME IInv, Cli
  PROVE  DownForgets' /\ ReplacedOld' /\ CallersCurrent' /\ FileNotBehind'
<1>1. UNCHANGED <<up, token, newest, holder, pc, pair, replaced>>
  BY DEF Cli, CliExchange, CliValidate, CliTruncate, CliWrite, CliEnds, process, memory
<1>2. DownForgets' /\ ReplacedOld' /\ CallersCurrent'
  BY <1>1 DEF IInv, DownForgets, ReplacedOld, CallersCurrent
<1>3. CASE CliExchange \/ CliValidate \/ CliEnds
  BY <1>1, <1>2, <1>3 DEF CliExchange, CliValidate, CliEnds, disk, IInv, FileNotBehind
<1>4. CASE CliTruncate
  BY <1>2, <1>4 DEF CliTruncate, FileNotBehind
<1>5. CASE CliWrite
  <2>1. lost' \/ (file'.pair = cliPair /\ ~(cliPair < newest))
    <3>1. CASE /\ file' \in Written([pair |-> cliPair, user |-> owner[cliPair]])
               /\ lost' = (file' = NoFile \/ cliPair < newest)
      <4>1. file' = [pair |-> cliPair, user |-> owner[cliPair]] \/ file' = NoFile
        BY <3>1 DEF Written
      <4>2. file' = NoFile \/ cliPair < newest => lost'
        BY <3>1, Zenon
      <4>3. [pair |-> cliPair, user |-> owner[cliPair]].pair = cliPair
        OBVIOUS
      <4> QED BY <4>1, <4>2, <4>3, Zenon
    <3>2. CASE lost' = TRUE
      BY <3>2, Zenon
    <3> QED BY <1>5, <3>1, <3>2 DEF CliWrite
  <2>2. cliPair \in Nat /\ newest \in Nat
    <3>1. cliPair \in Pairs \cup {0}
      BY DEF IInv, TypeOK
    <3> QED BY <3>1, Numbers DEF IInv
  <2>3. lost' \/ file'.pair >= newest
    BY <2>1, <2>2
  <2> QED BY <1>1, <1>2, <2>3 DEF FileNotBehind
<1> QED
  BY <1>2, <1>3, <1>4, <1>5 DEF Cli

LEMMA Invariance == Spec => []IInv
<1>1. Init => DownForgets /\ ReplacedOld /\ CallersCurrent /\ FileNotBehind
  <2> SUFFICES ASSUME Init PROVE DownForgets /\ ReplacedOld /\ CallersCurrent /\ FileNotBehind
    OBVIOUS
  <2>1. newest = 0 /\ file.pair \in {0, 1}
    BY DEF Init, NoFile
  <2>2. FileNotBehind
    BY <2>1 DEF FileNotBehind
  <2> QED BY <2>2 DEF Init, DownForgets, ReplacedOld, CallersCurrent, Saving
<1>2. IInv /\ [Next]_vars => DownForgets' /\ ReplacedOld' /\ CallersCurrent' /\ FileNotBehind'
  <2> SUFFICES ASSUME IInv, [Next]_vars
               PROVE  DownForgets' /\ ReplacedOld' /\ CallersCurrent' /\ FileNotBehind'
    OBVIOUS
  <2>1. CASE UNCHANGED <<file, lost, newest, up, token, holder, pc, pair, replaced>>
    BY <2>1 DEF IInv, DownForgets, ReplacedOld, CallersCurrent, FileNotBehind
  <2>2. CASE UNCHANGED vars \/ Expire
    BY <2>1, <2>2 DEF vars, Expire, disk, process, memory
  <2>3. CASE Cli
    BY <2>3, CliStep
  <2>4. CASE Start
    <3>1. file.pair \in Nat /\ newest \in Nat
      BY Numbers DEF IInv
    <3>2. token' = file.pair /\ newest' = (IF file.pair > newest THEN file.pair ELSE newest)
      BY <2>4 DEF Start, Has
    <3>3. UNCHANGED <<file, lost, holder, pc, pair, replaced>> /\ ~up /\ up'
      BY <2>4 DEF Start, disk
    <3>4. \A c \in Callers : pc[c] = "idle"
      BY <3>3 DEF IInv, DownForgets
    <3>5. DownForgets' /\ ReplacedOld' /\ CallersCurrent'
      BY <3>3, <3>4 DEF IInv, DownForgets, ReplacedOld, CallersCurrent, Saving
    <3>6. FileNotBehind'
      BY <3>1, <3>2, <3>3, <3>4 DEF IInv, FileNotBehind, Saving
    <3> QED BY <3>5, <3>6
  <2>5. CASE End
    <3>1. DownForgets' /\ ReplacedOld' /\ CallersCurrent'
      BY <2>5 DEF End, DownForgets, ReplacedOld, CallersCurrent, Saving
    <3>2. FileNotBehind'
      BY <2>5 DEF End, IInv, FileNotBehind
    <3> QED BY <3>1, <3>2
  <2>6. ASSUME NEW c \in Callers, Call(c) \/ Lock(c) \/ Ensure(c) \/ Redirect(c)
        PROVE  DownForgets' /\ ReplacedOld' /\ CallersCurrent' /\ FileNotBehind'
    BY <2>6, CallerStep
  <2> QED BY <2>2, <2>3, <2>4, <2>5, <2>6 DEF Next
<1>3. Spec => []TypeOK
  BY TypeCorrect
<1> QED
  BY <1>1, <1>2, <1>3, PTL DEF Spec, IInv

\* No refresh token is presented to Twitch once this process has a newer pair
\* for it, for any number of concurrent calls of GetValidAccessToken.
THEOREM RefreshedOnceCorrect == Spec => []RefreshedOnce
<1>1. IInv => RefreshedOnce
  <2> SUFFICES ASSUME IInv, NEW c \in Callers, pc[c] \in {"soon", "refresh"}
               PROVE  pair[c] \notin replaced
    BY DEF RefreshedOnce
  <2>1. pair[c] = token /\ token \in Nat
    BY Numbers DEF IInv, CallersCurrent
  <2> QED BY <2>1 DEF IInv, ReplacedOld
<1> QED
  BY <1>1, Invariance, PTL

\* token.json has the newest pair any chat-cli has had, while calls, restarts and
\* logins of auth-cli interleave, but for a call about to save and for the losses
\* that FileNotBehind names.
THEOREM FileNotBehindCorrect == Spec => []FileNotBehind
<1>1. IInv => FileNotBehind
  BY DEF IInv
<1> QED
  BY <1>1, Invariance, PTL

\* The manager's token is never replaced by an older one, whichever of the calls
\* under way ends last.
THEOREM TokenNeverGoesBackCorrect == Spec => TokenNeverGoesBack
<1>1. IInv /\ [Next]_vars => [up /\ up' => token <= token']_vars
  <2> SUFFICES ASSUME IInv, Next, up, up' PROVE token <= token'
    OBVIOUS
  <2>1. TypeOK /\ token \in Nat /\ token <= Len(owner) /\ Len(owner) \in Nat
    BY Numbers DEF IInv
  <2>2. CASE token' = token
    BY <2>1, <2>2
  <2>3. ASSUME NEW c \in Callers, ValidateLogin(c) PROVE token <= token'
    <3>1. token' = pair[c] /\ pair[c] > token /\ pair[c] \in Nat
      BY <2>1, <2>3, Numbers DEF ValidateLogin, Has, IInv, CallersCurrent
    <3> QED BY <2>1, <3>1
  <2>4. ASSUME NEW c \in Callers, Refresh(c) PROVE token <= token'
    <3>1. CASE pair[c] \in redeemable /\ Issue(owner[pair[c]], {pair[c]}) /\ Has(Len(owner'))
      <4>1. owner[pair[c]] \in Accounts
        BY <2>1, <3>1, OwnerTyped DEF TypeOK
      <4>2. token' = Len(owner') /\ Len(owner') = Len(owner) + 1
        BY <2>1, <3>1, <4>1, LengthGrows DEF Has
      <4> QED BY <2>1, <3>1, <4>2
    <3> QED BY <2>2, <2>4, <3>1 DEF Refresh, memory
  <2>5. CASE Start
    BY <2>5 DEF Start
  <2>6. CASE Expire \/ Cli \/ End
    BY <2>2, <2>6 DEF Expire, Cli, CliExchange, CliValidate, CliTruncate, CliWrite, CliEnds,
                      End, memory
  <2>7. ASSUME NEW c \in Callers,
               \/ Call(c) \/ Lock(c) \/ Redirect(c) \/ Validate(c) \/ ValidateNew(c)
               \/ Login(c) \/ Exchange(c) \/ Truncate(c) \/ Write(c) \/ Return(c)
        PROVE  token' = token
    BY <2>7 DEF Call, Lock, Redirect, Validate, ValidateNew, Login, Exchange, Truncate,
                Write, Return, memory
  <2> QED BY <2>2, <2>3, <2>4, <2>5, <2>6, <2>7 DEF Next, Ensure
<1> QED
  BY <1>1, Invariance, PTL DEF Spec, TokenNeverGoesBack
=============================================================================
