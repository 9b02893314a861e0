---------------------------- MODULE TokenManager ----------------------------
(***************************************************************************)
(* auth.TokenManager (manager.go, client.go): the token that every Helix   *)
(* call asks for.  EnsureValidToken keeps the mutex through its requests   *)
(* to Twitch, the browser login and the writing of token.json; the process *)
(* may end between any two of them, and auth-cli (main.go) logs in and     *)
(* writes the same file at its own pace.                                   *)
(*                                                                         *)
(* An access token and the refresh token issued with it are one number, in *)
(* the order Twitch issued them; 0 is none.  The client id and the secret  *)
(* come from the environment, where both programs look first.              *)
(***************************************************************************)
EXTENDS Integers, Sequences

CONSTANTS
  Callers,   \* goroutines that ask for a token: main, the predict handler, /clip
  Accounts,  \* Twitch accounts the operator may log in with
  MaxPairs,  \* bound: pairs Twitch issues
  None       \* no account, nobody

ASSUME TokenManagerAssumption ==
  /\ MaxPairs \in Nat
  /\ None \notin Accounts \cup Callers

VARIABLES
  owner,       \* at Twitch: the account of each pair issued
  valid,       \* at Twitch: pairs whose access token is accepted
  redeemable,  \* at Twitch: pairs whose refresh token is accepted
  file,        \* token.json: its pair (0 when missing or cut off) and its username
  lost,        \* history: token.json has lost the newest pair (see FileNotBehind)
  newest,      \* history: the newest pair that a chat-cli has had
  cliAt,       \* where auth-cli is, which runs once at a time
  cliPair,     \* auth-cli's token, 0 for none
  up,          \* chat-cli is running
  secret,      \* client id and secret are set
  token,       \* TokenManager.token
  user,        \* TokenManager.username
  holder,      \* who holds TokenManager.mu
  pc,          \* where each caller is
  pair,        \* per caller: the pair its call works on, 0 for none
  replaced     \* history: pairs this process has exchanged for newer ones

vars == <<owner, valid, redeemable, file, lost, newest, cliAt, cliPair, up, secret,
          token, user, holder, pc, pair, replaced>>

twitch == <<owner, valid, redeemable>>
disk == <<file, lost>>
cli == <<cliAt, cliPair>>
memory == <<token, newest>>
process == <<up, secret>>

Pairs == 1..Len(owner)
NoFile == [pair |-> 0, user |-> None]
Locations == {"idle", "lock", "validate", "soon", "refresh", "validateNew", "login",
              "redirect", "exchange", "validateLogin", "truncate", "write", "return"}
Saving == {"validateNew", "truncate", "write"}
CliLocations == {"idle", "validate", "truncate", "write"}

Goto(c, l) == pc' = [pc EXCEPT ![c] = l]

\* chat-cli has pair g.
Has(g) ==
  /\ token' = g
  /\ newest' = IF g > newest THEN g ELSE newest

\* What a complete write leaves: over what the other program wrote since this one
\* emptied the file, a shorter text leaves the end of a longer, and it is no JSON.
Written(content) == IF file = NoFile THEN {content} ELSE {content, NoFile}
-----------------------------------------------------------------------------
\* Twitch issues a pair to account a; the pair it replaces may or may not stay
\* accepted.
Issue(a, old) ==
  /\ Len(owner) < MaxPairs
  /\ owner' = Append(owner, a)
  /\ valid' \in {valid \cup {Len(owner')}, (valid \ old) \cup {Len(owner')}}
  /\ redeemable' \in {redeemable \cup {Len(owner')}, (redeemable \ old) \cup {Len(owner')}}

\* An access token expires, or the account disconnects the application.
Expire ==
  /\ \E g \in Pairs :
       /\ valid' = valid \ {g}
       /\ redeemable' \in {redeemable, redeemable \ {g}}
  /\ UNCHANGED <<owner, disk, cli, process, memory, user, holder, pc, pair, replaced>>

\* auth-cli exchanges the code of its login.
CliExchange ==
  /\ secret
  /\ cliAt = "idle"
  /\ \E a \in Accounts : Issue(a, {})
  /\ cliPair' = Len(owner')
  /\ cliAt' = "validate"
  /\ UNCHANGED <<disk, process, memory, user, holder, pc, pair, replaced>>

\* Without a validation the program exits and saves nothing: that is CliEnds.
CliValidate ==
  /\ cliAt = "validate"
  /\ cliPair \in valid
  /\ cliAt' = "truncate"
  /\ UNCHANGED <<twitch, disk, cliPair, process, memory, user, holder, pc, pair, replaced>>

\* os.WriteFile empties the file when it opens it ...
CliTruncate ==
  /\ cliAt = "truncate"
  /\ file' = NoFile
  /\ lost' = TRUE
  /\ cliAt' = "write"
  /\ UNCHANGED <<twitch, cliPair, process, memory, user, holder, pc, pair, replaced>>

\* ... and then writes it, the failure of either being ignored.  The pair may be
\* older by now than chat-cli's.
CliWrite ==
  /\ cliAt = "write"
  /\ \/ /\ file' \in Written([pair |-> cliPair, user |-> owner[cliPair]])
        /\ lost' = (file' = NoFile \/ cliPair < newest)
     \/ /\ file' \in {file, NoFile}
        /\ lost' = TRUE
  /\ cliAt' = "idle"
  /\ cliPair' = 0
  /\ UNCHANGED <<twitch, process, memory, user, holder, pc, pair, replaced>>

\* auth-cli ends before its write, or cannot open the file.
CliEnds ==
  /\ cliAt # "idle"
  /\ cliAt' = "idle"
  /\ cliPair' = 0
  /\ UNCHANGED <<twitch, disk, process, memory, user, holder, pc, pair, replaced>>
-----------------------------------------------------------------------------
\* NewTokenManager with loadFromDisk: the file is believed, its username too.
Start ==
  /\ ~up
  /\ up' = TRUE
  /\ Has(file.pair)
  /\ user' = file.user
  /\ UNCHANGED <<twitch, disk, cli, secret, holder, pc, pair, replaced>>

\* The process ends, at any point of any call.  A pair not saved yet is lost.
End ==
  /\ up
  /\ up' = FALSE
  /\ holder' = None
  /\ pc' = [c \in Callers |-> "idle"]
  /\ pair' = [c \in Callers |-> 0]
  /\ token' = 0 /\ user' = None
  /\ replaced' = {}
  /\ lost' = (lost \/ \E c \in Callers : pc[c] \in Saving)
  /\ UNCHANGED <<twitch, file, newest, cli, secret>>

\* GetValidAccessToken is called.
Call(c) ==
  /\ up
  /\ pc[c] = "idle"
  /\ Goto(c, "lock")
  /\ UNCHANGED <<twitch, disk, cli, process, memory, user, holder, pair, replaced>>

\* Mutant: EnsureValidToken does not lock.
MutexFreeAlways == TRUE

MutexFree == holder = None

Lock(c) ==
  /\ pc[c] = "lock"
  /\ MutexFree
  /\ holder' = c
  /\ pair' = [pair EXCEPT ![c] = token]
  /\ Goto(c, IF token = 0 THEN "login" ELSE "validate")
  /\ UNCHANGED <<twitch, disk, cli, process, memory, user, replaced>>

\* The request may fail though the token is valid.  With less than five
\* minutes left the token is refreshed at once, by the caller itself.
Validate(c) ==
  /\ pc[c] = "validate"
  /\ \/ /\ pair[c] \in valid
        /\ user' = owner[pair[c]]
        /\ \E l \in {"soon", "return"} : (l = "soon" => secret) /\ Goto(c, l)
     \/ /\ UNCHANGED user
        /\ Goto(c, IF secret THEN "refresh" ELSE "login")
  /\ UNCHANGED <<twitch, disk, cli, process, memory, holder, pair, replaced>>

\* Mutant: a token refreshed ahead of time is not written to the file.
AfterRefreshUnsaved(c) == IF pc[c] = "soon" THEN "return" ELSE "validateNew"

AfterRefresh(c) == IF pc[c] = "soon" THEN "truncate" ELSE "validateNew"

\* The refresh request: granted, or granted with the reply lost, or refused.
Refresh(c) ==
  /\ pc[c] \in {"soon", "refresh"}
  /\ \/ /\ pair[c] \in redeemable
        /\ Issue(owner[pair[c]], {pair[c]})
        /\ \/ /\ Has(Len(owner'))
              /\ pair' = [pair EXCEPT ![c] = token']
              /\ replaced' = replaced \cup {pair[c]}
              /\ Goto(c, AfterRefresh(c))
           \/ /\ UNCHANGED <<memory, pair, replaced>>
              /\ Goto(c, IF pc[c] = "soon" THEN "return" ELSE "login")
     \/ /\ Goto(c, IF pc[c] = "soon" THEN "return" ELSE "login")
        /\ UNCHANGED <<twitch, memory, pair, replaced>>
  /\ UNCHANGED <<disk, cli, process, user, holder>>

\* The token is kept whether or not its validation succeeds.
ValidateNew(c) ==
  /\ pc[c] = "validateNew"
  /\ \/ pair[c] \in valid /\ user' = owner[pair[c]]
     \/ UNCHANGED user
  /\ Goto(c, "truncate")
  /\ UNCHANGED <<twitch, disk, cli, process, memory, holder, pair, replaced>>
-----------------------------------------------------------------------------
\* Mutant: a failed login returns without unlocking the mutex.
AfterFailedLoginLocked == "idle"

AfterFailedLogin == "return"

\* loginViaBrowser up to its wait: without a secret, or when the callback port
\* is taken, it fails.
Login(c) ==
  /\ pc[c] = "login"
  /\ \/ secret /\ Goto(c, "redirect")
     \/ Goto(c, AfterFailedLogin)
  /\ UNCHANGED <<twitch, disk, cli, process, memory, user, holder, pair, replaced>>

\* The browser is redirected to the callback server, with a code or an error.
Redirect(c) ==
  /\ pc[c] = "redirect"
  /\ Goto(c, "exchange") \/ Goto(c, AfterFailedLogin)
  /\ UNCHANGED <<twitch, disk, cli, process, memory, user, holder, pair, replaced>>

\* The code is exchanged for a pair of whichever account logged in.
Exchange(c) ==
  /\ pc[c] = "exchange"
  /\ \/ /\ \E a \in Accounts : Issue(a, {})
        /\ pair' = [pair EXCEPT ![c] = Len(owner')]
        /\ Goto(c, "validateLogin")
     \/ /\ Goto(c, AfterFailedLogin)
        /\ UNCHANGED <<twitch, pair>>
  /\ UNCHANGED <<disk, cli, process, memory, user, holder, replaced>>

\* A failed validation leaves the username as it was.
ValidateLogin(c) ==
  /\ pc[c] = "validateLogin"
  /\ \/ pair[c] \in valid /\ user' = owner[pair[c]]
     \/ UNCHANGED user
  /\ Has(pair[c])
  /\ Goto(c, "truncate")
  /\ UNCHANGED <<twitch, disk, cli, process, holder, pair, replaced>>
-----------------------------------------------------------------------------
\* saveToDisk: os.WriteFile empties the file when it opens it ...
Truncate(c) ==
  /\ pc[c] = "truncate"
  /\ \/ /\ file' = NoFile
        /\ Goto(c, "write")
        /\ UNCHANGED lost
     \/ /\ lost' = TRUE
        /\ Goto(c, "return")
        /\ UNCHANGED file
  /\ UNCHANGED <<twitch, cli, process, memory, user, holder, pair, replaced>>

\* ... and then writes it.  A failure of either is ignored, until the next save.
Write(c) ==
  /\ pc[c] = "write"
  /\ \/ /\ file' \in Written([pair |-> token, user |-> user])
        /\ lost' = (file' = NoFile)
     \/ /\ file' \in {file, NoFile}
        /\ lost' = TRUE
  /\ Goto(c, "return")
  /\ UNCHANGED <<twitch, cli, process, memory, user, holder, pair, replaced>>

\* The deferred Unlock.
Return(c) ==
  /\ pc[c] = "return"
  /\ holder' = None
  /\ pair' = [pair EXCEPT ![c] = 0]
  /\ Goto(c, "idle")
  /\ UNCHANGED <<twitch, disk, cli, process, memory, user, replaced>>

Init ==
  /\ \/ owner = <<>> /\ file = NoFile
     \/ \E a \in Accounts :
          owner = <<a>> /\ file = [pair |-> 1, user |-> a]
  /\ valid \in SUBSET Pairs /\ redeemable \in SUBSET Pairs
  /\ lost = FALSE /\ newest = 0
  /\ cliAt = "idle" /\ cliPair = 0
  /\ up = FALSE
  /\ secret \in BOOLEAN
  /\ token = 0 /\ user = None
  /\ holder = None
  /\ pc = [c \in Callers |-> "idle"]
  /\ pair = [c \in Callers |-> 0]
  /\ replaced = {}

Ensure(c) ==
  \/ Validate(c) \/ Refresh(c) \/ ValidateNew(c)
  \/ Login(c) \/ Exchange(c) \/ ValidateLogin(c)
  \/ Truncate(c) \/ Write(c) \/ Return(c)

Cli == CliExchange \/ CliValidate \/ CliTruncate \/ CliWrite \/ CliEnds

Next ==
  \/ Expire \/ Cli \/ Start \/ End
  \/ \E c \in Callers : Call(c) \/ Lock(c) \/ Ensure(c) \/ Redirect(c)

Spec == Init /\ [][Next]_vars

\* Requests have time limits; the mutex is handed to a goroutine that has waited
\* too long.  Nobody has to log in.
FairSpec == Spec /\ \A c \in Callers : SF_vars(Lock(c)) /\ WF_vars(Ensure(c))
-----------------------------------------------------------------------------
\* Every variable keeps its type, and the mutex is with the caller that is inside.
TypeOK ==
  /\ owner \in Seq(Accounts)
  /\ valid \subseteq Pairs /\ redeemable \subseteq Pairs
  /\ file \in [pair : Pairs \cup {0}, user : Accounts \cup {None}]
  /\ lost \in BOOLEAN /\ newest \in Pairs \cup {0}
  /\ cliAt \in CliLocations /\ cliPair \in Pairs \cup {0}
  /\ cliAt # "idle" => cliPair \in Pairs
  /\ up \in BOOLEAN /\ secret \in BOOLEAN
  /\ token \in Pairs \cup {0}
  /\ user \in Accounts \cup {None}
  /\ holder \in Callers \cup {None}
  /\ pc \in [Callers -> Locations]
  /\ \A c \in Callers : pc[c] \in {"idle", "lock"} <=> holder # c
  /\ pair \in [Callers -> Pairs \cup {0}]
  /\ replaced \subseteq Pairs

\* No refresh token is presented again by a process that has got a new pair for
\* it, however many goroutines ask for a token at once.
RefreshedOnce ==
  \A c \in Callers : pc[c] \in {"soon", "refresh"} => pair[c] \notin replaced

\* Unless a call is about to save, the file is not behind any chat-cli that ran:
\* one started now has the newest pair.  What can lose it is a save that failed
\* or met another, a process that ended between a refresh and its save, and
\* auth-cli emptying the file or writing a pair that was overtaken by a refresh;
\* the next complete save makes up for each of these.
FileNotBehind ==
  ~lost /\ (\A c \in Callers : pc[c] \notin Saving) => file.pair >= newest

\* The token in memory is never replaced by an older one, such as that of a
\* login overtaken by a refresh.
TokenNeverGoesBack ==
  [][up /\ up' => token <= token']_vars

\* A call returns, unless a login is never answered or the process ends.
CallReturns ==
  \A c \in Callers :
    (pc[c] = "lock") ~> (pc[c] = "idle" \/ \E d \in Callers : pc[d] = "redirect")
-----------------------------------------------------------------------------
\* manager.go: "GetUser returns the validated username and user ID": not those of
\* another account than the token's.
UserIsOwner ==
  up /\ holder = None /\ token # 0 => user \in {None, owner[token]}
=============================================================================
