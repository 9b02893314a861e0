----------------------------- MODULE SQLiteStore ----------------------------
(***************************************************************************)
(* store.SQLiteStore (sqlite.go): chat is buffered in memory and written   *)
(* in one transaction when BatchSize messages have come together.  Each    *)
(* operation, the flush it makes included, runs under the mutex and is one *)
(* step; a crash in the middle of one is a crash before it or after it,    *)
(* since all of its effect on the disk is one COMMIT.                      *)
(*                                                                         *)
(* A message is its number in order of publication, standing for its id,   *)
(* the primary key of the table.                                           *)
(***************************************************************************)
EXTENDS Integers, Sequences, FiniteSets, Functions

CONSTANTS
  BatchSize,  \* messages that make a batch (30)
  MaxMsgs,    \* bound: messages published
  MaxBuf,     \* bound: length of the buffer
  MaxLives    \* bound: times the program is started

ASSUME SQLiteStoreAssumption ==
  BatchSize \in Nat \ {0} /\ MaxMsgs \in Nat /\ MaxBuf \in Nat /\ MaxLives \in Nat

VARIABLES
  phase,     \* "open", "closed" (Close has returned) or "down" (no process)
  buf,       \* SQLiteStore.buf
  rows,      \* the table chat_messages
  accepted,  \* number of messages Enqueue was called with
  born,      \* accepted when this process started
  lives,     \* number of processes started
  failed,    \* history: SQLite failed the last flush
  lost       \* history: messages that were only in memory when a process ended

vars == <<phase, buf, rows, accepted, born, lives, failed, lost>>

Pending == Range(buf) \ rows
-----------------------------------------------------------------------------
\* Mutant: a plain INSERT, which the primary key refuses for a stored message.
ConflictOnStored(b) == Range(b) \cap rows # {}

\* INSERT OR IGNORE: no message is refused.
Conflict(b) == FALSE

\* Mutant: the buffer is cleared before the outcome of the transaction is known.
BufAfterFailureCleared(b) == <<>>

BufAfterFailure(b) == b

\* Mutant: the rows inserted before the error are not rolled back.
RowsAfterFailureKept(b) == rows \cup {b[1]}

RowsAfterFailure(b) == rows

\* flushLocked with b in the buffer.  The database may fail at any statement:
\* before the COMMIT took effect, or after it.  A closed one always fails.
Flush(b) ==
  \/ /\ b = <<>>
     /\ buf' = b
     /\ UNCHANGED <<rows, failed>>
  \/ /\ b # <<>> /\ phase = "open" /\ ~Conflict(b)
     /\ rows' = rows \cup Range(b)
     /\ buf' = <<>>
     /\ failed' = FALSE
  \/ /\ b # <<>>
     /\ rows' = RowsAfterFailure(b)
     /\ buf' = BufAfterFailure(b)
     /\ failed' = ~Conflict(b)
  \/ /\ b # <<>> /\ phase = "open" /\ ~Conflict(b)
     /\ rows' = rows \cup Range(b)
     /\ buf' = BufAfterFailure(b)
     /\ failed' = TRUE

\* The subscription acks the message whatever Enqueue returns.
Enqueue(m) ==
  /\ phase # "down"
  /\ Len(buf) < MaxBuf
  /\ LET b == Append(buf, m) IN
       IF Len(b) >= BatchSize THEN Flush(b) ELSE buf' = b /\ UNCHANGED <<rows, failed>>

\* A message published now.  The handler in progress when the subscription
\* ends is not waited for: it may come after Close.
EnqueueNew ==
  /\ accepted < MaxMsgs
  /\ Enqueue(accepted + 1)
  /\ accepted' = accepted + 1
  /\ UNCHANGED <<phase, born, lives, lost>>

\* The stream is in memory: it holds the messages of this process only.
Redeliverable == (born + 1)..accepted

\* A copy JetStream pushed because the ack of the first took too long.
EnqueueAgain ==
  /\ \E m \in Redeliverable : Enqueue(m)
  /\ UNCHANGED <<phase, accepted, born, lives, lost>>

\* SQLiteStore.Flush, called by main on its way out.
FlushAll ==
  /\ phase = "open"
  /\ Flush(buf)
  /\ UNCHANGED <<phase, accepted, born, lives, lost>>

\* SQLiteStore.Close: the error of its flush is dropped.
Close ==
  /\ phase = "open"
  /\ Flush(buf)
  /\ phase' = "closed"
  /\ UNCHANGED <<accepted, born, lives, lost>>

\* The process ends: after Close, or by a crash at any time.
End ==
  /\ phase # "down"
  /\ phase' = "down"
  /\ lost' = lost \cup Pending
  /\ buf' = <<>>
  /\ failed' = FALSE
  /\ UNCHANGED <<rows, accepted, born, lives>>

\* Open on the same file.
Open ==
  /\ phase = "down"
  /\ lives < MaxLives
  /\ lives' = lives + 1
  /\ phase' = "open"
  /\ born' = accepted
  /\ UNCHANGED <<buf, rows, accepted, failed, lost>>

Init ==
  /\ phase = "open"
  /\ buf = <<>>
  /\ rows = {}
  /\ accepted = 0
  /\ born = 0
  /\ lives = 1
  /\ failed = FALSE
  /\ lost = {}

Next == EnqueueNew \/ EnqueueAgain \/ FlushAll \/ Close \/ End \/ Open

Spec == Init /\ [][Next]_vars
-----------------------------------------------------------------------------
TypeOK ==
  /\ phase \in {"open", "closed", "down"}
  /\ buf \in Seq(Nat) /\ Range(buf) \subseteq 1..accepted
  /\ rows \subseteq 1..accepted
  /\ accepted \in Nat
  /\ born \in 0..accepted
  /\ lives \in Nat
  /\ failed \in BOOLEAN
  /\ lost \subseteq 1..accepted

\* A message the store has accepted is stored, still in the buffer, or was in
\* memory only when a process ended; none is lost by a failed flush, by a copy
\* or by a commit that was reported as an error.
Conservation ==
  /\ rows \cup Pending \cup lost = 1..accepted
  /\ lost \cap (rows \cup Range(buf)) = {}

\* A full batch stays in memory only while SQLite itself fails: what is lost
\* with a process is less than a batch, and copies of stored messages cannot
\* make a batch that never goes through.
FullBatchOnlyAfterFailure ==
  Len(buf) >= BatchSize => failed

\* The batches implement the promise of ChatLog: all of what is pending is
\* stored or none of it, and a copy or a retry of a stored message is nothing.
Log == INSTANCE ChatLog WITH pending <- Pending
StoreIsChatLog == Log!Spec
=============================================================================
