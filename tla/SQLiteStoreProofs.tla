-------------------------- MODULE SQLiteStoreProofs -------------------------
(***************************************************************************)
(* Proofs about SQLiteStore for every batch size, any number of messages,  *)
(* failures, copies and restarts.                                          *)
(***************************************************************************)
EXTENDS SQLiteStore, TLAPS

LEMMA RangeOfEmpty == <<>> \in Seq(Nat) /\ Range(<<>>) = {}
BY DEF Range

LEMMA RangeOfAppend ==
  ASSUME NEW S, NEW s \in Seq(S), NEW m \in S
  PROVE  Range(Append(s, m)) = Range(s) \cup {m}
<1>1. DOMAIN s = 1..Len(s) /\ Len(s) \in Nat
  OBVIOUS
<1>2. DOMAIN Append(s, m) = 1..(Len(s) + 1)
  OBVIOUS
<1>3. \A i \in 1..Len(s) : Append(s, m)[i] = s[i]
  OBVIOUS
<1>4. Append(s, m)[Len(s) + 1] = m
  OBVIOUS
<1>5. 1..(Len(s) + 1) = (1..Len(s)) \cup {Len(s) + 1}
  BY <1>1
<1> QED
  BY <1>1, <1>2, <1>3, <1>4, <1>5 DEF Range

\* A flush stores the whole buffer or nothing, and keeps what it does not know
\* to be stored; only a failure leaves anything in the buffer.
LEMMA FlushOutcome ==
  ASSUME TypeOK, NEW b, Flush(b)
  PROVE  /\ buf' = b \/ buf' = <<>>
         /\ \/ rows' = rows /\ Range(buf') = Range(b)
            \/ rows' = rows \cup Range(b) /\ Range(buf') \in {{}, Range(b)}
         /\ failed' \in BOOLEAN
         /\ buf' # <<>> => failed'
BY RangeOfEmpty DEF Flush, Conflict, RowsAfterFailure, BufAfterFailure, TypeOK

\* What Enqueue does to the buffer and the table, flushing or not.
LEMMA EnqueueOutcome ==
  ASSUME TypeOK, NEW m \in Nat, Enqueue(m)
  PROVE  /\ buf' = Append(buf, m) \/ buf' = <<>>
         /\ \/ rows' = rows /\ Range(buf') = Range(buf) \cup {m}
            \/ rows' = rows \cup Range(buf) \cup {m} /\ Range(buf') \in {{}, Range(buf) \cup {m}}
         /\ failed' \in BOOLEAN
         /\ Len(buf') >= BatchSize => failed'
<1> DEFINE b == Append(buf, m)
<1>1. buf \in Seq(Nat)
  BY DEF TypeOK
<1>2. Range(b) = Range(buf) \cup {m} /\ Len(<<>>) = 0
  BY <1>1, RangeOfAppend
<1>3. CASE Len(b) >= BatchSize /\ Flush(b)
  <2>1. /\ buf' = b \/ buf' = <<>>
        /\ \/ rows' = rows /\ Range(buf') = Range(b)
           \/ rows' = rows \cup Range(b) /\ Range(buf') \in {{}, Range(b)}
        /\ failed' \in BOOLEAN
        /\ buf' # <<>> => failed'
    BY <1>3, FlushOutcome
  <2>2. Len(buf') >= BatchSize => failed'
    BY <2>1, <1>2, SQLiteStoreAssumption
  <2> HIDE DEF b
  <2>3. rows \cup Range(b) = rows \cup Range(buf) \cup {m}
    BY <1>2
  <2> QED
    BY <2>1, <2>2, <2>3, <1>2 DEF b
<1>4. CASE ~(Len(b) >= BatchSize) /\ buf' = b /\ UNCHANGED <<rows, failed>>
  BY <1>2, <1>4 DEF TypeOK
<1> QED
  BY <1>3, <1>4 DEF Enqueue
-----------------------------------------------------------------------------
\* The types of the variables are kept by every step.
THEOREM TypeCorrect == Spec => []TypeOK
<1>1. ASSUME Init PROVE TypeOK
  <2>1. buf = <<>> /\ rows = {} /\ lost = {} /\ accepted = 0 /\ born = 0
    BY <1>1 DEF Init
  <2>2. buf \in Seq(Nat) /\ Range(buf) \subseteq 1..accepted
    BY <2>1, RangeOfEmpty
  <2>3. accepted \in Nat /\ born \in 0..accepted
    BY <2>1
  <2> QED
    BY <1>1, <2>1, <2>2, <2>3 DEF Init, TypeOK
<1>2. TypeOK /\ [Next]_vars => TypeOK'
  <2> SUFFICES ASSUME TypeOK, [Next]_vars PROVE TypeOK'
    OBVIOUS
  <2>0. Range(buf) \subseteq 1..accepted
    BY DEF TypeOK
  <2>1. CASE EnqueueNew
    <3>1. accepted \in Nat /\ accepted + 1 \in Nat /\ accepted' = accepted + 1
      BY <2>1 DEF EnqueueNew, TypeOK
    <3>2. Enqueue(accepted + 1)
      BY <2>1 DEF EnqueueNew
    <3>3. 1..accepted \subseteq 1..accepted' /\ accepted + 1 \in 1..accepted'
      BY <3>1
    <3>4. buf \in Seq(Nat)
      BY DEF TypeOK
    <3>5. buf' \in Seq(Nat)
      <4>1. Append(buf, accepted + 1) \in Seq(Nat)
        BY <3>1, <3>4
      <4>2. buf' = Append(buf, accepted + 1) \/ buf' = <<>>
        BY <3>1, <3>2, EnqueueOutcome
      <4> QED
        BY <4>1, <4>2, RangeOfEmpty
    <3>6. (rows \cup Range(buf))' \subseteq 1..accepted' /\ failed' \in BOOLEAN
      BY <2>0, <3>1, <3>2, <3>3, EnqueueOutcome DEF TypeOK
    <3> QED
      BY <2>1, <3>1, <3>3, <3>5, <3>6 DEF EnqueueNew, TypeOK
  <2>2. CASE EnqueueAgain
    <3>1. PICK m \in Redeliverable : Enqueue(m)
      BY <2>2 DEF EnqueueAgain
    <3>2. m \in 1..accepted /\ m \in Nat
      BY <3>1 DEF Redeliverable, TypeOK
    <3>3. buf' \in Seq(Nat)
      <4>1. Append(buf, m) \in Seq(Nat)
        BY <3>2 DEF TypeOK
      <4>2. buf' = Append(buf, m) \/ buf' = <<>>
        BY <3>1, <3>2, EnqueueOutcome
      <4> QED
        BY <4>1, <4>2, RangeOfEmpty
    <3>4. (rows \cup Range(buf))' \subseteq 1..accepted /\ failed' \in BOOLEAN
      BY <2>0, <3>1, <3>2, EnqueueOutcome DEF TypeOK
    <3> QED
      BY <2>2, <3>3, <3>4 DEF EnqueueAgain, TypeOK
  <2>3. CASE FlushAll
    <3>1. buf' \in Seq(Nat) /\ (rows \cup Range(buf))' \subseteq 1..accepted /\ failed' \in BOOLEAN
      BY <2>0, <2>3, FlushOutcome, RangeOfEmpty DEF FlushAll, TypeOK
    <3> QED
      BY <2>3, <3>1 DEF FlushAll, TypeOK
  <2>4. CASE Close
    <3>1. buf' \in Seq(Nat) /\ (rows \cup Range(buf))' \subseteq 1..accepted /\ failed' \in BOOLEAN
      BY <2>0, <2>4, FlushOutcome, RangeOfEmpty DEF Close, TypeOK
    <3> QED
      BY <2>4, <3>1 DEF Close, TypeOK
  <2>5. CASE End
    BY <2>0, <2>5, RangeOfEmpty DEF End, TypeOK, Pending
  <2>6. CASE Open
    BY <2>6 DEF Open, TypeOK
  <2>7. CASE UNCHANGED vars
    BY <2>7 DEF vars, TypeOK
  <2> QED
    BY <2>1, <2>2, <2>3, <2>4, <2>5, <2>6, <2>7 DEF Next
<1> QED
  BY <1>1, <1>2, PTL DEF Spec
-----------------------------------------------------------------------------
\* What was lost belongs to earlier processes: no copy of it comes again.
LostIsOld ==
  /\ phase # "down" => lost \subseteq 1..born
  /\ phase = "down" => buf = <<>>

ConservationInv == Conservation /\ LostIsOld

LEMMA ConservationStep ==
  ASSUME TypeOK, TypeOK', ConservationInv, [Next]_vars
  PROVE  ConservationInv'
<1>0. accepted \in Nat /\ born \in 0..accepted /\ lost \subseteq 1..accepted /\ rows \subseteq 1..accepted
      /\ Range(buf) \subseteq 1..accepted
  BY DEF TypeOK
<1>1. rows \cup Range(buf) \cup lost = 1..accepted /\ lost \cap (rows \cup Range(buf)) = {}
  BY DEF ConservationInv, Conservation, Pending
<1>2. CASE EnqueueNew
  <2>1. /\ accepted' = accepted + 1 /\ lost' = lost /\ phase' = phase /\ born' = born
        /\ Enqueue(accepted + 1) /\ phase # "down"
    BY <1>2 DEF EnqueueNew, Enqueue
  <2>2. /\ rows' \cup Range(buf') = rows \cup Range(buf) \cup {accepted + 1}
    BY <1>0, <2>1, EnqueueOutcome
  <2>3. 1..(accepted + 1) = (1..accepted) \cup {accepted + 1} /\ accepted + 1 \notin lost
    BY <1>0
  <2> QED
    BY <1>1, <2>1, <2>2, <2>3 DEF ConservationInv, Conservation, Pending, LostIsOld
<1>3. CASE EnqueueAgain
  <2>1. PICK m \in Redeliverable : Enqueue(m)
    BY <1>3 DEF EnqueueAgain
  <2>2. UNCHANGED <<phase, accepted, born, lost>> /\ phase # "down"
    BY <1>3, <2>1 DEF EnqueueAgain, Enqueue
  <2>3. m \in Nat /\ m \in 1..accepted /\ m \notin lost
    BY <1>0, <2>2 DEF Redeliverable, ConservationInv, LostIsOld
  <2>4. rows' \cup Range(buf') = rows \cup Range(buf) \cup {m}
    BY <2>1, <2>3, EnqueueOutcome
  <2> QED
    BY <1>1, <2>2, <2>3, <2>4 DEF ConservationInv, Conservation, Pending, LostIsOld
<1>4. CASE FlushAll \/ Close
  <2>1. UNCHANGED <<accepted, born, lost>> /\ phase = "open" /\ phase' # "down" /\ Flush(buf)
    BY <1>4 DEF FlushAll, Close
  <2>2. rows' \cup Range(buf') = rows \cup Range(buf)
    BY <2>1, FlushOutcome
  <2> QED
    BY <1>1, <2>1, <2>2 DEF ConservationInv, Conservation, Pending, LostIsOld
<1>5. CASE End
  <2>1. /\ lost' = lost \cup (Range(buf) \ rows) /\ buf' = <<>> /\ Range(buf') = {}
        /\ UNCHANGED <<rows, accepted>> /\ phase' = "down"
    BY <1>5, RangeOfEmpty DEF End, Pending
  <2> QED
    BY <1>1, <2>1 DEF ConservationInv, Conservation, Pending, LostIsOld
<1>6. CASE Open
  <2>1. UNCHANGED <<buf, rows, accepted, lost>> /\ born' = accepted /\ phase' = "open"
    BY <1>6 DEF Open
  <2> QED
    BY <1>0, <1>1, <2>1 DEF ConservationInv, Conservation, Pending, LostIsOld
<1>7. CASE UNCHANGED vars
  BY <1>7 DEF vars, ConservationInv, Conservation, Pending, LostIsOld
<1> QED
  BY <1>2, <1>3, <1>4, <1>5, <1>6, <1>7 DEF Next

\* Conservation: what Enqueue took is stored, in memory or lost with a process.
THEOREM ConservationCorrect == Spec => []Conservation
<1>1. Init => ConservationInv
  BY RangeOfEmpty DEF Init, ConservationInv, Conservation, Pending, LostIsOld
<1>2. TypeOK /\ TypeOK' /\ ConservationInv /\ [Next]_vars => ConservationInv'
  BY ConservationStep
<1>3. ConservationInv => Conservation
  BY DEF ConservationInv
<1> QED
  BY <1>1, <1>2, <1>3, TypeCorrect, PTL DEF Spec
-----------------------------------------------------------------------------
\* FullBatchOnlyAfterFailure: only SQLite itself keeps a batch from being stored.
THEOREM FullBatchOnlyAfterFailureCorrect == Spec => []FullBatchOnlyAfterFailure
<1>1. Init => FullBatchOnlyAfterFailure
  BY SQLiteStoreAssumption DEF Init, FullBatchOnlyAfterFailure
<1>2. TypeOK /\ FullBatchOnlyAfterFailure /\ [Next]_vars => FullBatchOnlyAfterFailure'
  <2> SUFFICES ASSUME TypeOK, FullBatchOnlyAfterFailure, [Next]_vars
               PROVE  FullBatchOnlyAfterFailure'
    OBVIOUS
  <2>1. CASE EnqueueNew
    <3>1. Enqueue(accepted + 1) /\ accepted + 1 \in Nat
      BY <2>1 DEF EnqueueNew, TypeOK
    <3> QED
      BY <3>1, EnqueueOutcome DEF FullBatchOnlyAfterFailure
  <2>2. CASE EnqueueAgain
    <3>1. PICK m \in Redeliverable : Enqueue(m)
      BY <2>2 DEF EnqueueAgain
    <3>2. m \in Nat
      BY DEF Redeliverable, TypeOK
    <3> QED
      BY <3>1, <3>2, EnqueueOutcome DEF FullBatchOnlyAfterFailure
  <2>3. CASE FlushAll \/ Close
    <3>1. Flush(buf)
      BY <2>3 DEF FlushAll, Close
    <3>2. buf' # <<>> => failed'
      BY <3>1, FlushOutcome
    <3> QED
      BY <3>2, SQLiteStoreAssumption DEF FullBatchOnlyAfterFailure
  <2>4. CASE End
    BY <2>4, SQLiteStoreAssumption DEF End, FullBatchOnlyAfterFailure
  <2>5. CASE Open
    BY <2>5 DEF Open, FullBatchOnlyAfterFailure
  <2>6. CASE UNCHANGED vars
    BY <2>6 DEF vars, FullBatchOnlyAfterFailure
  <2> QED
    BY <2>1, <2>2, <2>3, <2>4, <2>5, <2>6 DEF Next
<1> QED
  BY <1>1, <1>2, TypeCorrect, PTL DEF Spec
-----------------------------------------------------------------------------
\* Every step of the store is a step of ChatLog, or nothing to it.
LEMMA StepImplements ==
  ASSUME TypeOK, TypeOK', ConservationInv, [Next]_vars
  PROVE  [Log!Next]_(Log!logVars)
<1> USE DEF Log!Next, Log!logVars, Log!Accept, Log!Store, Log!AcceptAndStore, Log!Lose
<1>0. accepted \in Nat /\ rows \subseteq 1..accepted /\ Range(buf) \subseteq 1..accepted
  BY DEF TypeOK
<1>1. rows \cup Range(buf) \cup lost = 1..accepted /\ lost \cap (rows \cup Range(buf)) = {}
  BY DEF ConservationInv, Conservation, Pending
<1>2. CASE EnqueueNew
  <2>1. accepted' = accepted + 1 /\ lost' = lost /\ Enqueue(accepted + 1)
    BY <1>2 DEF EnqueueNew
  <2>2. accepted + 1 \notin rows
    BY <1>0
  <2>3. CASE rows' = rows /\ Range(buf') = Range(buf) \cup {accepted + 1}
    <3>1. Pending' = Pending \cup {accepted'}
      BY <2>1, <2>2, <2>3 DEF Pending
    <3> QED
      BY <2>1, <2>3, <3>1
  <2>4. CASE /\ rows' = rows \cup Range(buf) \cup {accepted + 1}
             /\ Range(buf') \in {{}, Range(buf) \cup {accepted + 1}}
    <3>1. Pending' = {} /\ rows' = rows \cup Pending \cup {accepted'}
      BY <2>1, <2>4 DEF Pending
    <3> QED
      BY <2>1, <3>1
  <2> QED
    BY <1>0, <2>1, <2>3, <2>4, EnqueueOutcome
<1>3. CASE EnqueueAgain
  <2>1. PICK m \in Redeliverable : Enqueue(m)
    BY <1>3 DEF EnqueueAgain
  <2>2. UNCHANGED <<accepted, lost>> /\ phase # "down"
    BY <1>3, <2>1 DEF EnqueueAgain, Enqueue
  <2>3. m \in Nat /\ m \in rows \cup Range(buf)
    BY <1>0, <1>1, <2>2 DEF Redeliverable, ConservationInv, LostIsOld, TypeOK
  <2>4. CASE rows' = rows /\ Range(buf') = Range(buf) \cup {m}
    <3>1. Pending' = Pending
      BY <2>3, <2>4 DEF Pending
    <3> QED
      BY <2>2, <2>4, <3>1
  <2>5. CASE rows' = rows \cup Range(buf) \cup {m} /\ Range(buf') \in {{}, Range(buf) \cup {m}}
    <3>1. Pending' = {} /\ rows' = rows \cup Pending
      BY <2>3, <2>5 DEF Pending
    <3> QED
      BY <2>2, <3>1
  <2> QED
    BY <2>1, <2>3, <2>4, <2>5, EnqueueOutcome
<1>4. CASE FlushAll \/ Close
  <2>1. UNCHANGED <<accepted, lost>> /\ Flush(buf)
    BY <1>4 DEF FlushAll, Close
  <2>2. CASE rows' = rows /\ Range(buf') = Range(buf)
    BY <2>1, <2>2 DEF Pending
  <2>3. CASE rows' = rows \cup Range(buf) /\ Range(buf') \in {{}, Range(buf)}
    <3>1. Pending' = {} /\ rows' = rows \cup Pending
      BY <2>3 DEF Pending
    <3> QED
      BY <2>1, <3>1
  <2> QED
    BY <2>1, <2>2, <2>3, FlushOutcome
<1>5. CASE End
  <2>1. lost' = lost \cup Pending /\ Pending' = {} /\ UNCHANGED <<accepted, rows>>
    BY <1>5, RangeOfEmpty DEF End, Pending
  <2> QED
    BY <2>1
<1>6. CASE Open
  BY <1>6 DEF Open, Pending
<1>7. CASE UNCHANGED vars
  BY <1>7 DEF vars, Pending
<1> QED
  BY <1>2, <1>3, <1>4, <1>5, <1>6, <1>7 DEF Next

\* StoreIsChatLog: the store implements ChatLog, Pending standing for pending.
THEOREM StoreImplementsChatLog == Spec => StoreIsChatLog
<1>1. Init => Log!Init
  BY RangeOfEmpty DEF Init, Log!Init, Pending
<1>2. Init => ConservationInv
  BY RangeOfEmpty DEF Init, ConservationInv, Conservation, Pending, LostIsOld
<1>3. TypeOK /\ TypeOK' /\ ConservationInv /\ [Next]_vars => ConservationInv'
  BY ConservationStep
<1>4. TypeOK /\ TypeOK' /\ ConservationInv /\ [Next]_vars => [Log!Next]_(Log!logVars)
  BY StepImplements
<1> QED
  BY <1>1, <1>2, <1>3, <1>4, TypeCorrect, PTL DEF Spec, StoreIsChatLog, Log!Spec
=============================================================================
