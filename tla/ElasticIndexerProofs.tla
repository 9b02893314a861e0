------------------------ MODULE ElasticIndexerProofs ------------------------
(***************************************************************************)
(* Proofs about ElasticIndexer for every batch size, every capacity of the *)
(* channel, any number of documents, and Close at any time.                *)
(***************************************************************************)
EXTENDS ElasticIndexer, FiniteSetTheorems, TLAPS

-----------------------------------------------------------------------------
(* Sequences: what Append, Head and Tail do to the range and to repetition. *)

LEMMA EmptySequence ==
  \A S : <<>> \in Seq(S) /\ Len(<<>>) = 0 /\ Range(<<>>) = {} /\ IsInjective(<<>>)
BY DEF Range, IsInjective

LEMMA RangeIn ==
  ASSUME NEW S, NEW s \in Seq(S)
  PROVE  Range(s) \subseteq S
BY DEF Range

LEMMA Appended ==
  ASSUME NEW S, NEW s \in Seq(S), NEW m \in S
  PROVE  /\ Append(s, m) \in Seq(S) /\ Len(Append(s, m)) = Len(s) + 1
         /\ Range(Append(s, m)) = Range(s) \cup {m}
         /\ IsInjective(s) /\ m \notin Range(s) => IsInjective(Append(s, m))
<1> DEFINE t == Append(s, m)
<1>1. t \in Seq(S) /\ Len(t) = Len(s) + 1 /\ Len(s) \in Nat
      /\ DOMAIN s = 1..Len(s) /\ DOMAIN t = 1..(Len(s) + 1)
  OBVIOUS
<1>2. (\A i \in 1..Len(s) : t[i] = s[i]) /\ t[Len(s) + 1] = m
  OBVIOUS
<1>3. 1..(Len(s) + 1) = (1..Len(s)) \cup {Len(s) + 1}
  BY <1>1
<1> HIDE DEF t
<1>4. Range(t) = Range(s) \cup {m}
  BY <1>1, <1>2, <1>3 DEF Range
<1>5. ASSUME IsInjective(s), m \notin Range(s) PROVE IsInjective(t)
  <2>1. \A i \in 1..Len(s) : s[i] # m
    BY <1>1, <1>5 DEF Range
  <2>2. \A i, j \in 1..Len(s) : s[i] = s[j] => i = j
    BY <1>1, <1>5 DEF IsInjective
  <2> QED
    BY <1>1, <1>2, <1>3, <2>1, <2>2 DEF IsInjective
<1> QED
  BY <1>1, <1>4, <1>5 DEF t

LEMMA HeadAndTail ==
  ASSUME NEW S, NEW s \in Seq(S), s # <<>>
  PROVE  /\ Head(s) \in S /\ Tail(s) \in Seq(S) /\ Len(Tail(s)) = Len(s) - 1
         /\ Range(s) = {Head(s)} \cup Range(Tail(s))
         /\ IsInjective(s) => IsInjective(Tail(s)) /\ Head(s) \notin Range(Tail(s))
<1> DEFINE t == Tail(s)
<1>1. Len(s) \in Nat \ {0} /\ DOMAIN s = 1..Len(s) /\ Head(s) = s[1] /\ Head(s) \in S
  OBVIOUS
<1>2. t \in Seq(S) /\ Len(t) = Len(s) - 1 /\ DOMAIN t = 1..(Len(s) - 1)
  OBVIOUS
<1>3. \A i \in 1..(Len(s) - 1) : t[i] = s[i + 1]
  OBVIOUS
<1> HIDE DEF t
<1>4. Range(s) = {s[1]} \cup Range(t)
  <2>1. \A i \in 1..Len(s) : i = 1 \/ (i - 1 \in 1..(Len(s) - 1) /\ s[i] = t[i - 1])
    BY <1>1, <1>3
  <2>2. \A i \in 1..(Len(s) - 1) : i + 1 \in 1..Len(s)
    BY <1>1
  <2>3. Range(s) \subseteq {s[1]} \cup Range(t)
    BY <1>1, <1>2, <2>1 DEF Range
  <2>4. {s[1]} \cup Range(t) \subseteq Range(s)
    BY <1>1, <1>2, <1>3, <2>2 DEF Range
  <2> QED
    BY <2>3, <2>4
<1>5. ASSUME IsInjective(s) PROVE IsInjective(t) /\ s[1] \notin Range(t)
  <2>1. \A i, j \in 1..Len(s) : s[i] = s[j] => i = j
    BY <1>1, <1>5 DEF IsInjective
  <2>2. \A i, j \in 1..(Len(s) - 1) : t[i] = t[j] => i = j
    BY <1>1, <1>3, <2>1
  <2>3. \A i \in 1..(Len(s) - 1) : t[i] # s[1]
    BY <1>1, <1>3, <2>1
  <2> QED
    BY <1>2, <2>2, <2>3 DEF IsInjective, Range
<1> QED
  BY <1>1, <1>2, <1>4, <1>5 DEF t
-----------------------------------------------------------------------------
\* The batch has room while the worker receives, and a caller that sends was
\* called.
Room ==
  /\ worker \in {"run", "drain"} => Len(batch) < BatchSize
  /\ \A k \in Kinds : caller[k] = "send" => offered[k] > 0

TypeInv == TypeOK /\ Room

LEMMA SendsADocument ==
  ASSUME TypeInv, NEW k \in Kinds, caller[k] = "send"
  PROVE  Newest(k) \in Documents
BY DEF TypeInv, TypeOK, Room, Newest, Documents, Kinds

LEMMA InitTypes == Init => TypeInv
<1> SUFFICES ASSUME Init PROVE TypeInv
  OBVIOUS
<1>1. queue \in Seq(Documents) /\ batch \in Seq(Documents) /\ Len(queue) = 0 /\ Len(batch) = 0
  BY EmptySequence DEF Init
<1>2. caller \in [Kinds -> {"idle", "send"}] /\ offered \in [Kinds -> Nat]
  BY DEF Init, Kinds
<1>3. \A k \in Kinds : caller[k] # "send"
  BY DEF Init, Kinds
<1>4. {refused, chatIndexed, clipsIndexed, failedDocs, bulkRequests} \subseteq Nat
  BY DEF Init
<1>5. posted \subseteq Documents /\ stored \subseteq Documents
  BY DEF Init
<1>6. 0 <= QueueCapacity /\ 0 < BatchSize /\ 0 <= BatchSize
  BY ElasticIndexerAssumption
<1>7. TypeOK
  BY <1>1, <1>2, <1>4, <1>5, <1>6 DEF Init, TypeOK
<1> QED
  BY <1>1, <1>3, <1>6, <1>7 DEF TypeInv, Room

LEMMA CountsAreNat ==
  ASSUME TypeOK
  PROVE  /\ Cardinality(OfKind("chat")) \in Nat /\ Cardinality(OfKind("clip")) \in Nat
         /\ Cardinality(OfKind("chat")) + Cardinality(OfKind("clip")) = Len(batch)
<1>1. batch \in Seq(Documents) /\ Len(batch) \in Nat /\ DOMAIN batch = 1..Len(batch)
  BY DEF TypeOK
<1>2. IsFiniteSet(1..Len(batch)) /\ Cardinality(1..Len(batch)) = Len(batch)
  BY <1>1, FS_Interval
<1>3. \A i \in 1..Len(batch) : batch[i].kind \in {"chat", "clip"}
  <2>1. \A i \in 1..Len(batch) : batch[i] \in Documents
    BY <1>1
  <2> QED
    BY <2>1 DEF Documents, Kinds
<1>4. /\ OfKind("chat") \cup OfKind("clip") = 1..Len(batch)
      /\ OfKind("chat") \cap OfKind("clip") = {}
  BY <1>1, <1>3 DEF OfKind
<1>5. OfKind("chat") \in SUBSET (1..Len(batch)) /\ OfKind("clip") \in SUBSET (1..Len(batch))
  BY <1>4
<1>6. IsFiniteSet(OfKind("chat")) /\ IsFiniteSet(OfKind("clip"))
  BY <1>2, <1>5, FS_Subset
<1>7. Cardinality(OfKind("chat")) \in Nat /\ Cardinality(OfKind("clip")) \in Nat
  BY <1>6, FS_CardinalityType
<1>8. Cardinality(OfKind("chat") \cup OfKind("clip"))
        = Cardinality(OfKind("chat")) + Cardinality(OfKind("clip")) - Cardinality({})
  BY <1>4, <1>6, FS_Union
<1>9. Cardinality({}) = 0
  BY FS_EmptySet
<1>10. Len(batch) = Cardinality(OfKind("chat")) + Cardinality(OfKind("clip")) - 0
  BY <1>2, <1>4, <1>8, <1>9
<1> QED
  BY <1>7, <1>10

\* A request that is accepted counts each document of the batch once, one that
\* is not counts them all as failed.
LEMMA FlushCounts ==
  ASSUME TypeOK, FlushBatch
  PROVE  /\ {refused', chatIndexed', clipsIndexed', failedDocs', bulkRequests'} \subseteq Nat
         /\ chatIndexed' + clipsIndexed' + failedDocs' =
              chatIndexed + clipsIndexed + failedDocs + Len(batch)
<1> DEFINE chats == Cardinality(OfKind("chat"))
           clips == Cardinality(OfKind("clip"))
<1>1. /\ refused' = refused
      /\ \/ /\ chatIndexed' = chatIndexed + chats
            /\ clipsIndexed' = clipsIndexed + clips
            /\ bulkRequests' = bulkRequests + 1 /\ failedDocs' = failedDocs
         \/ /\ failedDocs' = failedDocs + Len(batch)
            /\ UNCHANGED <<chatIndexed, clipsIndexed, bulkRequests>>
  BY DEF FlushBatch, Accepted, Rejected, Failed, callerVars
<1>2. /\ refused \in Nat /\ chatIndexed \in Nat /\ clipsIndexed \in Nat
      /\ failedDocs \in Nat /\ bulkRequests \in Nat /\ Len(batch) \in Nat
  BY DEF TypeOK
<1>3. chats \in Nat /\ clips \in Nat /\ chats + clips = Len(batch)
  BY CountsAreNat
<1> HIDE DEF chats, clips
<1>4. /\ refused' \in Nat /\ chatIndexed' \in Nat /\ clipsIndexed' \in Nat
      /\ failedDocs' \in Nat /\ bulkRequests' \in Nat
  BY <1>1, <1>2, <1>3
<1>5. chatIndexed' + clipsIndexed' + failedDocs' = chatIndexed + clipsIndexed + failedDocs + Len(batch)
  BY <1>1, <1>2, <1>3
<1>6. {refused', chatIndexed', clipsIndexed', failedDocs', bulkRequests'} \subseteq Nat
  BY <1>4
<1> QED
  BY <1>5, <1>6

LEMMA TypeStep ==
  ASSUME TypeInv, [Next]_vars
  PROVE  TypeInv'
<1> USE DEF TypeInv, TypeOK, Room
<1>0. /\ Len(queue) \in Nat /\ Len(batch) \in Nat /\ BatchSize \in Nat \ {0}
      /\ QueueCapacity \in Nat \ {0}
  BY ElasticIndexerAssumption
<1>1. ASSUME NEW k \in Kinds, Offer(k) PROVE TypeInv'
  BY <1>1 DEF Offer, closeVars, stats, remote
<1>2. ASSUME NEW k \in Kinds, Send(k) PROVE TypeInv'
  <2>1. /\ UNCHANGED <<batch, worker, closeVars, offered, refused,
                       chatIndexed, clipsIndexed, bulkRequests, remote>>
        /\ caller' = [caller EXCEPT ![k] = "idle"]
    BY <1>2 DEF Send
  <2>2. Newest(k) \in Documents
    BY <1>2, SendsADocument DEF Send
  <2>3. CASE ~Full /\ queue' = Append(queue, Newest(k)) /\ UNCHANGED failedDocs
    <3>1. queue' \in Seq(Documents) /\ Len(queue') = Len(queue) + 1
      BY <2>2, <2>3, Appended
    <3>2. Len(queue') <= QueueCapacity
      BY <1>0, <2>3, <3>1 DEF Full
    <3> QED
      BY <2>1, <2>3, <3>1, <3>2 DEF closeVars, remote
  <2>4. CASE Full /\ failedDocs' = failedDocs + 1 /\ UNCHANGED queue
    BY <2>1, <2>4 DEF closeVars, remote
  <2> QED
    BY <1>2, <2>3, <2>4 DEF Send
<1>3. CASE Receive
  <2>1. /\ worker \in {"run", "drain"} /\ queue # <<>>
        /\ batch' = Append(batch, Head(queue)) /\ queue' = Tail(queue)
        /\ UNCHANGED <<callerVars, closeVars, stats, remote>>
    BY <1>3 DEF Receive
  <2>2. /\ batch' \in Seq(Documents) /\ Len(batch') = Len(batch) + 1
        /\ queue' \in Seq(Documents) /\ Len(queue') = Len(queue) - 1
    BY <2>1, Appended, HeadAndTail
  <2>3. Len(batch') <= BatchSize /\ Len(queue') <= QueueCapacity
    BY <1>0, <2>1, <2>2
  <2>4. /\ worker' \in {"run", "post", "drain", "drainPost"}
        /\ worker' \in {"run", "drain"} => Len(batch') < BatchSize
    BY <1>3 DEF Receive
  <2> QED
    BY <2>1, <2>2, <2>3, <2>4 DEF callerVars, closeVars, stats, remote
<1>4. CASE FlushTick
  BY <1>4 DEF FlushTick, callerVars, closeVars, stats, remote
<1>5. CASE SeeStop
  BY <1>5 DEF SeeStop, callerVars, closeVars, stats, remote
<1>6. CASE DrainEnd
  BY <1>6 DEF DrainEnd, Drained, callerVars, closeVars, stats, remote
<1>7. CASE FlushBatch
  <2>1. batch' = <<>> /\ batch' \in Seq(Documents) /\ Len(batch') = 0
    BY <1>7, EmptySequence DEF FlushBatch, BatchAfterPost
  <2>2. worker' \in {"run", "drain", "done"}
    BY <1>7 DEF FlushBatch, AfterPost
  <2>3. posted' \subseteq Documents /\ stored' \subseteq Documents
    BY <1>7, RangeIn DEF FlushBatch
  <2>4. {refused', chatIndexed', clipsIndexed', failedDocs', bulkRequests'} \subseteq Nat
    BY <1>7, FlushCounts
  <2>5. UNCHANGED <<queue, callerVars, closeVars>>
    BY <1>7 DEF FlushBatch
  <2> QED
    BY <1>0, <2>1, <2>2, <2>3, <2>4, <2>5 DEF callerVars, closeVars
<1>8. CASE SwapClosed \/ CloseStopCh \/ WaitWorker
  BY <1>8 DEF SwapClosed, CloseStopCh, WaitWorker, callerVars, closeVars, stats, remote
<1>9. CASE UNCHANGED vars
  BY <1>9 DEF vars
<1> QED
  BY <1>1, <1>2, <1>3, <1>4, <1>5, <1>6, <1>7, <1>8, <1>9 DEF Next, Worker

LEMMA TypesHold == Spec => []TypeInv
BY InitTypes, TypeStep, PTL DEF Spec

\* The channel never holds more than its capacity nor the worker more than a
\* batch, and every variable keeps its type.
THEOREM TypeCorrect == Spec => []TypeOK
<1>1. TypeInv => TypeOK
  BY DEF TypeInv
<1> QED
  BY <1>1, TypesHold, PTL
-----------------------------------------------------------------------------
\* One for a caller that is between its look at the flag and its send.
InHand(k) == IF caller[k] = "send" THEN 1 ELSE 0

LEMMA SendingIs ==
  InHand("chat") \in Nat /\ InHand("clip") \in Nat /\ Sending = InHand("chat") + InHand("clip")
<1> DEFINE senders == {k \in Kinds : caller[k] = "send"}
<1>1. Cardinality({}) = 0 /\ (\A x : IsFiniteSet({x}) /\ Cardinality({x}) = 1)
  BY FS_EmptySet, FS_Singleton
<1>2. Cardinality({"chat", "clip"}) = 2
  <2>1. Cardinality({"chat"} \cup {"clip"}) =
          IF "clip" \in {"chat"} THEN Cardinality({"chat"}) ELSE Cardinality({"chat"}) + 1
    BY <1>1, FS_AddElement, Zenon
  <2>2. {"chat", "clip"} = {"chat"} \cup {"clip"} /\ "clip" \notin {"chat"}
    OBVIOUS
  <2> QED
    BY <1>1, <2>1, <2>2
<1>3. senders = (IF caller["chat"] = "send" THEN {"chat"} ELSE {})
                  \cup (IF caller["clip"] = "send" THEN {"clip"} ELSE {})
  BY DEF Kinds
<1>4. Cardinality(senders) = InHand("chat") + InHand("clip")
  <2>1. CASE caller["chat"] = "send" /\ caller["clip"] = "send"
    <3>1. senders = {"chat", "clip"}
      BY <1>3, <2>1
    <3>2. Cardinality(senders) = 2
      BY <1>2, <3>1
    <3> QED
      BY <2>1, <3>2 DEF InHand
  <2>2. CASE caller["chat"] = "send" /\ caller["clip"] # "send"
    <3>1. senders = {"chat"}
      BY <1>3, <2>2
    <3>2. Cardinality(senders) = 1
      BY <1>1, <3>1
    <3> QED
      BY <2>2, <3>2 DEF InHand
  <2>3. CASE caller["chat"] # "send" /\ caller["clip"] = "send"
    <3>1. senders = {"clip"}
      BY <1>3, <2>3
    <3>2. Cardinality(senders) = 1
      BY <1>1, <3>1
    <3> QED
      BY <2>3, <3>2 DEF InHand
  <2>4. CASE caller["chat"] # "send" /\ caller["clip"] # "send"
    <3>1. senders = {}
      BY <1>3, <2>4
    <3>2. Cardinality(senders) = 0
      BY <1>1, <3>1
    <3> QED
      BY <2>4, <3>2 DEF InHand
  <2> QED
    BY <2>1, <2>2, <2>3, <2>4
<1> QED
  BY <1>4 DEF Sending, InHand

LEMMA AccountedInit == Init => Accounted
<1> SUFFICES ASSUME Init PROVE Accounted
  OBVIOUS
<1>1. Sending = 0
  <2>1. InHand("chat") = 0 /\ InHand("clip") = 0
    BY DEF Init, Kinds, InHand
  <2> QED
    BY <2>1, SendingIs
<1>2. offered["chat"] = 0 /\ offered["clip"] = 0 /\ Len(queue) = 0 /\ Len(batch) = 0
  BY EmptySequence DEF Init, Kinds
<1> QED
  BY <1>1, <1>2 DEF Init, Accounted

Offered == offered["chat"] + offered["clip"]
Counted == chatIndexed + clipsIndexed + failedDocs

LEMMA SumsAreNat ==
  ASSUME TypeInv
  PROVE  /\ Offered \in Nat /\ Counted \in Nat /\ Sending \in Nat /\ refused \in Nat
         /\ Len(queue) \in Nat /\ Len(batch) \in Nat
<1>1. /\ offered["chat"] \in Nat /\ offered["clip"] \in Nat
      /\ chatIndexed \in Nat /\ clipsIndexed \in Nat /\ failedDocs \in Nat /\ refused \in Nat
      /\ queue \in Seq(Documents) /\ batch \in Seq(Documents)
  BY DEF TypeInv, TypeOK, Kinds
<1>2. Sending \in Nat
  BY SendingIs
<1> QED
  BY <1>1, <1>2 DEF Offered, Counted

Balanced == Offered = refused + Sending + Len(queue) + Len(batch) + Counted

LEMMA AccountedIsBalanced ==
  ASSUME TypeInv
  PROVE  Accounted <=> Balanced
<1>1. chatIndexed \in Nat /\ clipsIndexed \in Nat /\ failedDocs \in Nat
  BY DEF TypeInv, TypeOK
<1> QED
  BY <1>1, SumsAreNat DEF Accounted, Balanced, Offered, Counted

\* What a step does to the terms of Accounted: a document is offered, leaves its
\* caller, goes from the channel to the batch, or is counted.
LEMMA StepCounts ==
  ASSUME TypeInv, [Next]_vars
  PROVE  \/ /\ Offered' = Offered + 1 /\ Sending' + refused' = Sending + refused + 1
            /\ Len(queue') = Len(queue) /\ Len(batch') = Len(batch) /\ Counted' = Counted
         \/ /\ Offered' = Offered /\ Sending' + 1 = Sending /\ refused' = refused
            /\ Len(queue') + Counted' = Len(queue) + Counted + 1 /\ Len(batch') = Len(batch)
         \/ /\ Offered' = Offered /\ Sending' = Sending /\ refused' = refused /\ Counted' = Counted
            /\ Len(queue') + Len(batch') = Len(queue) + Len(batch)
         \/ /\ Offered' = Offered /\ Sending' = Sending /\ refused' = refused
            /\ Len(queue') = Len(queue) /\ Len(batch') = 0 /\ Counted' = Counted + Len(batch)
<1>0. /\ Len(queue) \in Nat /\ Len(batch) \in Nat /\ refused \in Nat /\ failedDocs \in Nat
      /\ offered \in [Kinds -> Nat] /\ caller \in [Kinds -> {"idle", "send"}]
      /\ queue \in Seq(Documents) /\ batch \in Seq(Documents)
      /\ chatIndexed \in Nat /\ clipsIndexed \in Nat
  BY DEF TypeInv, TypeOK
<1>0a. /\ InHand("chat") \in Nat /\ InHand("clip") \in Nat /\ Sending = InHand("chat") + InHand("clip")
       /\ (Sending = InHand("chat") + InHand("clip"))'
  BY SendingIs, PTL
<1>0b. caller' = caller => Sending' = Sending
  BY DEF Sending
<1>1. ASSUME NEW k \in Kinds, Offer(k)
      PROVE  /\ Offered' = Offered + 1 /\ Sending' + refused' = Sending + refused + 1
             /\ Len(queue') = Len(queue) /\ Len(batch') = Len(batch) /\ Counted' = Counted
  <2>1. /\ caller[k] = "idle" /\ offered' = [offered EXCEPT ![k] = @ + 1]
        /\ UNCHANGED <<queue, batch, chatIndexed, clipsIndexed, failedDocs>>
        /\ \/ refused' = refused + 1 /\ UNCHANGED caller
           \/ caller' = [caller EXCEPT ![k] = "send"] /\ UNCHANGED refused
    BY <1>1 DEF Offer, stats
  <2>2. Offered' = Offered + 1
    BY <1>0, <2>1 DEF Kinds, Offered
  <2>3. CASE refused' = refused + 1 /\ UNCHANGED caller
    <3>1. Sending' = Sending /\ Sending \in Nat
      BY <1>0b, <1>0a, <2>3
    <3> QED
      BY <1>0, <2>1, <2>2, <2>3, <3>1 DEF Counted
  <2>4. CASE caller' = [caller EXCEPT ![k] = "send"] /\ UNCHANGED refused
    <3>1. InHand("chat")' + InHand("clip")' = InHand("chat") + InHand("clip") + 1
      BY <1>0, <2>1, <2>4 DEF Kinds, InHand
    <3>2. Sending' = Sending + 1 /\ Sending \in Nat
      BY <1>0a, <3>1
    <3> QED
      BY <1>0, <2>1, <2>2, <2>4, <3>2 DEF Counted
  <2> QED
    BY <2>1, <2>3, <2>4
<1>2. ASSUME NEW k \in Kinds, Send(k)
      PROVE  /\ Offered' = Offered /\ Sending' + 1 = Sending /\ refused' = refused
             /\ Len(queue') + Counted' = Len(queue) + Counted + 1 /\ Len(batch') = Len(batch)
  <2>1. /\ caller[k] = "send" /\ caller' = [caller EXCEPT ![k] = "idle"]
        /\ UNCHANGED <<batch, offered, refused, chatIndexed, clipsIndexed>>
        /\ \/ queue' = Append(queue, Newest(k)) /\ UNCHANGED failedDocs
           \/ failedDocs' = failedDocs + 1 /\ UNCHANGED queue
    BY <1>2 DEF Send
  <2>2. Len(Append(queue, Newest(k))) = Len(queue) + 1
    BY <1>0, <2>1, SendsADocument, Appended
  <2>3. Len(queue') + Counted' = Len(queue) + Counted + 1
    <3>1. CASE queue' = Append(queue, Newest(k)) /\ UNCHANGED failedDocs
      <4>1. Counted' = Counted /\ Counted \in Nat
        BY <1>0, <2>1, <3>1 DEF Counted
      <4> QED
        BY <1>0, <2>2, <3>1, <4>1
    <3>2. CASE failedDocs' = failedDocs + 1 /\ UNCHANGED queue
      <4>1. Counted' = Counted + 1 /\ Counted \in Nat
        BY <1>0, <2>1, <3>2 DEF Counted
      <4> QED
        BY <1>0, <3>2, <4>1
    <3> QED
      BY <2>1, <3>1, <3>2
  <2>4. InHand("chat")' + InHand("clip")' + 1 = InHand("chat") + InHand("clip")
    BY <1>0, <2>1 DEF Kinds, InHand
  <2>5. Sending' + 1 = Sending
    BY <1>0a, <2>4
  <2> QED
    BY <2>1, <2>3, <2>5 DEF Offered
<1>3. ASSUME Receive
      PROVE  /\ Offered' = Offered /\ Sending' = Sending /\ refused' = refused /\ Counted' = Counted
             /\ Len(queue') + Len(batch') = Len(queue) + Len(batch)
  <2>1. /\ batch' = Append(batch, Head(queue)) /\ queue' = Tail(queue) /\ queue # <<>>
        /\ UNCHANGED <<caller, offered, refused, chatIndexed, clipsIndexed, failedDocs>>
    BY <1>3 DEF Receive, callerVars, stats
  <2>2. Len(queue') + Len(batch') = Len(queue) + Len(batch)
    BY <1>0, <2>1, HeadAndTail, Appended
  <2> QED
    BY <1>0b, <2>1, <2>2 DEF Offered, Counted
<1>4. ASSUME FlushBatch
      PROVE  /\ Offered' = Offered /\ Sending' = Sending /\ refused' = refused
             /\ Len(queue') = Len(queue) /\ Len(batch') = 0 /\ Counted' = Counted + Len(batch)
  <2>1. UNCHANGED <<queue, caller, offered, refused>> /\ Len(batch') = 0
    BY <1>4, EmptySequence DEF FlushBatch, BatchAfterPost, callerVars
  <2>2. Counted' = Counted + Len(batch)
    BY <1>4, FlushCounts DEF TypeInv, Counted
  <2> QED
    BY <1>0b, <2>1, <2>2 DEF Offered
<1>5. ASSUME \/ FlushTick \/ SeeStop \/ DrainEnd \/ SwapClosed \/ CloseStopCh \/ WaitWorker
             \/ UNCHANGED vars
      PROVE  /\ Offered' = Offered /\ Sending' = Sending /\ refused' = refused /\ Counted' = Counted
             /\ Len(queue') + Len(batch') = Len(queue) + Len(batch)
  <2>1. UNCHANGED <<queue, batch, caller, offered, refused, chatIndexed, clipsIndexed, failedDocs>>
    BY <1>5 DEF FlushTick, SeeStop, DrainEnd, SwapClosed, CloseStopCh, WaitWorker,
                callerVars, stats, vars
  <2> QED
    BY <1>0b, <2>1 DEF Offered, Counted
<1> QED
  BY <1>1, <1>2, <1>3, <1>4, <1>5 DEF Next, Worker

LEMMA AccountedStep ==
  ASSUME TypeInv, TypeInv', Accounted, [Next]_vars
  PROVE  Accounted'
<1> DEFINE o == Offered       o1 == Offered'
           s == Sending       s1 == Sending'
           r == refused       r1 == refused'
           q == Len(queue)    q1 == Len(queue')
           b == Len(batch)    b1 == Len(batch')
           c == Counted       c1 == Counted'
<1>1. o \in Nat /\ s \in Nat /\ r \in Nat /\ q \in Nat /\ b \in Nat /\ c \in Nat
  BY SumsAreNat
<1>2. (TypeInv => Offered \in Nat /\ Sending \in Nat /\ refused \in Nat /\ Len(queue) \in Nat
                  /\ Len(batch) \in Nat /\ Counted \in Nat)'
  BY SumsAreNat, PTL
<1>3. \/ o1 = o + 1 /\ s1 + r1 = s + r + 1 /\ q1 = q /\ b1 = b /\ c1 = c
      \/ o1 = o /\ s1 + 1 = s /\ r1 = r /\ q1 + c1 = q + c + 1 /\ b1 = b
      \/ o1 = o /\ s1 = s /\ r1 = r /\ c1 = c /\ q1 + b1 = q + b
      \/ o1 = o /\ s1 = s /\ r1 = r /\ q1 = q /\ b1 = 0 /\ c1 = c + b
  BY StepCounts, Zenon
<1>4. Balanced /\ (TypeInv => (Accounted <=> Balanced))'
  BY AccountedIsBalanced, PTL
<1>5. o = r + s + q + b + c
  BY <1>4 DEF Balanced
<1>6. o1 = r1 + s1 + q1 + b1 + c1
  <2>1. o1 \in Nat /\ s1 \in Nat /\ r1 \in Nat /\ q1 \in Nat /\ b1 \in Nat /\ c1 \in Nat
    BY <1>2
  <2> HIDE DEF o, o1, s, s1, r, r1, q, q1, b, b1, c, c1
  <2> QED
    BY <1>1, <1>3, <1>5, <2>1
<1>7. Balanced'
  BY <1>6 DEF Balanced
<1> QED
  BY <1>4, <1>7

\* Every document is accounted for once: a call that finds the indexer closed, a
\* full channel and a failed request each leave their trace in GetStats or in
\* the caller's return, whenever Close comes.
THEOREM AccountedCorrect == Spec => []Accounted
<1>1. TypeInv /\ TypeInv' /\ Accounted /\ [Next]_vars => Accounted'
  BY AccountedStep
<1> QED
  BY <1>1, AccountedInit, TypesHold, PTL DEF Spec
-----------------------------------------------------------------------------
\* Documents on their way or posted were offered, and before the one whose
\* caller is about to send.
Past(d) == d.num <= offered[d.kind] /\ (caller[d.kind] = "send" => d.num < offered[d.kind])
Seen == Range(queue) \cup Range(batch) \cup posted
PostedInv == PostedOnce /\ \A d \in Seen : Past(d)

LEMMA PostedInit == Init => PostedInv
<1> SUFFICES ASSUME Init PROVE PostedInv
  OBVIOUS
<1>1. /\ IsInjective(queue) /\ IsInjective(batch)
      /\ Range(queue) = {} /\ Range(batch) = {} /\ posted = {}
  BY EmptySequence DEF Init
<1> QED
  BY <1>1 DEF PostedInv, PostedOnce, Seen

LEMMA PostedStep ==
  ASSUME TypeInv, PostedInv, [Next]_vars
  PROVE  PostedInv'
<1>0. /\ queue \in Seq(Documents) /\ batch \in Seq(Documents)
      /\ offered \in [Kinds -> Nat] /\ caller \in [Kinds -> {"idle", "send"}]
      /\ posted \subseteq Documents
  BY DEF TypeInv, TypeOK
<1>0a. Seen \subseteq Documents
  BY <1>0, RangeIn DEF Seen
<1>0b. \A d \in Documents : d.kind \in Kinds /\ d.num \in Nat
  BY DEF Documents
<1>1. ASSUME NEW k \in Kinds, Offer(k) PROVE PostedInv'
  <2>1. /\ caller[k] = "idle" /\ offered' = [offered EXCEPT ![k] = @ + 1]
        /\ UNCHANGED <<queue, batch, posted>>
        /\ \/ UNCHANGED caller
           \/ caller' = [caller EXCEPT ![k] = "send"]
    BY <1>1 DEF Offer, remote
  <2>2. ASSUME NEW d \in Seen PROVE Past(d)'
    <3>1. d.kind \in Kinds /\ d.num \in Nat /\ d.num <= offered[d.kind]
          /\ (caller[d.kind] = "send" => d.num < offered[d.kind])
      BY <1>0a, <1>0b, <2>2 DEF PostedInv, Past
    <3>2. CASE d.kind = k
      <4>1. offered'[k] = offered[k] + 1 /\ offered[k] \in Nat
        BY <1>0, <2>1
      <4>2. d.num <= offered'[k] /\ d.num < offered'[k]
        BY <3>1, <3>2, <4>1
      <4> QED
        BY <3>2, <4>2 DEF Past
    <3>3. CASE d.kind # k
      <4>1. offered'[d.kind] = offered[d.kind] /\ caller'[d.kind] = caller[d.kind]
        BY <1>0, <2>1, <3>1, <3>3
      <4> QED
        BY <3>1, <4>1 DEF Past
    <3> QED
      BY <3>2, <3>3
  <2>3. PostedOnce' /\ Seen' = Seen
    BY <2>1 DEF PostedInv, PostedOnce, Seen
  <2> QED
    BY <2>2, <2>3 DEF PostedInv
<1>2. ASSUME NEW k \in Kinds, Send(k) PROVE PostedInv'
  <2>1. /\ caller[k] = "send" /\ caller' = [caller EXCEPT ![k] = "idle"]
        /\ UNCHANGED <<batch, offered, posted>>
        /\ queue' = Append(queue, Newest(k)) \/ UNCHANGED queue
    BY <1>2 DEF Send, remote
  <2>2. Newest(k) \in Documents
    BY <2>1, SendsADocument
  <2>3. Newest(k) \notin Seen
    <3>1. SUFFICES ASSUME Newest(k) \in Seen PROVE FALSE
      OBVIOUS
    <3>2. Past(Newest(k)) /\ Newest(k).kind = k /\ Newest(k).num = offered[k]
      BY <3>1 DEF PostedInv, Newest
    <3>3. offered[k] < offered[k] /\ offered[k] \in Nat
      BY <1>0, <2>1, <3>2 DEF Past
    <3> QED
      BY <3>3
  <2>4. /\ IsInjective(queue') /\ Range(queue') \subseteq Range(queue) \cup {Newest(k)}
    <3>1. IsInjective(queue) /\ Newest(k) \notin Range(queue)
      BY <2>3 DEF PostedInv, PostedOnce, Seen
    <3>2. /\ Range(Append(queue, Newest(k))) = Range(queue) \cup {Newest(k)}
          /\ IsInjective(Append(queue, Newest(k)))
      BY <1>0, <2>2, <3>1, Appended
    <3> QED
      BY <2>1, <3>1, <3>2
  <2>5. PostedOnce'
    BY <2>1, <2>3, <2>4 DEF PostedInv, PostedOnce, Seen
  <2>6. ASSUME NEW d \in Seen \cup {Newest(k)} PROVE Past(d)'
    <3>1. d.kind \in Kinds /\ d.num <= offered[d.kind]
          /\ (d.kind # k /\ caller[d.kind] = "send" => d.num < offered[d.kind])
      <4>1. CASE d \in Seen
        BY <1>0a, <1>0b, <4>1 DEF PostedInv, Past
      <4>2. CASE d = Newest(k)
        BY <1>0, <4>2 DEF Newest
      <4> QED
        BY <2>6, <4>1, <4>2
    <3>2. caller'[d.kind] = "send" => d.kind # k /\ caller[d.kind] = "send"
      BY <1>0, <2>1, <3>1
    <3> QED
      BY <2>1, <3>1, <3>2 DEF Past
  <2>7. Seen' \subseteq Seen \cup {Newest(k)}
    BY <2>1, <2>4 DEF Seen
  <2> QED
    BY <2>5, <2>6, <2>7 DEF PostedInv
<1>3. CASE Receive
  <2>1. /\ batch' = Append(batch, Head(queue)) /\ queue' = Tail(queue) /\ queue # <<>>
        /\ UNCHANGED <<caller, offered, posted>>
    BY <1>3 DEF Receive, callerVars, remote
  <2>2. /\ Range(queue) = {Head(queue)} \cup Range(queue') /\ Head(queue) \in Documents
        /\ IsInjective(queue') /\ Head(queue) \notin Range(queue')
    BY <1>0, <2>1, HeadAndTail DEF PostedInv, PostedOnce
  <2>3. Head(queue) \notin Range(batch)
    BY <2>2 DEF PostedInv, PostedOnce
  <2>4. Range(batch') = Range(batch) \cup {Head(queue)} /\ IsInjective(batch')
    BY <1>0, <2>1, <2>2, <2>3, Appended DEF PostedInv, PostedOnce
  <2>5. PostedOnce' /\ Seen' = Seen
    BY <2>1, <2>2, <2>4 DEF PostedInv, PostedOnce, Seen
  <2> QED
    BY <2>1, <2>5 DEF PostedInv, Past
<1>4. CASE FlushBatch
  <2>1. /\ posted' = posted \cup Range(batch) /\ batch' = <<>> /\ UNCHANGED <<queue, caller, offered>>
    BY <1>4 DEF FlushBatch, BatchAfterPost, callerVars
  <2>2. Range(batch') = {} /\ IsInjective(batch')
    BY <2>1, EmptySequence
  <2>3. PostedOnce' /\ Seen' = Seen
    BY <2>1, <2>2 DEF PostedInv, PostedOnce, Seen
  <2> QED
    BY <2>1, <2>3 DEF PostedInv, Past
<1>5. CASE \/ FlushTick \/ SeeStop \/ DrainEnd \/ SwapClosed \/ CloseStopCh \/ WaitWorker
           \/ UNCHANGED vars
  <2>1. UNCHANGED <<queue, batch, posted, caller, offered>>
    BY <1>5 DEF FlushTick, SeeStop, DrainEnd, SwapClosed, CloseStopCh, WaitWorker,
                callerVars, remote, vars
  <2> QED
    BY <2>1 DEF PostedInv, PostedOnce, Seen, Past
<1> QED
  BY <1>1, <1>2, <1>3, <1>4, <1>5 DEF Next, Worker

LEMMA PostedHolds == Spec => []PostedInv
<1>1. TypeInv /\ PostedInv /\ [Next]_vars => PostedInv'
  BY PostedStep
<1> QED
  BY <1>1, PostedInit, TypesHold, PTL DEF Spec

\* However many callers, batches and failed requests there are, and however
\* Close comes between them, no document is in two requests.
THEOREM PostedOnceCorrect == Spec => []PostedOnce
<1>1. PostedInv => PostedOnce
  BY DEF PostedInv
<1> QED
  BY <1>1, PostedHolds, PTL
-----------------------------------------------------------------------------
\* Close goes on in its order, and only a worker that saw stopCh drains.
CloseOrder ==
  /\ closed <=> closer # "idle"
  /\ stopCh <=> closer \in {"waiting", "returned"}
  /\ worker \in {"drain", "drainPost", "lastPost", "done"} => stopCh
  /\ worker = "done" => batch = <<>>
  /\ ~closed => refused = 0
  /\ closer = "returned" => worker = "done"

LEMMA CloseOrderHolds == Spec => []CloseOrder
<1>1. Init => CloseOrder
  BY DEF Init, CloseOrder
<1>2. TypeInv /\ CloseOrder /\ [Next]_vars => CloseOrder'
  <2> SUFFICES ASSUME TypeInv, CloseOrder, [Next]_vars PROVE CloseOrder'
    OBVIOUS
  <2> USE DEF CloseOrder
  <2>1. ASSUME NEW k \in Kinds, Offer(k) \/ Send(k) PROVE CloseOrder'
    BY <2>1 DEF Offer, Send, closeVars
  <2>2. CASE Receive
    BY <2>2 DEF Receive, callerVars, closeVars
  <2>3. CASE FlushTick \/ SeeStop \/ DrainEnd
    BY <2>3 DEF FlushTick, SeeStop, DrainEnd, Drained, callerVars, closeVars
  <2>4. CASE FlushBatch
    BY <2>4 DEF FlushBatch, AfterPost, BatchAfterPost, callerVars, closeVars
  <2>5. CASE SwapClosed \/ CloseStopCh \/ WaitWorker
    BY <2>5 DEF SwapClosed, CloseStopCh, WaitWorker, callerVars
  <2>6. CASE UNCHANGED vars
    BY <2>6 DEF vars
  <2> QED
    BY <2>1, <2>2, <2>3, <2>4, <2>5, <2>6 DEF Next, Worker
<1> QED
  BY <1>1, <1>2, TypesHold, PTL DEF Spec

\* What Close promises and keeps: when it has returned, what the worker took from
\* the channel was posted, and of all documents offered only those it refused, those
\* in the hands of a caller, and those sent after the drain are not counted.
ReturnedMeansCounted ==
  closer = "returned" => batch = <<>> /\ Offered = refused + Sending + Len(queue) + Counted

THEOREM CloseCounts == Spec => []ReturnedMeansCounted
<1>1. TypeInv /\ CloseOrder /\ Accounted => ReturnedMeansCounted
  <2> SUFFICES ASSUME TypeInv, CloseOrder, Accounted, closer = "returned"
               PROVE  batch = <<>> /\ Offered = refused + Sending + Len(queue) + Counted
    BY DEF ReturnedMeansCounted
  <2>1. batch = <<>> /\ Len(batch) = 0
    BY EmptySequence DEF CloseOrder
  <2>2. Balanced
    BY AccountedIsBalanced
  <2> QED
    BY <2>1, <2>2, SumsAreNat DEF Balanced
<1> QED
  BY <1>1, TypesHold, CloseOrderHolds, AccountedCorrect, PTL
-----------------------------------------------------------------------------
\* The channel holds the documents of a kind in the order in which they were
\* offered, the batch none that is newer than one in the channel, and no request
\* is made for an empty batch.
Rising(s) == \A i, j \in DOMAIN s : i < j /\ s[i].kind = s[j].kind => s[i].num < s[j].num
Before(d, e) == d.kind = e.kind => d.num < e.num
OrderInv ==
  /\ Rising(queue)
  /\ \A d \in Range(batch), e \in Range(queue) : Before(d, e)
  /\ worker \in DOMAIN AfterPost => batch # <<>>

LEMMA AppendedRising ==
  ASSUME NEW S, NEW s \in Seq(S), NEW m \in S, Rising(s), \A d \in Range(s) : Before(d, m)
  PROVE  Rising(Append(s, m))
<1> DEFINE t == Append(s, m)
<1>1. DOMAIN s = 1..Len(s) /\ DOMAIN t = 1..(Len(s) + 1) /\ Len(s) \in Nat
  OBVIOUS
<1>2. (\A i \in 1..Len(s) : t[i] = s[i]) /\ t[Len(s) + 1] = m
  OBVIOUS
<1> HIDE DEF t
<1>3. ASSUME NEW i \in 1..(Len(s) + 1), NEW j \in 1..(Len(s) + 1), i < j, t[i].kind = t[j].kind
      PROVE  t[i].num < t[j].num
  <2>1. i \in 1..Len(s) /\ t[i] = s[i] /\ s[i] \in Range(s)
    BY <1>1, <1>2, <1>3 DEF Range
  <2>2. CASE j \in 1..Len(s)
    BY <1>1, <1>2, <1>3, <2>1, <2>2 DEF Rising
  <2>3. CASE j = Len(s) + 1
    BY <1>2, <1>3, <2>1, <2>3 DEF Before
  <2> QED
    BY <1>1, <2>2, <2>3
<1> QED
  BY <1>1, <1>3 DEF Rising, t

LEMMA TailRising ==
  ASSUME NEW S, NEW s \in Seq(S), s # <<>>, Rising(s)
  PROVE  Rising(Tail(s)) /\ \A e \in Range(Tail(s)) : Before(Head(s), e)
<1> DEFINE t == Tail(s)
<1>1. /\ Len(s) \in Nat \ {0} /\ DOMAIN s = 1..Len(s) /\ Head(s) = s[1]
      /\ DOMAIN t = 1..(Len(s) - 1)
  OBVIOUS
<1>2. \A i \in 1..(Len(s) - 1) : t[i] = s[i + 1]
  OBVIOUS
<1> HIDE DEF t
<1>3. \A i \in 1..(Len(s) - 1) : i + 1 \in 1..Len(s) /\ 1 < i + 1
  BY <1>1
<1>4. Rising(t)
  BY <1>1, <1>2, <1>3 DEF Rising
<1>5. ASSUME NEW e \in Range(t) PROVE Before(Head(s), e)
  <2>1. PICK i \in 1..(Len(s) - 1) : e = t[i]
    BY <1>1 DEF Range
  <2> QED
    BY <1>1, <1>2, <1>3, <2>1 DEF Rising, Before
<1> QED
  BY <1>4, <1>5 DEF t

LEMMA NewestIsNewest ==
  ASSUME TypeInv, PostedInv, NEW k \in Kinds, caller[k] = "send"
  PROVE  /\ Newest(k) \notin Seen
         /\ \A d \in Seen : Before(d, Newest(k))
<1>1. \A d \in Seen : d.kind = k => d.num < offered[k]
  BY DEF PostedInv, Past
<1>2. Newest(k).kind = k /\ Newest(k).num = offered[k] /\ offered[k] \in Nat
  BY DEF Newest, TypeInv, TypeOK
<1>3. Newest(k) \notin Seen
  <2>1. SUFFICES ASSUME Newest(k) \in Seen PROVE FALSE
    OBVIOUS
  <2>2. offered[k] < offered[k]
    BY <1>1, <1>2, <2>1
  <2> QED
    BY <1>2, <2>2
<1> QED
  BY <1>1, <1>2, <1>3 DEF Before

LEMMA OrderInit == Init => OrderInv
<1> SUFFICES ASSUME Init PROVE OrderInv
  OBVIOUS
<1>1. Range(batch) = {} /\ DOMAIN queue = {} /\ worker = "run"
  BY EmptySequence DEF Init
<1>2. worker \notin DOMAIN AfterPost
  BY <1>1 DEF AfterPost
<1> QED
  BY <1>1, <1>2 DEF OrderInv, Rising

LEMMA OrderStep ==
  ASSUME TypeInv, PostedInv, OrderInv, [Next]_vars
  PROVE  OrderInv'
<1>0. /\ queue \in Seq(Documents) /\ batch \in Seq(Documents)
      /\ DOMAIN AfterPost = {"post", "drainPost", "lastPost"}
  BY DEF TypeInv, TypeOK, AfterPost
<1>1. ASSUME UNCHANGED <<queue, batch>>, worker' \in DOMAIN AfterPost => batch # <<>>
      PROVE  OrderInv'
  BY <1>1 DEF OrderInv, Rising
<1>2. ASSUME NEW k \in Kinds, Offer(k) PROVE OrderInv'
  BY <1>1, <1>2 DEF Offer, OrderInv
<1>3. ASSUME NEW k \in Kinds, Send(k) PROVE OrderInv'
  <2>1. /\ caller[k] = "send" /\ UNCHANGED <<batch, worker>>
        /\ queue' = Append(queue, Newest(k)) \/ UNCHANGED queue
    BY <1>3 DEF Send
  <2>2. CASE UNCHANGED queue
    BY <1>1, <2>1, <2>2 DEF OrderInv
  <2>3. CASE queue' = Append(queue, Newest(k))
    <3>1. Newest(k) \in Documents /\ \A d \in Seen : Before(d, Newest(k))
      BY <2>1, SendsADocument, NewestIsNewest
    <3>2. Rising(queue')
      BY <1>0, <2>3, <3>1, AppendedRising DEF OrderInv, Seen
    <3>3. Range(queue') = Range(queue) \cup {Newest(k)}
      BY <1>0, <2>3, <3>1, Appended
    <3>4. \A d \in Range(batch), e \in Range(queue') : Before(d, e)
      BY <3>1, <3>3 DEF OrderInv, Seen
    <3> QED
      BY <2>1, <3>2, <3>4 DEF OrderInv, Rising
  <2> QED
    BY <2>1, <2>2, <2>3
<1>4. CASE Receive
  <2>1. /\ queue # <<>> /\ batch' = Append(batch, Head(queue)) /\ queue' = Tail(queue)
    BY <1>4 DEF Receive
  <2>2. Rising(queue') /\ \A e \in Range(queue') : Before(Head(queue), e)
    BY <1>0, <2>1, TailRising DEF OrderInv
  <2>3. /\ Head(queue) \in Documents /\ Range(queue') \subseteq Range(queue)
        /\ Range(batch') = Range(batch) \cup {Head(queue)} /\ batch' # <<>>
    <3>1. Head(queue) \in Documents /\ Range(queue') \subseteq Range(queue)
      BY <1>0, <2>1, HeadAndTail
    <3>2. Range(batch') = Range(batch) \cup {Head(queue)}
      BY <1>0, <2>1, <3>1, Appended
    <3> QED
      BY <3>1, <3>2, EmptySequence
  <2>4. \A d \in Range(batch'), e \in Range(queue') : Before(d, e)
    BY <2>2, <2>3 DEF OrderInv
  <2> QED
    BY <2>2, <2>3, <2>4 DEF OrderInv, Rising
<1>5. CASE FlushTick \/ SeeStop \/ DrainEnd
  <2>1. UNCHANGED <<queue, batch>> /\ (worker' \in DOMAIN AfterPost => batch # <<>>)
    BY <1>0, <1>5 DEF FlushTick, TickFlushes, SeeStop, DrainEnd, Drained
  <2> QED
    BY <1>1, <2>1
<1>6. CASE FlushBatch
  <2>1. Range(batch') = {} /\ UNCHANGED queue /\ worker' \in {"run", "drain", "done"}
    BY <1>6, EmptySequence DEF FlushBatch, BatchAfterPost, AfterPost
  <2> QED
    BY <1>0, <2>1 DEF OrderInv, Rising
<1>7. CASE SwapClosed \/ CloseStopCh \/ WaitWorker \/ UNCHANGED vars
  <2>1. UNCHANGED <<queue, batch, worker>>
    BY <1>7 DEF SwapClosed, CloseStopCh, WaitWorker, vars
  <2> QED
    BY <1>1, <2>1 DEF OrderInv
<1> QED
  BY <1>2, <1>3, <1>4, <1>5, <1>6, <1>7 DEF Next, Worker

LEMMA OrderHolds == Spec => []OrderInv
<1>1. TypeInv /\ PostedInv /\ OrderInv /\ [Next]_vars => OrderInv'
  BY OrderStep
<1> QED
  BY <1>1, OrderInit, TypesHold, PostedHolds, PTL DEF Spec
-----------------------------------------------------------------------------
(* The refinement of DocumentLog. *)

LEMMA InHandsAre ==
  \A d : d \in InHands <=> \E k \in Kinds : caller[k] = "send" /\ d = Newest(k)
BY DEF InHands

\* The documents of a kind in the batch are as many as their places in it.
LEMMA BatchCounts ==
  ASSUME TypeInv, PostedInv
  PROVE  /\ Cardinality(Range(batch)) = Len(batch)
         /\ \A k \in Kinds : Cardinality({d \in Range(batch) : d.kind = k}) = Cardinality(OfKind(k))
<1>1. /\ DOMAIN batch = 1..Len(batch) /\ Len(batch) \in Nat
      /\ \A i, j \in DOMAIN batch : batch[i] = batch[j] => i = j
  <2>1. batch \in Seq(Documents)
    BY DEF TypeInv, TypeOK
  <2>2. IsInjective(batch)
    BY DEF PostedInv, PostedOnce
  <2>3. \A i, j \in DOMAIN batch : batch[i] = batch[j] => i = j
    BY <2>2 DEF IsInjective
  <2> QED
    BY <2>1, <2>3
<1>2. ASSUME NEW P \in SUBSET (1..Len(batch)),
             NEW R, R = {batch[i] : i \in P}
      PROVE  Cardinality(R) = Cardinality(P)
  <2> DEFINE f == [i \in P |-> batch[i]]
  <2>1. f \in Bijection(P, R)
    <3>1. f \in [P -> R] /\ (\A i \in P : f[i] = batch[i])
      BY <1>2
    <3>2. \A i, j \in P : f[i] = f[j] => i = j
      BY <1>1, <3>1
    <3>3. \A d \in R : \E i \in P : f[i] = d
      BY <1>2, <3>1
    <3> HIDE DEF f
    <3> QED
      BY <3>1, <3>2, <3>3 DEF Bijection, Injection, Surjection, IsInjective
  <2>2. ExistsBijection(P, R)
    BY <2>1 DEF ExistsBijection
  <2>3. IsFiniteSet(P)
    <3>1. IsFiniteSet(1..Len(batch))
      BY <1>1, FS_Interval
    <3> QED
      BY <3>1, FS_Subset
  <2> QED
    BY <2>2, <2>3, FS_Bijection
<1>3. Cardinality(Range(batch)) = Len(batch)
  <2>1. Range(batch) = {batch[i] : i \in 1..Len(batch)}
    BY <1>1 DEF Range
  <2>2. Cardinality(1..Len(batch)) = Len(batch)
    BY <1>1, FS_Interval
  <2> QED
    BY <1>2, <2>1, <2>2
<1>4. ASSUME NEW k \in Kinds
      PROVE  Cardinality({d \in Range(batch) : d.kind = k}) = Cardinality(OfKind(k))
  <2>1. {d \in Range(batch) : d.kind = k} = {batch[i] : i \in OfKind(k)}
    BY DEF OfKind, Range
  <2>2. OfKind(k) \in SUBSET (1..Len(batch))
    BY <1>1 DEF OfKind
  <2> QED
    BY <1>2, <2>1, <2>2
<1> QED
  BY <1>3, <1>4

LEMMA InitLog == Init => Log!Init
<1> SUFFICES ASSUME Init PROVE Log!Init
  OBVIOUS
<1>1. Range(queue) = {} /\ Range(batch) = {}
  BY EmptySequence DEF Init
<1>2. InHands = {}
  BY DEF Init, InHands
<1> QED
  BY <1>1, <1>2 DEF Init, Log!Init, Pending, Phase, Kinds

\* A step that keeps what DocumentLog sees.
LEMMA LogStutter ==
  ASSUME Pending' = Pending, Phase' = Phase, UNCHANGED <<offered, refused, posted, stats>>
  PROVE  UNCHANGED Log!logVars
BY DEF Log!logVars, stats

LEMMA OfferLog ==
  ASSUME TypeInv, CloseOrder, NEW k \in Kinds, Offer(k)
  PROVE  Log!Offer(k)
<1>1. /\ caller[k] = "idle" /\ offered' = [offered EXCEPT ![k] = @ + 1]
      /\ UNCHANGED <<queue, batch, posted, stats, closer>>
      /\ offered \in [Kinds -> Nat] /\ caller \in [Kinds -> {"idle", "send"}]
  BY DEF Offer, remote, closeVars, TypeInv, TypeOK
<1>2. Phase = "open" <=> ~closed
  BY DEF Phase, CloseOrder
<1>3. \A j \in Kinds : j # k => Newest(j)' = Newest(j)
  BY <1>1 DEF Newest
<1>4. Phase' = Phase
  BY <1>1 DEF Phase
<1>5. CASE closed
  <2>1. UNCHANGED caller /\ refused' = refused + 1
    BY <1>5 DEF Offer
  <2>2. InHands' = InHands
    BY <1>1, <1>3, <2>1 DEF InHands
  <2>3. Pending' = Pending
    BY <1>1, <2>2 DEF Pending
  <2> QED
    BY <1>1, <1>2, <1>4, <1>5, <2>1, <2>3 DEF Log!Offer, stats
<1>6. CASE ~closed
  <2>1. caller' = [caller EXCEPT ![k] = "send"] /\ UNCHANGED refused
    BY <1>6 DEF Offer
  <2>2. \A j \in Kinds : caller'[j] = "send" <=> (caller[j] = "send" \/ j = k)
    BY <1>1, <2>1
  <2>3. InHands' = InHands \cup {Newest(k)'}
    BY <1>1, <1>3, <2>2 DEF InHands
  <2>4. Newest(k)' = [kind |-> k, num |-> offered'[k]]
    BY DEF Newest
  <2>5. Pending' = Pending \cup {[kind |-> k, num |-> offered'[k]]}
    BY <1>1, <2>3, <2>4 DEF Pending
  <2> QED
    BY <1>1, <1>2, <1>4, <1>6, <2>1, <2>5 DEF Log!Offer, stats
<1> QED
  BY <1>5, <1>6

LEMMA SendLog ==
  ASSUME TypeInv, PostedInv, NEW k \in Kinds, Send(k)
  PROVE  Log!Drop(k) \/ UNCHANGED Log!logVars
<1>1. /\ caller[k] = "send" /\ caller' = [caller EXCEPT ![k] = "idle"]
      /\ UNCHANGED <<batch, offered, refused, closer, posted, chatIndexed, clipsIndexed, bulkRequests>>
      /\ queue \in Seq(Documents) /\ caller \in [Kinds -> {"idle", "send"}]
  BY DEF Send, remote, closeVars, TypeInv, TypeOK
<1>2. Newest(k) \in Documents /\ Newest(k) \notin Range(queue) \cup Range(batch)
  BY <1>1, SendsADocument, NewestIsNewest DEF Seen
<1>3. Newest(k) \in InHands /\ InHands' = InHands \ {Newest(k)}
  <2>1. \A j \in Kinds : caller'[j] = "send" <=> (caller[j] = "send" /\ j # k)
    BY <1>1
  <2>2. \A j \in Kinds : Newest(j)' = Newest(j) /\ (Newest(j) = Newest(k) => j = k)
    BY <1>1 DEF Newest
  <2> QED
    BY <1>1, <2>1, <2>2 DEF InHands
<1>4. Phase' = Phase
  BY <1>1 DEF Phase
<1>5. CASE queue' = Append(queue, Newest(k)) /\ UNCHANGED failedDocs
  <2>1. Range(queue') = Range(queue) \cup {Newest(k)}
    BY <1>1, <1>2, <1>5, Appended
  <2>2. Pending' = Pending
    BY <1>1, <1>3, <2>1 DEF Pending
  <2> QED
    BY <1>1, <1>4, <1>5, <2>2, LogStutter DEF stats
<1>6. CASE failedDocs' = failedDocs + 1 /\ UNCHANGED queue
  <2>1. Newest(k) \in Pending /\ Pending' = Pending \ {Newest(k)}
    BY <1>1, <1>2, <1>3, <1>6 DEF Pending
  <2> QED
    BY <1>1, <1>4, <1>6, <2>1 DEF Log!Drop, Newest
<1> QED
  BY <1>5, <1>6 DEF Send

\* A bulk request is in order: what it leaves behind in the channel or with a
\* caller is newer, kind by kind.
LEMMA FlushLog ==
  ASSUME TypeInv, PostedInv, OrderInv, CloseOrder, FlushBatch,
         NEW request, request = Range(batch)
  PROVE  request \in SUBSET Pending /\ Log!Post(request)
<1>1. /\ worker \in DOMAIN AfterPost /\ posted' = posted \cup Range(batch)
      /\ batch' = <<>> /\ UNCHANGED <<queue, caller, offered, refused, closer>>
      /\ Accepted \/ Rejected
      /\ batch \in Seq(Documents) /\ Len(batch) <= BatchSize
  BY DEF FlushBatch, BatchAfterPost, callerVars, closeVars, TypeInv, TypeOK
<1>2. worker # "done"
  BY <1>1 DEF AfterPost
<1>3. Phase # "closed" /\ Phase' = Phase
  BY <1>1, <1>2 DEF Phase, CloseOrder
<1>4. InHands' = InHands
  BY <1>1 DEF InHands, Newest
<1>5. \A d \in Range(batch), e \in InHands : e \notin Range(batch) /\ Before(d, e)
  BY InHandsAre, NewestIsNewest DEF Seen
<1>6. Pending' = Pending \ Range(batch)
  <2>1. Range(batch') = {} /\ Range(queue) \cap Range(batch) = {}
    BY <1>1, EmptySequence DEF PostedInv, PostedOnce
  <2> QED
    BY <1>1, <1>4, <1>5, <2>1 DEF Pending
<1>7. Log!InOrder(request)
  BY <1>5 DEF Log!InOrder, OrderInv, Pending, Before
<1>8. Range(batch) # {}
  <2>1. batch # <<>> /\ DOMAIN batch = 1..Len(batch) /\ Len(batch) \in Nat \ {0}
    BY <1>1 DEF OrderInv
  <2>2. batch[1] \in Range(batch)
    BY <2>1 DEF Range
  <2> QED
    BY <2>2
<1>9. \A S : Log!Cardinality(S) = Cardinality(S)
  BY DEF Log!Cardinality, Cardinality
<1>10. Log!Cardinality(request) <= BatchSize
  BY <1>1, <1>9, BatchCounts
<1>11. Log!CountIndexed(request) \/ Log!CountFailed(request)
  <2>1. CASE Accepted
    <3>1. /\ Cardinality({d \in Range(batch) : d.kind = "chat"}) = Cardinality(OfKind("chat"))
          /\ Cardinality({d \in Range(batch) : d.kind = "clip"}) = Cardinality(OfKind("clip"))
      BY BatchCounts DEF Kinds
    <3> QED
      BY <1>9, <2>1, <3>1 DEF Accepted, Log!CountIndexed, Kinds
  <2>2. CASE Rejected
    <3>1. Log!Cardinality(request) = Len(batch)
      BY <1>9, BatchCounts
    <3> QED
      BY <2>2, <3>1 DEF Rejected, Failed, Log!CountFailed
  <2> QED
    BY <1>1, <2>1, <2>2
<1> QED
  BY <1>1, <1>3, <1>6, <1>7, <1>8, <1>10, <1>11 DEF Log!Post, Pending

LEMMA StepLog ==
  ASSUME TypeInv, PostedInv, OrderInv, CloseOrder, [Next]_vars
  PROVE  [Log!Next]_(Log!logVars)
<1>1. ASSUME NEW k \in Kinds, Offer(k) PROVE Log!Next
  BY <1>1, OfferLog DEF Log!Next
<1>2. ASSUME NEW k \in Kinds, Send(k) PROVE [Log!Next]_(Log!logVars)
  BY <1>2, SendLog DEF Log!Next
<1>3. CASE Receive
  <2>1. /\ queue # <<>> /\ batch' = Append(batch, Head(queue)) /\ queue' = Tail(queue)
        /\ UNCHANGED <<caller, offered, refused, closer, posted, stats>>
        /\ queue \in Seq(Documents) /\ batch \in Seq(Documents)
    BY <1>3 DEF Receive, callerVars, closeVars, remote, TypeInv, TypeOK
  <2>2. Range(queue) = {Head(queue)} \cup Range(queue') /\ Head(queue) \in Documents
    BY <2>1, HeadAndTail
  <2>3. Range(batch') = Range(batch) \cup {Head(queue)}
    BY <2>1, <2>2, Appended
  <2>4. InHands' = InHands
    BY <2>1 DEF InHands, Newest
  <2>5. Pending' = Pending /\ Phase' = Phase
    BY <2>1, <2>2, <2>3, <2>4 DEF Pending, Phase
  <2> QED
    BY <2>1, <2>5, LogStutter
<1>4. CASE FlushTick \/ SeeStop \/ DrainEnd \/ UNCHANGED vars
  <2>1. UNCHANGED <<queue, batch, caller, offered, refused, closer, posted, stats>>
    BY <1>4 DEF FlushTick, SeeStop, DrainEnd, callerVars, closeVars, remote, stats, vars
  <2>2. Pending' = Pending /\ Phase' = Phase
    BY <2>1 DEF Pending, InHands, Newest, Phase
  <2> QED
    BY <2>1, <2>2, LogStutter
<1>5. CASE FlushBatch
  <2>1. PICK request : request = Range(batch)
    OBVIOUS
  <2>2. request \in SUBSET Pending /\ Log!Post(request)
    BY <1>5, <2>1, FlushLog
  <2> QED
    BY <2>2 DEF Log!Next
<1>6. CASE SwapClosed \/ CloseStopCh \/ WaitWorker
  <2>1. UNCHANGED <<queue, batch, caller, offered, refused, posted, stats>>
    BY <1>6 DEF SwapClosed, CloseStopCh, WaitWorker, callerVars, remote
  <2>2. Pending' = Pending
    BY <2>1 DEF Pending, InHands, Newest
  <2>3. \/ Phase = "open" /\ Phase' = "closing"
        \/ Phase' = Phase
        \/ Phase = "closing" /\ Phase' = "closed"
    BY <1>6 DEF SwapClosed, CloseStopCh, WaitWorker, Phase
  <2>4. CASE Phase' = Phase
    BY <2>1, <2>2, <2>4, LogStutter
  <2>5. CASE Phase = "open" /\ Phase' = "closing"
    BY <2>1, <2>2, <2>5 DEF Log!Next, Log!StartClosing, stats
  <2>6. CASE Phase = "closing" /\ Phase' = "closed"
    BY <2>1, <2>2, <2>6 DEF Log!Next, Log!EndClosing, stats
  <2> QED
    BY <2>3, <2>4, <2>5, <2>6
<1> QED
  BY <1>1, <1>2, <1>3, <1>4, <1>5, <1>6 DEF Next, Worker

\* Whatever the channel, the batches, failed requests and Close do, the indexer is
\* a log in which nothing is overtaken, counted twice or posted after Close.
THEOREM ImplementsDocumentLog == Spec => IndexerIsDocumentLog
<1>1. TypeInv /\ PostedInv /\ OrderInv /\ CloseOrder /\ [Next]_vars => [Log!Next]_(Log!logVars)
  BY StepLog
<1> QED
  BY <1>1, InitLog, TypesHold, PostedHolds, OrderHolds, CloseOrderHolds, PTL
     DEF Spec, IndexerIsDocumentLog, Log!Spec
=============================================================================
