------------------------------ MODULE Delivery ------------------------------
(***************************************************************************)
(* What a durable subscription with explicit acks promises its handler     *)
(* (SubscribeChat and SubscribeFeatures in nats.go): every item published  *)
(* is handed over, one at a time and in the order of publishing, and acked *)
(* when the handler has returned.  Of an item not acked in time a copy may *)
(* be made, and then that item, and no other, may come again, late, or out *)
(* of order.                                                               *)
(***************************************************************************)
EXTENDS Integers

VARIABLES
  published,  \* number of items published
  copied,     \* items of which a copy was made
  inHand,     \* the item the handler has, 0 for none
  acked       \* items acked

deliveryVars == <<published, copied, inHand, acked>>

Init == published = 0 /\ copied = {} /\ inHand = 0 /\ acked = {}

PublishItem ==
  /\ published' = published + 1
  /\ UNCHANGED <<copied, inHand, acked>>

Copy(i) ==
  /\ i \notin acked
  /\ copied' = copied \cup {i}
  /\ UNCHANGED <<published, inHand, acked>>

\* Nothing is handed over before an item that was published earlier, but for copies.
InTurn(i) == i \notin acked /\ 1..(i - 1) \subseteq acked \cup copied

HandOver(i) ==
  /\ inHand = 0
  /\ i \in copied \/ InTurn(i)
  /\ inHand' = i
  /\ UNCHANGED <<published, copied, acked>>

AckItem ==
  /\ inHand # 0
  /\ acked' = acked \cup {inHand}
  /\ inHand' = 0
  /\ UNCHANGED <<published, copied>>

Next ==
  \/ PublishItem
  \/ \E i \in 1..published : Copy(i) \/ HandOver(i)
  \/ AckItem

Spec == Init /\ [][Next]_deliveryVars
=============================================================================
