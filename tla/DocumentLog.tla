---------------------------- MODULE DocumentLog -----------------------------
(***************************************************************************)
(* What the indexer promises, whatever its channel, its batches and its    *)
(* worker: a document is posted at most once, with others of its kind in   *)
(* the order in which they were offered and none of them overtaken; it is  *)
(* counted when it is posted or dropped, under its own kind; and when      *)
(* Close has returned nothing is posted any more.                          *)
(***************************************************************************)
EXTENDS Integers, FiniteSets

CONSTANTS
  Kinds,       \* kinds of document
  MaxRequest   \* documents posted together

VARIABLES
  offered,   \* per kind: documents offered; a document is its kind and its number
  phase,     \* "open", "closing" or "closed"
  refused,   \* documents offered when it was not open any more
  pending,   \* documents neither refused, dropped nor posted
  posted,    \* documents posted
  indexed,   \* per kind: documents counted as indexed
  failed,    \* documents counted as failed
  requests   \* requests counted

logVars == <<offered, phase, refused, pending, posted, indexed, failed, requests>>

Init ==
  /\ offered = [k \in Kinds |-> 0]
  /\ phase = "open"
  /\ refused = 0 /\ pending = {} /\ posted = {}
  /\ indexed = [k \in Kinds |-> 0] /\ failed = 0 /\ requests = 0

Offer(k) ==
  /\ offered' = [offered EXCEPT ![k] = @ + 1]
  /\ \/ /\ phase = "open"
        /\ pending' = pending \cup {[kind |-> k, num |-> offered'[k]]}
        /\ UNCHANGED refused
     \/ /\ phase # "open"
        /\ refused' = refused + 1
        /\ UNCHANGED pending
  /\ UNCHANGED <<phase, posted, indexed, failed, requests>>

\* Only the document offered last can be dropped.
Drop(k) ==
  LET newest == [kind |-> k, num |-> offered[k]]
  IN /\ newest \in pending
     /\ pending' = pending \ {newest}
     /\ failed' = failed + 1
     /\ UNCHANGED <<offered, phase, refused, posted, indexed, requests>>

\* No document of the request overtakes a pending one of its kind.
InOrder(request) ==
  \A d \in request, e \in pending \ request : d.kind = e.kind => d.num < e.num

CountIndexed(request) ==
  /\ indexed' = [k \in Kinds |-> indexed[k] + Cardinality({d \in request : d.kind = k})]
  /\ requests' = requests + 1
  /\ UNCHANGED failed

CountFailed(request) ==
  /\ failed' = failed + Cardinality(request)
  /\ UNCHANGED <<indexed, requests>>

Post(request) ==
  /\ phase # "closed"
  /\ request # {} /\ Cardinality(request) <= MaxRequest
  /\ InOrder(request)
  /\ pending' = pending \ request
  /\ posted' = posted \cup request
  /\ CountIndexed(request) \/ CountFailed(request)
  /\ UNCHANGED <<offered, phase, refused>>

StartClosing ==
  /\ phase = "open"
  /\ phase' = "closing"
  /\ UNCHANGED <<offered, refused, pending, posted, indexed, failed, requests>>

EndClosing ==
  /\ phase = "closing"
  /\ phase' = "closed"
  /\ UNCHANGED <<offered, refused, pending, posted, indexed, failed, requests>>

Next ==
  \/ \E k \in Kinds : Offer(k) \/ Drop(k)
  \/ \E request \in SUBSET pending : Post(request)
  \/ StartClosing \/ EndClosing

Spec == Init /\ [][Next]_logVars
=============================================================================
