----------------------------- MODULE SoeDelivery -----------------------------
(* What the SOE path promises (说明书 5.4 and fix H1 in pemp_server.cxx): an  *)
(* event the server has taken over is delivered at most once, an event is    *)
(* lost only with a connection that breaks after it was written to it, and,  *)
(* if Ordered, the events of one source are delivered in their order.        *)
EXTENDS Naturals

CONSTANTS
  Source,   \* where events come from
  MaxSeq,   \* bound: events of one source
  Ordered   \* the order of a source's events is kept

Event == [source : Source, seq : 1 .. MaxSeq]

VARIABLES pending, delivered, dropped

vars == <<pending, delivered, dropped>>

Earlier(e, f) == e.source = f.source /\ e.seq < f.seq

\* No event of S overtakes a pending one of the same source.
InOrder(S) == \A e \in S, f \in pending : Earlier(f, e) => f \in S

Init == pending = {} /\ delivered = {} /\ dropped = {}

Take(e) ==
  /\ e \notin pending \cup delivered \cup dropped
  /\ pending' = pending \cup {e}
  /\ UNCHANGED <<delivered, dropped>>

Deliver(S) ==
  /\ Ordered => InOrder(S)
  /\ pending' = pending \ S /\ delivered' = delivered \cup S
  /\ UNCHANGED dropped

Drop(S) ==
  /\ pending' = pending \ S /\ dropped' = dropped \cup S
  /\ UNCHANGED delivered

Next ==
  \/ \E e \in Event : Take(e)
  \/ \E S \in SUBSET pending : Deliver(S) \/ Drop(S)

Spec == Init /\ [][Next]_vars
=============================================================================
