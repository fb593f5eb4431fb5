------------------------------ MODULE SOEQueue ------------------------------
(* The SOE event queue (src/src/soe_queue.cxx).  Each method runs under mtx_ *)
(* from beginning to end, so it is an operator on the contents of events_.   *)
EXTENDS Naturals, Sequences

CONSTANT MaxSize  \* maxSize_, 0 for no limit

ASSUME QueueAssumption == MaxSize \in Nat

Least(a, b) == IF a <= b THEN a ELSE b

\* A full queue gives up its oldest event.
Push(q, ev) ==
  IF MaxSize > 0 /\ Len(q) >= MaxSize THEN Append(Tail(q), ev) ELSE Append(q, ev)

\* How many of n events PushFrontBatch puts back: every event put back counts
\* twice against maxSize_, in events_.size() and in added.
Added(q, n) ==
  IF MaxSize = 0 THEN n
  ELSE IF Len(q) >= MaxSize THEN 0
  ELSE Least(n, (MaxSize - Len(q) + 1) \div 2)

\* From the newest to the oldest the batch goes to the front.
PushFrontBatch(q, batch) ==
  SubSeq(batch, Len(batch) - Added(q, Len(batch)) + 1, Len(batch)) \o q
=============================================================================
