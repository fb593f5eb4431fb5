---------------------------- MODULE MCRemoteData ----------------------------
(* Instances of RemoteData for TLC. *)
EXTENDS RemoteData

CONSTANTS w1, w2, d1, x1, s1, s2

\* x1 is written by w1, every other point by both writers.
MCOwner == [p \in {d1, x1} \cap Point |-> IF p = x1 THEN {w1} ELSE {w1, w2} \cap Writer]

\* s1 subscribed before s2.
MCFirstHandlers == SelectSeq(<<s1, s2>>, LAMBDA s : s \in Subscriber)

=============================================================================
