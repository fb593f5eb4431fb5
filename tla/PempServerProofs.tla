-------------------------- MODULE PempServerProofs --------------------------
(***************************************************************************)
(* Safety of PempServer for every number of sources, connections and       *)
(* devices: types, the bound of clientThreads_, one upload at a time, and  *)
(* that the server implements SoeDelivery.                                 *)
(***************************************************************************)
EXTENDS PempServer, SequenceTheorems, FiniteSetTheorems, TLAPS

-----------------------------------------------------------------------------
(* Lemmas about the operators of the model *)

\* The smaller of two numbers.
LEMMA LeastNat ==
  ASSUME NEW a \in Nat, NEW b \in Nat
  PROVE  Least(a, b) \in Nat /\ Least(a, b) <= a /\ Least(a, b) <= b
BY DEF Least

\* The tail of a sequence, from any position, and its beginning.
LEMMA SplitTyped ==
  ASSUME NEW S, NEW s \in Seq(S), NEW n \in 0 .. Len(s)
  PROVE  /\ SubSeq(s, 1, n) \in Seq(S) /\ Len(SubSeq(s, 1, n)) = n
         /\ SubSeq(s, n + 1, Len(s)) \in Seq(S) /\ Len(SubSeq(s, n + 1, Len(s))) = Len(s) - n
         /\ \A i \in 1 .. n : SubSeq(s, 1, n)[i] = s[i]
         /\ \A i \in 1 .. Len(s) - n : SubSeq(s, n + 1, Len(s))[i] = s[n + i]
<1>1. Len(s) \in Nat /\ \A j \in 1 .. Len(s) : s[j] \in S
  BY LenProperties, ElementOfSeq
<1>2. \A j \in 1 .. n : s[j] \in S
  BY <1>1
<1>3. /\ SubSeq(s, 1, n) \in Seq(S) /\ Len(SubSeq(s, 1, n)) = n
      /\ \A i \in 1 .. n : SubSeq(s, 1, n)[i] = s[i]
  BY <1>1, <1>2, SubSeqProperties
<1>4. \A j \in n + 1 .. Len(s) : s[j] \in S
  BY <1>1
<1>5. /\ SubSeq(s, n + 1, Len(s)) \in Seq(S)
      /\ Len(SubSeq(s, n + 1, Len(s))) = Len(s) - n
      /\ \A i \in 1 .. Len(s) - n : SubSeq(s, n + 1, Len(s))[i] = s[n + i]
  BY <1>1, <1>4, SubSeqProperties
<1>. QED  BY <1>3, <1>5

\* What PushFrontBatch puts back is the newest part of the batch.
LEMMA AddedBounds ==
  ASSUME NEW q \in Seq(Event), NEW n \in Nat
  PROVE  Added(q, n) \in 0 .. n
<1>1. Len(q) \in Nat
  BY LenProperties
<1>2. CASE MaxSize = 0 \/ Len(q) >= MaxSize
  BY <1>2 DEF Added
<1>3. CASE MaxSize # 0 /\ Len(q) < MaxSize
  <2>1. MaxSize - Len(q) + 1 \in Nat
    BY <1>1, <1>3, QueueAssumption
  <2>2. (MaxSize - Len(q) + 1) \div 2 \in Nat
    BY <2>1
  <2>3. Added(q, n) = Least(n, (MaxSize - Len(q) + 1) \div 2)
    BY <1>1, <1>3, QueueAssumption DEF Added
  <2>. QED  BY <2>2, <2>3, LeastNat
<1>. QED  BY <1>1, <1>2, <1>3, QueueAssumption

\* The methods of SOEQueue keep a queue of events.
LEMMA PushTyped ==
  ASSUME NEW q \in Seq(Event), NEW e \in Event
  PROVE  Push(q, e) \in Seq(Event)
<1>1. CASE MaxSize > 0 /\ Len(q) >= MaxSize
  <2>1. q # <<>>
    BY <1>1, QueueAssumption, EmptySeq
  <2>. QED  BY <1>1, <2>1, HeadTailProperties, AppendProperties DEF Push
<1>. QED  BY <1>1, AppendProperties DEF Push

\* pushFrontBatch keeps a sequence of events.
LEMMA PushFrontTyped ==
  ASSUME NEW q \in Seq(Event), NEW b \in Seq(Event)
  PROVE  PushFrontBatch(q, b) \in Seq(Event)
<1>1. Len(b) \in Nat
  BY LenProperties
<1>2. Added(q, Len(b)) \in 0 .. Len(b)
  BY <1>1, AddedBounds
<1>3. Len(b) - Added(q, Len(b)) \in 0 .. Len(b)
  BY <1>1, <1>2
<1>4. SubSeq(b, Len(b) - Added(q, Len(b)) + 1, Len(b)) \in Seq(Event)
  BY <1>3, SplitTyped
<1>. QED  BY <1>4, ConcatProperties DEF PushFrontBatch

-----------------------------------------------------------------------------
(* Types *)

\* The phases, the accept thread and the counters stay typed.
LEMMA ServerStep ==
  ASSUME PempTypeOK, [PempNext]_pempVars
  PROVE  ServerTypes'
<1>. USE DEF ServerTypes
<1>t. ServerTypes
  BY DEF PempTypeOK
<1>1. CASE StartServer
  BY <1>t, <1>1, ServerAssumption DEF StartServer
<1>2. CASE Subscribe \/ CloseListeners
  BY <1>t, <1>2 DEF Subscribe, CloseListeners
<1>3. CASE JoinAll \/ EndAccept \/ StopServer
  BY <1>t, <1>3 DEF JoinAll, EndAccept, StopServer
<1>4. ASSUME NEW c \in Client, Accept(c)
      PROVE  ServerTypes'
  <2>1. accepts + 1 \in Nat /\ CleanupPeriod \in Nat \ {0}
    BY <1>t, ServerAssumption
  <2>2. (accepts + 1) % CleanupPeriod \in 0 .. CleanupPeriod - 1
    BY <2>1
  <2>. QED  BY <1>t, <1>4, <2>2 DEF Accept
<1>5. ASSUME NEW c \in Client,
             Handler(c) \/ (\E frame \in Frames : RecvFrame(c, frame))
      PROVE  UNCHANGED server
  BY <1>5 DEF Handler, Top, RecvTimeout, RecvClosed, Upload, SendDi, SendAi, SendRaises, Pop,
     SendSoe, SendSoeRaises, RecvFrame
<1>6. ASSUME NEW c \in Client, Read(c) \/ Stall(c) \/ Unstall(c) \/ Cut(c)
      PROVE  UNCHANGED server
  BY <1>6 DEF Read, Stall, Unstall, Cut
<1>7. ASSUME NEW s \in Source, Publish(s) \/ Handle(s)
      PROVE  UNCHANGED server
  BY <1>7 DEF Publish, Handle
<1>8. CASE UNCHANGED pempVars
  BY <1>t, <1>8 DEF pempVars, server
<1>. QED
  BY <1>t, <1>1, <1>2, <1>3, <1>4, <1>5, <1>6, <1>7, <1>8 DEF PempNext, Server, server

\* Whatever moves, it is events that move.
LEMMA EventStep ==
  ASSUME PempTypeOK, [PempNext]_pempVars
  PROVE  EventTypes'
<1>. USE DEF EventTypes
<1>t. EventTypes
  BY DEF PempTypeOK
<1>1. ASSUME NEW s \in Source, Publish(s)
      PROVE  EventTypes'
  <2>1. published[s] + 1 \in 1 .. MaxSeq
    BY <1>t, <1>1, ServerAssumption DEF Publish
  <2>2. [source |-> s, seq |-> published[s] + 1] \in Event
    BY <2>1 DEF Event
  <2>3. published' \in [Source -> 0 .. MaxSeq]
    BY <1>t, <1>1, <2>1 DEF Publish
  <2>4. handling' \in [Source -> 0 .. MaxSeq]
    BY <1>t, <1>1, <2>1 DEF Publish
  <2>5. taken' \subseteq Event
    BY <1>t, <1>1, <2>2 DEF Publish
  <2>. QED  BY <1>t, <1>1, <2>3, <2>4, <2>5 DEF Publish, clients, fate
<1>2. ASSUME NEW s \in Source, Handle(s)
      PROVE  EventTypes'
  <2>1. [source |-> s, seq |-> handling[s]] \in Event
    BY <1>t, <1>2 DEF Handle, Event
  <2>2. events' \in Seq(Event)
    BY <1>t, <1>2, <2>1, PushTyped DEF Handle
  <2>3. handling' \in [Source -> 0 .. MaxSeq]
    BY <1>t, <1>2, ServerAssumption DEF Handle
  <2>. QED  BY <1>t, <1>2, <2>2, <2>3 DEF Handle, clients, fate
<1>3. ASSUME NEW c \in Client, Pop(c)
      PROVE  EventTypes'
  <2>1. events' \in Seq(Event)
    BY <1>3, EmptySeq DEF Pop
  <2>. QED  BY <1>t, <1>3, <2>1 DEF Pop, fate
<1>4. ASSUME NEW c \in Client, SendSoe(c)
      PROVE  EventTypes'
  <2>. DEFINE n == Least(Len(batch[c]), CountLimit)
              gone == Elements(SubSeq(batch[c], 1, n))
              rest == SubSeq(batch[c], n + 1, Len(batch[c]))
  <2>1. batch[c] \in Seq(Event) /\ Len(batch[c]) \in Nat /\ n \in 0 .. Len(batch[c])
    BY <1>t, LenProperties, LeastNat, ServerAssumption
  <2>2. gone \subseteq Event /\ rest \in Seq(Event)
    BY <2>1, SplitTyped, ElementOfSeq DEF Elements
  <2>3. events' \in Seq(Event)
    BY <1>t, <1>4, <2>2, PushFrontTyped DEF SendSoe
  <2>4. batch' \in [Client -> Seq(Event)]
    BY <1>t, <1>4, EmptySeq DEF SendSoe
  <2>5. flight' \in [Client -> SUBSET Event] /\ dropped' \subseteq Event
    BY <1>t, <1>4, <2>2 DEF SendSoe
  <2>. QED  BY <1>t, <1>4, <2>3, <2>4, <2>5 DEF SendSoe
<1>5. ASSUME NEW c \in Client, SendSoeRaises(c)
      PROVE  EventTypes'
  <2>1. events' \in Seq(Event)
    BY <1>t, <1>5, PushFrontTyped DEF SendSoeRaises
  <2>2. batch' \in [Client -> Seq(Event)]
    BY <1>t, <1>5, EmptySeq DEF SendSoeRaises
  <2>. QED  BY <1>t, <1>5, <2>1, <2>2 DEF SendSoeRaises, fate
<1>6. ASSUME NEW c \in Client, Read(c) \/ Cut(c)
      PROVE  EventTypes'
  BY <1>t, <1>6 DEF Read, Cut
<1>. DEFINE Same == UNCHANGED <<published, handling, events, batch, flight, taken, fate>>
<1>7. ASSUME NEW c \in Client,
             \/ Top(c) \/ RecvTimeout(c) \/ RecvClosed(c) \/ Upload(c)
             \/ SendDi(c) \/ SendAi(c) \/ SendRaises(c)
             \/ \E frame \in Frames : RecvFrame(c, frame)
      PROVE  Same
  BY <1>7 DEF Top, RecvTimeout, RecvClosed, Upload, SendDi, SendAi, SendRaises, RecvFrame
<1>8. ASSUME NEW c \in Client, Accept(c) \/ Stall(c) \/ Unstall(c)
      PROVE  Same
  BY <1>8 DEF Accept, Stall, Unstall
<1>9. ASSUME Server \/ StopServer \/ UNCHANGED pempVars
      PROVE  Same
  BY <1>9 DEF Server, StartServer, Subscribe, CloseListeners, JoinAll, EndAccept, StopServer, pempVars, clients
<1>10. Same => EventTypes'
  BY <1>t DEF fate
<1>. QED
  BY <1>1, <1>2, <1>3, <1>4, <1>5, <1>6, <1>7, <1>8, <1>9, <1>10 DEF PempNext, Handler

\* A client_handler that returns leaves typed variables behind.
LEMMA ReturnTyped ==
  ASSUME ClientTypes, NEW c \in Client, Return(c), UNCHANGED link
  PROVE  ClientTypes'
BY ServerAssumption DEF ClientTypes, Return, GoesTo

\* Ages stop at their limits.
LEMMA ElapseTyped ==
  ASSUME ClientTypes, NEW c \in Client, NEW ticks \in Nat, Elapse(c, ticks)
  PROVE  /\ ackAge' \in [Client -> 0 .. AckTicks]
         /\ diAge' \in [Client -> 0 .. DiInterval] /\ aiAge' \in [Client -> 0 .. AiInterval]
<1>1. \A a \in Nat, b \in Nat : Least(a + ticks, b) \in 0 .. b
  BY DEF Least
<1>2. /\ \A i \in 0 .. AckTicks : Least(i + ticks, AckTicks) \in 0 .. AckTicks
      /\ \A i \in 0 .. DiInterval : Least(i + ticks, DiInterval) \in 0 .. DiInterval
      /\ \A i \in 0 .. AiInterval : Least(i + ticks, AiInterval) \in 0 .. AiInterval
  <2>1. AckTicks \in Nat /\ DiInterval \in Nat /\ AiInterval \in Nat
    BY ServerAssumption
  <2>. QED  BY <1>1, <2>1
<1>. QED  BY <1>2 DEF ClientTypes, Elapse

\* What a handler does on its way keeps the types of its variables.
LEMMA ClientStep ==
  ASSUME PempTypeOK, [PempNext]_pempVars
  PROVE  ClientTypes'
<1>. USE DEF ClientTypes, GoesTo
<1>t. ClientTypes /\ ServerTypes
  BY DEF PempTypeOK
<1>1. ASSUME NEW c \in Client, Top(c)
      PROVE  ClientTypes'
  <2>1. CASE pempRunning
    <3>1. /\ waitingAck' = [waitingAck EXCEPT ![c] = @ /\ ackAge[c] < AckTicks]
          /\ unanswered' = [unanswered EXCEPT ![c] = IF ackAge[c] < AckTicks THEN @ ELSE 0]
          /\ pc' = [pc EXCEPT ![c] = "recv"]
          /\ UNCHANGED <<active, ackAge, diAge, aiAge, link>>
      BY <1>1, <2>1 DEF Top
    <3>2. waitingAck' \in [Client -> BOOLEAN]
      BY <1>t, <3>1, Zenon
    <3>3. unanswered' \in [Client -> 0 .. 2]
      BY <1>t, <3>1
    <3>. QED  BY <1>t, <3>1, <3>2, <3>3
  <2>2. CASE ~pempRunning
    BY <1>t, <1>1, <2>2, ReturnTyped DEF Top
  <2>. QED  BY <2>1, <2>2
<1>2. ASSUME NEW c \in Client, RecvTimeout(c)
      PROVE  ClientTypes'
  BY <1>t, <1>2, ElapseTyped DEF RecvTimeout
<1>3. ASSUME NEW c \in Client, NEW frame \in Frames, RecvFrame(c, frame)
      PROVE  ClientTypes'
  <2>1. PICK ticks \in {0, 1} : Elapse(c, ticks)
    BY <1>3 DEF RecvFrame
  <2>2. /\ ackAge' \in [Client -> 0 .. AckTicks]
        /\ diAge' \in [Client -> 0 .. DiInterval] /\ aiAge' \in [Client -> 0 .. AiInterval]
    BY <1>t, <2>1, ElapseTyped
  <2>3. waitingAck' \in [Client -> BOOLEAN]
    BY <1>t, <1>3 DEF RecvFrame
  <2>4. active' \in [Client -> BOOLEAN]
    BY <1>t, <1>3, Zenon DEF RecvFrame
  <2>5. unanswered' \in [Client -> 0 .. 2]
    BY <1>t, <1>3 DEF RecvFrame
  <2>. QED  BY <1>t, <1>3, <2>2, <2>3, <2>4, <2>5 DEF RecvFrame
<1>4. ASSUME NEW c \in Client, RecvClosed(c) \/ SendRaises(c)
      PROVE  ClientTypes'
  BY <1>t, <1>4, ReturnTyped DEF RecvClosed, SendRaises
<1>5. ASSUME NEW c \in Client, Upload(c)
      PROVE  ClientTypes'
  <2>1. NextUpload(c) \in {"top", "sendDi", "sendAi", "pop"}
    BY DEF NextUpload
  <2>. QED  BY <1>t, <1>5, <2>1 DEF Upload, timers
<1>6. ASSUME NEW c \in Client, NEW n \in Nat, Sent(c, n)
      PROVE  /\ pc' = [pc EXCEPT ![c] = "top"]
             /\ waitingAck' \in [Client -> BOOLEAN] /\ ackAge' \in [Client -> 0 .. AckTicks]
             /\ unanswered' \in [Client -> 0 .. 2]
  <2>1. unanswered[c] + n \in Nat
    BY <1>t
  <2>2. Least(unanswered[c] + n, 2) \in 0 .. 2
    BY <2>1 DEF Least
  <2>. QED  BY <1>t, <1>6, <2>2, ServerAssumption DEF Sent
<1>7. ASSUME NEW c \in Client, SendDi(c) \/ SendAi(c)
      PROVE  ClientTypes'
  <2>1. Sent(c, NumDevices) /\ NumDevices \in Nat
    BY <1>7, ServerAssumption DEF SendDi, SendAi
  <2>2. diAge' \in [Client -> 0 .. DiInterval] /\ aiAge' \in [Client -> 0 .. AiInterval]
    BY <1>t, <1>7, ServerAssumption DEF SendDi, SendAi
  <2>. QED  BY <1>t, <1>6, <1>7, <2>1, <2>2 DEF SendDi, SendAi
<1>8. ASSUME NEW c \in Client, SendSoe(c)
      PROVE  ClientTypes'
  BY <1>t, <1>6, <1>8 DEF SendSoe
<1>9. ASSUME NEW c \in Client, Pop(c) \/ SendSoeRaises(c)
      PROVE  ClientTypes'
  BY <1>t, <1>9 DEF Pop, SendSoeRaises, timers
<1>10. ASSUME NEW c \in Client, Accept(c)
       PROVE  ClientTypes'
  BY <1>t, <1>10 DEF Accept, Cleaned, timers
<1>11. ASSUME NEW c \in Client, Read(c) \/ Stall(c) \/ Unstall(c) \/ Cut(c)
       PROVE  ClientTypes'
  BY <1>t, <1>11 DEF Read, Stall, Unstall, Cut, timers
<1>12. CASE JoinAll
  BY <1>t, <1>12 DEF JoinAll, timers
<1>13. CASE StartServer \/ Subscribe \/ CloseListeners \/ EndAccept \/ StopServer \/ UNCHANGED pempVars
  BY <1>t, <1>13 DEF StartServer, Subscribe, CloseListeners, EndAccept, StopServer, pempVars, clients, timers
<1>14. ASSUME NEW s \in Source, Publish(s) \/ Handle(s)
       PROVE  ClientTypes'
  BY <1>t, <1>14 DEF Publish, Handle, clients, timers
<1>. QED
  BY <1>1, <1>2, <1>3, <1>4, <1>5, <1>7, <1>8, <1>9, <1>10, <1>11, <1>12, <1>13, <1>14
     DEF PempNext, Server, Handler

\* The variables have their types at the start.
LEMMA InitTypes ==
  ASSUME PempInit
  PROVE  PempTypeOK
BY ServerAssumption, EmptySeq DEF PempInit, PempTypeOK, ServerTypes, EventTypes, ClientTypes

\* Every variable of the server keeps its type: the queue and the batches hold
\* events that were published, an age never passes its limit.
THEOREM TypeCorrect == PempSpec => []PempTypeOK
<1>1. PempTypeOK /\ [PempNext]_pempVars => PempTypeOK'
  BY ServerStep, EventStep, ClientStep DEF PempTypeOK
<1>. QED  BY <1>1, InitTypes, PTL DEF PempSpec

-----------------------------------------------------------------------------
(* clientThreads_ *)

Occupied == {c \in Client : pc[c] # "free"}

\* Between two cleanups each accept adds one thread to those that still ran at
\* the last one; stopped, the server has none.
ThreadInv ==
  /\ Cardinality(Occupied) <= MaxLive + accepts
  /\ pempPhase = "down" => Occupied = {} /\ ~accepting

\* Counting accepts modulo the period.
LEMMA Modulo ==
  ASSUME NEW a \in Nat, NEW b \in Nat \ {0}, a < b
  PROVE  (a + 1) % b = IF a + 1 = b THEN 0 ELSE a + 1
<1>1. CASE a + 1 = b
  <2>1. b % b = 0
    OBVIOUS
  <2>. QED  BY <1>1, <2>1
<1>2. CASE a + 1 < b
  <2>1. \A n \in Nat : n < b => n % b = n
    OBVIOUS
  <2>. QED  BY <1>2, <2>1
<1>. QED  BY <1>1, <1>2

\* Every step keeps the bound: an accept adds one, a cleanup leaves those that run.
LEMMA ThreadInvStep ==
  ASSUME PempTypeOK, ThreadInv, [PempNext]_pempVars
  PROVE  ThreadInv'
<1>t. ServerTypes /\ ClientTypes /\ ThreadInv
  BY DEF PempTypeOK
<1>f. IsFiniteSet(Occupied) /\ IsFiniteSet(Occupied')
  BY ServerAssumption, FS_Subset DEF Occupied
<1>c. Cardinality(Occupied) \in Nat /\ Cardinality(Occupied') \in Nat
      /\ MaxLive \in Nat /\ accepts \in Nat
  BY <1>t, <1>f, FS_CardinalityType, ServerAssumption DEF ServerTypes
<1>1. ASSUME NEW c \in Client, Accept(c)
      PROVE  ThreadInv'
  <2>. DEFINE n == accepts + 1
  <2>1. /\ accepting /\ pc' = [Cleaned(n) EXCEPT ![c] = "top"] /\ accepts' = n % CleanupPeriod
        /\ Cardinality(Live \cup {k \in Client : flight[k] # {}}) < MaxLive
        /\ UNCHANGED <<pempPhase, accepting>>
    BY <1>1 DEF Accept
  <2>2. accepts' = IF n = CleanupPeriod THEN 0 ELSE n
    BY <1>t, <2>1, ServerAssumption, Modulo DEF ServerTypes
  <2>3. CASE n % CleanupPeriod # 0
    <3>1. Occupied' \subseteq Occupied \cup {c}
      BY <1>t, <2>1, <2>3 DEF Occupied, Cleaned, ClientTypes
    <3>2. Cardinality(Occupied') <= Cardinality(Occupied) + 1
      <4>1. IsFiniteSet(Occupied \cup {c}) /\ Cardinality(Occupied \cup {c}) <= Cardinality(Occupied) + 1
        <5>1. /\ IsFiniteSet(Occupied \cup {c})
              /\ Cardinality(Occupied \cup {c}) =
                   IF c \in Occupied THEN Cardinality(Occupied) ELSE Cardinality(Occupied) + 1
          BY <1>f, FS_AddElement, Zenon
        <5>. QED  BY <1>c, <5>1
      <4>2. Cardinality(Occupied') <= Cardinality(Occupied \cup {c})
        BY <3>1, <4>1, FS_Subset
      <4>. QED  BY <1>c, <4>1, <4>2, FS_CardinalityType
    <3>3. accepts' = accepts + 1
      BY <2>1, <2>2, <2>3
    <3>. QED  BY <1>c, <1>t, <2>1, <3>2, <3>3 DEF ThreadInv
  <2>4. CASE n % CleanupPeriod = 0
    <3>1. Occupied' \subseteq Live \cup {c}
      BY <1>t, <2>1, <2>4 DEF Occupied, Cleaned, ClientTypes, Live
    <3>2. /\ Live \cup {k \in Client : flight[k] # {}} \subseteq Client /\ Live \subseteq Client
          /\ Live \subseteq Live \cup {k \in Client : flight[k] # {}}
      BY DEF Live
    <3>3. IsFiniteSet(Live) /\ Cardinality(Live) \in Nat /\ Cardinality(Live) < MaxLive
      <4>1. IsFiniteSet(Live \cup {k \in Client : flight[k] # {}}) /\ IsFiniteSet(Live)
        BY <3>2, ServerAssumption, FS_Subset
      <4>2. Cardinality(Live) <= Cardinality(Live \cup {k \in Client : flight[k] # {}})
        BY <3>2, <4>1, FS_Subset
      <4>. QED  BY <1>c, <2>1, <4>1, <4>2, FS_CardinalityType
    <3>4. Cardinality(Occupied') <= Cardinality(Live) + 1
      <4>1. IsFiniteSet(Live \cup {c}) /\ Cardinality(Live \cup {c}) <= Cardinality(Live) + 1
        BY <3>3, FS_AddElement
      <4>2. Cardinality(Occupied') <= Cardinality(Live \cup {c})
        BY <3>1, <4>1, FS_Subset
      <4>. QED  BY <1>c, <3>3, <4>1, <4>2, FS_CardinalityType
    <3>5. accepts' = 0
      BY <2>1, <2>4
    <3>. QED  BY <1>c, <1>t, <2>1, <3>3, <3>4, <3>5 DEF ThreadInv
  <2>. QED  BY <2>3, <2>4
<1>2. ASSUME Occupied' \subseteq Occupied, UNCHANGED <<pempPhase, accepting, accepts>>
      PROVE  ThreadInv'
  <2>1. Cardinality(Occupied') <= Cardinality(Occupied)
    BY <1>2, <1>f, FS_Subset
  <2>. QED  BY <1>c, <1>t, <1>2, <2>1 DEF ThreadInv
<1>3. ASSUME NEW c \in Client,
             Handler(c) \/ \E frame \in Frames : RecvFrame(c, frame)
      PROVE  ThreadInv'
  <2>1. pc[c] # "free"
    BY <1>3 DEF Handler, Top, RecvTimeout, RecvClosed, Upload, SendDi, SendAi, SendRaises, Pop,
       SendSoe, SendSoeRaises, RecvFrame
  <2>2. /\ \E l : pc' = [pc EXCEPT ![c] = l]
        /\ UNCHANGED server
    BY <1>3 DEF Handler, Top, RecvTimeout, RecvClosed, Upload, SendDi, SendAi, SendRaises, Pop,
       SendSoe, SendSoeRaises, RecvFrame, Sent, Return, GoesTo
  <2>3. Occupied' \subseteq Occupied
    BY <1>t, <2>1, <2>2 DEF Occupied, ClientTypes
  <2>. QED  BY <1>2, <2>2, <2>3 DEF server
<1>4. CASE StartServer
  <2>1. accepts' = 0 /\ pempPhase' = "starting" /\ UNCHANGED pc /\ pempPhase = "down"
    BY <1>4 DEF StartServer, clients
  <2>2. Occupied' = {}
    BY <1>t, <2>1 DEF ThreadInv, Occupied
  <2>. QED  BY <1>c, <2>1, <2>2, FS_EmptySet DEF ThreadInv
<1>5. CASE JoinAll
  <2>1. Occupied' = {}
    BY <1>5 DEF JoinAll, Occupied
  <2>2. ~accepting' /\ UNCHANGED accepts
    BY <1>5 DEF JoinAll
  <2>. QED  BY <1>c, <2>1, <2>2, FS_EmptySet DEF ThreadInv
<1>6. CASE Subscribe \/ CloseListeners \/ StopServer
  <2>1. UNCHANGED <<pc, accepts>> /\ pempPhase' # "down"
    BY <1>6 DEF Subscribe, CloseListeners, StopServer, clients
  <2>2. Occupied' = Occupied
    BY <2>1 DEF Occupied
  <2>. QED  BY <1>t, <2>1, <2>2 DEF ThreadInv
<1>7. CASE EndAccept
  <2>1. UNCHANGED <<pc, accepts, pempPhase>> /\ ~accepting'
    BY <1>7 DEF EndAccept, clients
  <2>2. Occupied' = Occupied
    BY <2>1 DEF Occupied
  <2>. QED  BY <1>t, <2>1, <2>2 DEF ThreadInv
<1>8. ASSUME UNCHANGED <<server, pc>>
      PROVE  ThreadInv'
  BY <1>2, <1>8 DEF server, Occupied
<1>9. ASSUME NEW c \in Client, Read(c) \/ Stall(c) \/ Unstall(c) \/ Cut(c)
      PROVE  ThreadInv'
  BY <1>8, <1>9 DEF Read, Stall, Unstall, Cut
<1>10. ASSUME NEW s \in Source, Publish(s) \/ Handle(s)
       PROVE  ThreadInv'
  BY <1>8, <1>10 DEF Publish, Handle, clients
<1>11. CASE UNCHANGED pempVars
  BY <1>8, <1>11 DEF pempVars, clients
<1>. QED
  BY <1>1, <1>3, <1>4, <1>5, <1>6, <1>7, <1>9, <1>10, <1>11 DEF PempNext, Server

\* Fix PS-3: however many masters connect, go away and come back, over every
\* stop and start, clientThreads_ holds no more threads than can be connected
\* and those of one cleanup period.
THEOREM ThreadsCorrect == PempSpec => []ThreadsBounded
<1>1. PempInit => ThreadInv
  <2>. SUFFICES ASSUME PempInit PROVE ThreadInv
    OBVIOUS
  <2>1. Occupied = {} /\ accepts = 0 /\ pempPhase = "up"
    BY DEF PempInit, Occupied
  <2>. QED  BY <2>1, FS_EmptySet, ServerAssumption DEF ThreadInv
<1>2. PempTypeOK /\ ThreadInv => ThreadsBounded
  <2>. SUFFICES ASSUME PempTypeOK, ThreadInv PROVE ThreadsBounded
    OBVIOUS
  <2>1. IsFiniteSet(Occupied)
    BY ServerAssumption, FS_Subset DEF Occupied
  <2>2. Cardinality(Occupied) \in Nat /\ accepts \in 0 .. CleanupPeriod - 1
    BY <2>1, FS_CardinalityType DEF PempTypeOK, ServerTypes
  <2>3. Cardinality(Occupied) <= MaxLive + CleanupPeriod - 1
    BY <2>2, ServerAssumption DEF ThreadInv
  <2>. QED  BY <2>3 DEF ThreadsBounded, Occupied
<1>3. PempTypeOK /\ ThreadInv /\ [PempNext]_pempVars => ThreadInv'
  BY ThreadInvStep
<1>. QED  BY <1>1, <1>2, <1>3, TypeCorrect, PTL DEF PempSpec

-----------------------------------------------------------------------------
(* One upload at a time *)

Sending == {"sendDi", "sendAi", "pop", "sendSoe"}

\* An upload that is neither answered nor timed out is waited for, and while
\* one is waited for no other begins.
AnswerInv ==
  \A c \in Client :
    /\ unanswered[c] <= 1
    /\ unanswered[c] > 0 => waitingAck[c]
    /\ pc[c] \in Sending => ~waitingAck[c]

\* Every step keeps one unanswered upload per connection.
LEMMA AnswerStep ==
  ASSUME Quiet, NumDevices <= 1, PempTypeOK, AnswerInv, [PempNext]_pempVars
  PROVE  AnswerInv'
<1>. USE DEF AnswerInv, Sending, GoesTo
<1>t. /\ pc \in [Client -> {"free", "top", "recv", "upload", "pop", "sendDi", "sendAi", "sendSoe", "done"}]
      /\ waitingAck \in [Client -> BOOLEAN] /\ unanswered \in [Client -> 0 .. 2]
      /\ AnswerInv
  BY DEF PempTypeOK, ClientTypes
<1>1. ASSUME NEW c \in Client, Return(c)
      PROVE  AnswerInv'
  BY <1>t, <1>1 DEF Return
<1>2. ASSUME NEW c \in Client, Top(c)
      PROVE  AnswerInv'
  <2>1. CASE pempRunning
    <3>1. /\ waitingAck' = [waitingAck EXCEPT ![c] = @ /\ ackAge[c] < AckTicks]
          /\ unanswered' = [unanswered EXCEPT ![c] = IF ackAge[c] < AckTicks THEN @ ELSE 0]
          /\ pc' = [pc EXCEPT ![c] = "recv"]
      BY <1>2, <2>1 DEF Top
    <3>2. CASE ackAge[c] < AckTicks
      BY <1>t, <3>1, <3>2
    <3>3. CASE ~(ackAge[c] < AckTicks)
      BY <1>t, <3>1, <3>3
    <3>. QED  BY <3>2, <3>3
  <2>2. CASE ~pempRunning
    BY <1>1, <1>2, <2>2 DEF Top
  <2>. QED  BY <2>1, <2>2
<1>3. ASSUME NEW c \in Client, NEW frame \in Frames, RecvFrame(c, frame)
      PROVE  AnswerInv'
  <2>1. unanswered'[c] = 0 /\ pc'[c] = "upload"
    BY <1>t, <1>3 DEF RecvFrame
  <2>2. \A d \in Client : d # c =>
          unanswered'[d] = unanswered[d] /\ waitingAck'[d] = waitingAck[d] /\ pc'[d] = pc[d]
    BY <1>t, <1>3 DEF RecvFrame
  <2>. QED  BY <1>t, <2>1, <2>2
<1>4. ASSUME NEW c \in Client, Upload(c)
      PROVE  AnswerInv'
  <2>1. waitingAck[c] => NextUpload(c) = "top"
    BY DEF NextUpload
  <2>. QED  BY <1>t, <1>4, <2>1 DEF Upload, timers
<1>5. ASSUME NEW c \in Client, NEW n \in 0 .. 1, Sent(c, n), pc[c] \in Sending
      PROVE  AnswerInv'
  <2>1. unanswered[c] = 0
    BY <1>t, <1>5
  <2>2. Least(unanswered[c] + n, 2) <= 1
    BY <2>1 DEF Least
  <2>3. unanswered'[c] <= 1 /\ waitingAck'[c] /\ pc'[c] = "top"
    BY <1>t, <1>5, <2>2 DEF Sent
  <2>. QED  BY <1>t, <1>5, <2>3 DEF Sent
<1>6. ASSUME NEW c \in Client, SendDi(c) \/ SendAi(c) \/ SendSoe(c)
      PROVE  AnswerInv'
  <2>1. NumDevices \in 0 .. 1 /\ 1 \in 0 .. 1
    BY ServerAssumption
  <2>. QED  BY <1>5, <1>6, <2>1 DEF SendDi, SendAi, SendSoe
<1>7. ASSUME NEW c \in Client, RecvTimeout(c) \/ Pop(c) \/ SendSoeRaises(c)
      PROVE  AnswerInv'
  BY <1>t, <1>7 DEF RecvTimeout, Pop, SendSoeRaises, timers
<1>8. ASSUME NEW c \in Client, RecvClosed(c) \/ SendRaises(c)
      PROVE  AnswerInv'
  BY <1>1, <1>8 DEF RecvClosed, SendRaises
<1>9. ASSUME NEW c \in Client, Accept(c)
      PROVE  AnswerInv'
  BY <1>t, <1>9 DEF Accept, Cleaned, timers
<1>10. CASE JoinAll
  BY <1>t, <1>10 DEF JoinAll, timers
<1>11. ASSUME UNCHANGED <<pc, waitingAck, unanswered>>
       PROVE  AnswerInv'
  BY <1>t, <1>11
<1>12. ASSUME NEW c \in Client, Read(c) \/ Stall(c) \/ Unstall(c) \/ Cut(c)
       PROVE  AnswerInv'
  BY <1>11, <1>12 DEF Read, Stall, Unstall, Cut, timers
<1>13. CASE StartServer \/ Subscribe \/ CloseListeners \/ EndAccept \/ StopServer \/ UNCHANGED pempVars
  BY <1>11, <1>13 DEF StartServer, Subscribe, CloseListeners, EndAccept, StopServer, pempVars, clients, timers
<1>14. ASSUME NEW s \in Source, Publish(s) \/ Handle(s)
       PROVE  AnswerInv'
  BY <1>11, <1>14 DEF Publish, Handle, clients, timers
<1>. QED
  BY <1>2, <1>3, <1>4, <1>6, <1>7, <1>8, <1>9, <1>10, <1>12, <1>13, <1>14
     DEF PempNext, Server, Handler

\* The next upload waits for an ACK or for ACK_TIMEOUT, whatever else happens
\* on the connection: where an upload is one frame (one device) and the master
\* only answers while it is asked.
THEOREM OneAtATimeCorrect ==
  ASSUME Quiet, NumDevices <= 1
  PROVE  PempSpec => []OneAtATime
<1>1. PempInit => AnswerInv
  BY DEF PempInit, AnswerInv, Sending
<1>2. PempTypeOK /\ AnswerInv /\ [PempNext]_pempVars => AnswerInv'
  BY AnswerStep
<1>3. AnswerInv => OneAtATime
  BY DEF AnswerInv, OneAtATime
<1>. QED  BY <1>1, <1>2, <1>3, TypeCorrect, PTL DEF PempSpec

-----------------------------------------------------------------------------
(* The way of an event: the inductive invariant of the refinement *)

\* An upload fits into its frame.  The code has CountLimit 65535 and LenLimit
\* 5461, so this says that g_soeQueue never holds more than 5461 events.
FrameFits == Least(Len(events), CountLimit) <= LenLimit

Unique(q)  == \A i, j \in 1 .. Len(q) : q[i] = q[j] => i = j
Waiting    == InHandler \cup Elements(events)
Held(c)    == Elements(batch[c]) \cup flight[c]
Gone       == delivered \cup dropped

\* An event is in one place at most.
Exclusive ==
  /\ Unique(events) /\ \A c \in Client : Unique(batch[c])
  /\ InHandler \cap Elements(events) = {} /\ Waiting \cap Gone = {}
  /\ \A c \in Client : /\ Elements(batch[c]) \cap flight[c] = {}
                       /\ Held(c) \cap Waiting = {} /\ Held(c) \cap Gone = {}
  /\ \A c, d \in Client : c # d => Held(c) \cap Held(d) = {}

\* No event is anywhere before it is published.
Known == \A e \in Undelivered \cup Gone : e.seq <= published[e.source]

\* Only do_upload_soe has a batch in its hands, and it fits.
BatchInv ==
  \A c \in Client : /\ pc[c] # "sendSoe" => batch[c] = <<>>
                    /\ Least(Len(batch[c]), CountLimit) <= LenLimit

DeliveryInv == Exclusive /\ Known /\ BatchInv

\* What happens earlier is nearer to the master: on the connection before in
\* the batch, there before in g_soeQueue, there before in the handler.
Before(S, T) == \A e \in S, f \in T : e.source = f.source => e.seq < f.seq
Sorted(q) == \A i, j \in 1 .. Len(q) : i < j /\ q[i].source = q[j].source => q[i].seq < q[j].seq

OrderInv ==
  /\ Sorted(events) /\ Before(Elements(events), InHandler)
  /\ \A c \in Client : /\ Sorted(batch[c]) /\ Before(flight[c], Elements(batch[c]))
                       /\ Before(Held(c), Waiting)

\* With one connection at a time, what is under way is under way to one master.
Busy == Live \cup {c \in Client : flight[c] # {}}
Solo == \A c, d \in Busy : c = d

-----------------------------------------------------------------------------
(* Lemmas on queues of events *)

\* The empty queue.
LEMMA ElementsEmpty == Elements(<<>>) = {} /\ Unique(<<>>) /\ Sorted(<<>>)
BY EmptySeq DEF Elements, Unique, Sorted

\* push: one event more, at the end.
LEMMA ElementsAppend ==
  ASSUME NEW q \in Seq(Event), NEW e \in Event
  PROVE  /\ Append(q, e) \in Seq(Event)
         /\ Elements(Append(q, e)) = Elements(q) \cup {e}
         /\ Unique(q) /\ e \notin Elements(q) => Unique(Append(q, e))
         /\ Sorted(q) /\ Before(Elements(q), {e}) => Sorted(Append(q, e))
<1>1. /\ Len(q) \in Nat /\ Len(Append(q, e)) = Len(q) + 1 /\ Append(q, e)[Len(q) + 1] = e
      /\ \A i \in 1 .. Len(q) : Append(q, e)[i] = q[i]
      /\ Append(q, e) \in Seq(Event)
  BY AppendProperties, LenProperties
<1>2. \A i \in 1 .. Len(q) + 1 : i \in 1 .. Len(q) \/ i = Len(q) + 1
  BY <1>1
<1>3. Elements(Append(q, e)) = Elements(q) \cup {e}
  BY <1>1, <1>2 DEF Elements
<1>4. Unique(q) /\ e \notin Elements(q) => Unique(Append(q, e))
  BY <1>1, <1>2 DEF Elements, Unique
<1>5. ASSUME Sorted(q), Before(Elements(q), {e})
      PROVE  Sorted(Append(q, e))
  <2>. SUFFICES ASSUME NEW i \in 1 .. Len(q) + 1, NEW j \in 1 .. Len(q) + 1, i < j,
                       Append(q, e)[i].source = Append(q, e)[j].source
                PROVE  Append(q, e)[i].seq < Append(q, e)[j].seq
    BY <1>1 DEF Sorted
  <2>1. i \in 1 .. Len(q) /\ q[i] \in Elements(q)
    BY <1>1 DEF Elements
  <2>. QED  BY <1>1, <1>2, <1>5, <2>1 DEF Sorted, Before
<1>. QED  BY <1>1, <1>3, <1>4, <1>5

\* pushFrontBatch: the events of both, those put back first.
LEMMA ElementsConcat ==
  ASSUME NEW p \in Seq(Event), NEW q \in Seq(Event)
  PROVE  /\ p \o q \in Seq(Event)
         /\ Elements(p \o q) = Elements(p) \cup Elements(q)
         /\ Unique(p) /\ Unique(q) /\ Elements(p) \cap Elements(q) = {} => Unique(p \o q)
         /\ Sorted(p) /\ Sorted(q) /\ Before(Elements(p), Elements(q)) => Sorted(p \o q)
<1>. DEFINE m == Len(p)
            n == Len(q)
<1>1. /\ m \in Nat /\ n \in Nat /\ Len(p \o q) = m + n
      /\ \A i \in 1 .. m + n : (p \o q)[i] = IF i <= m THEN p[i] ELSE q[i - m]
      /\ p \o q \in Seq(Event)
  BY ConcatProperties, LenProperties
<1>2. /\ \A i \in 1 .. m : (p \o q)[i] = p[i]
      /\ \A i \in 1 .. n : (p \o q)[m + i] = q[i] /\ m + i \in 1 .. m + n
      /\ \A i \in 1 .. m + n : i > m => (p \o q)[i] = q[i - m] /\ i - m \in 1 .. n
  BY <1>1
<1>3. Elements(p \o q) = Elements(p) \cup Elements(q)
  <2>. HIDE DEF m, n
  <2>1. ASSUME NEW i \in 1 .. m + n
        PROVE  (p \o q)[i] \in Elements(p) \cup Elements(q)
    BY <1>1, <1>2 DEF Elements, m, n
  <2>2. ASSUME NEW i \in 1 .. m
        PROVE  p[i] \in Elements(p \o q)
    <3>1. i \in 1 .. m + n
      BY <1>1
    <3>. QED  BY <1>1, <1>2, <3>1 DEF Elements
  <2>3. ASSUME NEW i \in 1 .. n
        PROVE  q[i] \in Elements(p \o q)
    BY <1>1, <1>2 DEF Elements
  <2>. QED  BY <1>1, <2>1, <2>2, <2>3 DEF Elements, m, n
<1>4. ASSUME Unique(p), Unique(q), Elements(p) \cap Elements(q) = {}
      PROVE  Unique(p \o q)
  <2>. SUFFICES ASSUME NEW i \in 1 .. m + n, NEW j \in 1 .. m + n, (p \o q)[i] = (p \o q)[j]
                PROVE  i = j
    BY <1>1 DEF Unique
  <2>1. /\ \A k \in 1 .. m : p[k] \in Elements(p)
        /\ \A k \in 1 .. n : q[k] \in Elements(q)
    BY DEF Elements
  <2>2. CASE i <= m /\ j <= m
    BY <1>1, <1>4, <2>2 DEF Unique
  <2>3. CASE i > m /\ j > m
    <3>1. i - m \in 1 .. n /\ j - m \in 1 .. n /\ q[i - m] = q[j - m]
      BY <1>2, <2>3
    <3>2. i - m = j - m
      BY <1>4, <3>1 DEF Unique
    <3>. QED  BY <1>1, <3>2
  <2>4. CASE i <= m /\ j > m
    BY <1>1, <1>2, <1>4, <2>1, <2>4
  <2>5. CASE i > m /\ j <= m
    BY <1>1, <1>2, <1>4, <2>1, <2>5
  <2>. QED  BY <1>1, <2>2, <2>3, <2>4, <2>5
<1>5. ASSUME Sorted(p), Sorted(q), Before(Elements(p), Elements(q))
      PROVE  Sorted(p \o q)
  <2>. SUFFICES ASSUME NEW i \in 1 .. m + n, NEW j \in 1 .. m + n, i < j,
                       (p \o q)[i].source = (p \o q)[j].source
                PROVE  (p \o q)[i].seq < (p \o q)[j].seq
    BY <1>1 DEF Sorted
  <2>1. /\ \A k \in 1 .. m : p[k] \in Elements(p)
        /\ \A k \in 1 .. n : q[k] \in Elements(q)
    BY DEF Elements
  <2>2. CASE j <= m
    BY <1>1, <1>5, <2>2 DEF Sorted
  <2>3. CASE i > m
    <3>1. i - m < j - m /\ j > m
      BY <1>1, <2>3
    <3>2. /\ i - m \in 1 .. n /\ (p \o q)[i] = q[i - m]
          /\ j - m \in 1 .. n /\ (p \o q)[j] = q[j - m]
      BY <1>2, <2>3, <3>1
    <3>. QED  BY <1>5, <3>1, <3>2 DEF Sorted
  <2>4. CASE i <= m /\ j > m
    <3>1. (p \o q)[i] = p[i] /\ p[i] \in Elements(p)
      BY <1>1, <1>2, <2>1, <2>4
    <3>2. (p \o q)[j] = q[j - m] /\ q[j - m] \in Elements(q)
      BY <1>1, <1>2, <2>1, <2>4
    <3>. QED  BY <1>5, <3>1, <3>2 DEF Before
  <2>. QED  BY <1>1, <2>2, <2>3, <2>4
<1>. QED  BY <1>1, <1>3, <1>4, <1>5

\* A batch cut in two: nothing is lost, nothing is in both parts, and the part
\* that is sent comes first.
LEMMA ElementsSplit ==
  ASSUME NEW q \in Seq(Event), NEW n \in 0 .. Len(q)
  PROVE  LET front == SubSeq(q, 1, n)
             rest  == SubSeq(q, n + 1, Len(q))
         IN /\ rest \in Seq(Event)
            /\ Elements(q) = Elements(front) \cup Elements(rest)
            /\ Unique(q) => Unique(rest) /\ Elements(front) \cap Elements(rest) = {}
            /\ Sorted(q) => Sorted(rest) /\ Before(Elements(front), Elements(rest))
<1>. DEFINE front == SubSeq(q, 1, n)
            rest  == SubSeq(q, n + 1, Len(q))
<1>1. /\ Len(q) \in Nat /\ Len(front) = n /\ Len(rest) = Len(q) - n /\ rest \in Seq(Event)
      /\ \A i \in 1 .. n : front[i] = q[i]
      /\ \A i \in 1 .. Len(q) - n : rest[i] = q[n + i]
  BY SplitTyped, LenProperties
<1>. HIDE DEF front, rest
<1>2. /\ Elements(front) = {q[i] : i \in 1 .. n}
      /\ Elements(rest) = {q[n + i] : i \in 1 .. Len(q) - n}
  <2>1. Elements(front) = {front[i] : i \in 1 .. n} /\ Elements(rest) = {rest[i] : i \in 1 .. Len(q) - n}
    BY <1>1 DEF Elements
  <2>. QED  BY <1>1, <2>1
<1>3. /\ \A i \in 1 .. n : i \in 1 .. Len(q)
      /\ \A i \in 1 .. Len(q) - n : n + i \in 1 .. Len(q) /\ n + i > n
      /\ \A i \in 1 .. Len(q) : i \in 1 .. n \/ (i - n \in 1 .. Len(q) - n /\ n + (i - n) = i)
  BY <1>1
<1>4. Elements(q) = Elements(front) \cup Elements(rest)
  <2>1. ASSUME NEW i \in 1 .. Len(q)
        PROVE  q[i] \in Elements(front) \cup Elements(rest)
    <3>1. CASE i \in 1 .. n
      BY <1>2, <3>1
    <3>2. CASE i \notin 1 .. n
      <4>1. i - n \in 1 .. Len(q) - n /\ n + (i - n) = i
        BY <1>3, <3>2
      <4>. QED  BY <1>2, <4>1
    <3>. QED  BY <3>1, <3>2
  <2>2. Elements(front) \cup Elements(rest) \subseteq Elements(q)
    BY <1>2, <1>3 DEF Elements
  <2>. QED  BY <2>1, <2>2 DEF Elements
<1>5. ASSUME Unique(q)
      PROVE  Unique(rest) /\ Elements(front) \cap Elements(rest) = {}
  <2>1. Unique(rest)
    BY <1>1, <1>3, <1>5 DEF Unique
  <2>2. Elements(front) \cap Elements(rest) = {}
    BY <1>1, <1>2, <1>3, <1>5 DEF Unique
  <2>. QED  BY <2>1, <2>2
<1>6. ASSUME Sorted(q)
      PROVE  Sorted(rest) /\ Before(Elements(front), Elements(rest))
  <2>1. \A i, j \in 1 .. Len(q) - n : i < j => n + i < n + j
    BY <1>1
  <2>2. Sorted(rest)
    BY <1>1, <1>3, <1>6, <2>1 DEF Sorted
  <2>3. ASSUME NEW i \in 1 .. n, NEW j \in 1 .. Len(q) - n
        PROVE  q[i].source = q[n + j].source => q[i].seq < q[n + j].seq
    <3>1. i \in 1 .. Len(q) /\ n + j \in 1 .. Len(q) /\ i < n + j
      BY <1>1
    <3>. QED  BY <1>6, <3>1 DEF Sorted
  <2>4. Before(Elements(front), Elements(rest))
    BY <1>2, <2>3 DEF Before
  <2>. QED  BY <2>2, <2>4
<1>. QED  BY <1>1, <1>4, <1>5, <1>6 DEF front, rest

\* Without a limit, Push only appends and PushFrontBatch puts everything back.
LEMMA PushUnlimited ==
  ASSUME MaxSize = 0, NEW q \in Seq(Event), NEW e \in Event
  PROVE  Push(q, e) = Append(q, e)
BY DEF Push

\* Without a limit nothing that is put back is dropped.
LEMMA PushFrontUnlimited ==
  ASSUME MaxSize = 0, NEW q \in Seq(Event), NEW b \in Seq(Event)
  PROVE  PushFrontBatch(q, b) = b \o q
<1>1. Len(b) \in Nat /\ Added(q, Len(b)) = Len(b)
  BY LenProperties DEF Added
<1>2. SubSeq(b, Len(b) - Len(b) + 1, Len(b)) = b
  <2>1. Len(b) - Len(b) + 1 = 1
    BY <1>1
  <2>. QED  BY <2>1, SubSeqFull
<1>. QED  BY <1>1, <1>2 DEF PushFrontBatch

-----------------------------------------------------------------------------
(* What each step does to the places of the events *)

\* Everything that is on its way is in one of these places.
LEMMA PendingIsPlaces ==
  /\ Undelivered = Waiting \cup UNION {Held(c) : c \in Client}
  /\ Undelivered' = Waiting' \cup UNION {Held(c)' : c \in Client}
BY DEF Undelivered, Waiting, Held

Places == <<published, handling, events, batch, flight, delivered, dropped>>

\* A new event, or none, is in the hands of a handler.
LEMMA PublishEffect ==
  ASSUME PempTypeOK, NEW s \in Source, Publish(s)
  PROVE  /\ UNCHANGED <<pc, link, events, batch, flight, delivered, dropped>>
         /\ \A t \in Source : published[t] <= published'[t]
         /\ \/ InHandler' = InHandler
            \/ \E e \in Event : /\ e.seq > published[e.source] /\ e.seq = published'[e.source]
                                /\ InHandler' = InHandler \cup {e}
<1>t. /\ published \in [Source -> 0 .. MaxSeq] /\ handling \in [Source -> 0 .. MaxSeq]
      /\ MaxSeq \in Nat
  BY ServerAssumption DEF PempTypeOK, EventTypes
<1>. DEFINE e == [source |-> s, seq |-> published[s] + 1]
<1>1. /\ UNCHANGED <<pc, link, events, batch, flight, delivered, dropped>>
      /\ published' = [published EXCEPT ![s] = @ + 1] /\ published[s] < MaxSeq /\ handling[s] = 0
  BY DEF Publish, clients, fate
<1>2. published'[s] = published[s] + 1 /\ \A t \in Source : published[t] <= published'[t]
  BY <1>t, <1>1
<1>3. e \in Event /\ e.source = s /\ e.seq = published[s] + 1
  BY <1>t, <1>1 DEF Event
<1>4. CASE ~subscribed
  BY <1>1, <1>2, <1>4 DEF Publish, InHandler
<1>5. CASE subscribed
  <2>1. handling' = [handling EXCEPT ![s] = e.seq]
    BY <1>5 DEF Publish
  <2>2. ASSUME NEW f \in Event
        PROVE  handling'[f.source] = f.seq <=> handling[f.source] = f.seq \/ f = e
    <3>1. /\ f.source \in Source /\ f.seq \in 1 .. MaxSeq
          /\ f = [source |-> f.source, seq |-> f.seq]
      BY DEF Event
    <3>2. CASE f.source # s
      BY <1>t, <1>3, <2>1, <3>1, <3>2
    <3>3. CASE f.source = s
      BY <1>t, <1>1, <1>3, <2>1, <3>1, <3>3
    <3>. QED  BY <3>2, <3>3
  <2>3. InHandler' = InHandler \cup {e}
    BY <1>3, <2>2 DEF InHandler
  <2>. QED  BY <1>t, <1>1, <1>2, <1>3, <2>3
<1>. QED  BY <1>4, <1>5

\* The handler puts its event at the end of the queue.
LEMMA HandleEffect ==
  ASSUME PempTypeOK, MaxSize = 0, NEW s \in Source, Handle(s)
  PROVE  /\ UNCHANGED <<pc, link, published, batch, flight, delivered, dropped>>
         /\ \E e \in InHandler : /\ events' = Append(events, e)
                                 /\ InHandler' = InHandler \ {e}
                                 /\ \A f \in InHandler' : f.source # e.source
<1>t. handling \in [Source -> 0 .. MaxSeq] /\ MaxSeq \in Nat /\ events \in Seq(Event)
  BY ServerAssumption DEF PempTypeOK, EventTypes
<1>. DEFINE e == [source |-> s, seq |-> handling[s]]
<1>1. /\ UNCHANGED <<pc, link, published, batch, flight, delivered, dropped>>
      /\ handling[s] # 0 /\ handling' = [handling EXCEPT ![s] = 0]
      /\ events' = Push(events, e)
  BY DEF Handle, clients, fate
<1>2. e \in Event /\ e \in InHandler /\ e.source = s
  BY <1>t, <1>1 DEF Event, InHandler
<1>3. events' = Append(events, e)
  BY <1>t, <1>1, <1>2, PushUnlimited
<1>4. ASSUME NEW f \in Event
      PROVE  /\ handling'[f.source] = f.seq <=> handling[f.source] = f.seq /\ f # e
             /\ handling'[f.source] = f.seq => f.source # s
  <2>1. /\ f.source \in Source /\ f.seq \in 1 .. MaxSeq
        /\ f = [source |-> f.source, seq |-> f.seq]
    BY DEF Event
  <2>2. CASE f.source # s
    BY <1>t, <1>1, <1>2, <2>1, <2>2
  <2>3. CASE f.source = s
    <3>1. handling'[s] = 0 /\ f.seq # 0
      BY <1>t, <1>1, <2>1
    <3>. QED  BY <1>t, <2>1, <2>3, <3>1
  <2>. QED  BY <2>2, <2>3
<1>5. InHandler' = InHandler \ {e} /\ \A f \in InHandler' : f.source # s
  BY <1>4 DEF InHandler
<1>. QED  BY <1>1, <1>2, <1>3, <1>5

\* do_upload_soe takes the whole queue.
LEMMA PopEffect ==
  ASSUME PempTypeOK, NEW c \in Client, Pop(c)
  PROVE  /\ UNCHANGED <<published, link, flight, delivered, dropped>> /\ InHandler' = InHandler
         /\ pc[c] = "pop" /\ pc' = [pc EXCEPT ![c] = "sendSoe"]
         /\ batch' = [batch EXCEPT ![c] = events] /\ events' = <<>>
         /\ Elements(events') = {}
BY ElementsEmpty DEF Pop, GoesTo, fate, InHandler

\* The front of the batch is written, the rest goes back.
LEMMA SendSoeEffect ==
  ASSUME PempTypeOK, MaxSize = 0, BatchInv, NEW c \in Client, SendSoe(c)
  PROVE  /\ UNCHANGED <<published, link, delivered>> /\ InHandler' = InHandler
         /\ pc[c] = "sendSoe" /\ pc' = [pc EXCEPT ![c] = "top"]
         /\ batch' = [batch EXCEPT ![c] = <<>>]
         /\ \E n \in 0 .. Len(batch[c]) :
              LET front == Elements(SubSeq(batch[c], 1, n))
              IN /\ events' = SubSeq(batch[c], n + 1, Len(batch[c])) \o events
                 /\ \/ /\ flight' = [flight EXCEPT ![c] = @ \cup front]
                       /\ UNCHANGED dropped
                    \/ /\ dropped' = dropped \cup front
                       /\ UNCHANGED flight
<1>t. batch[c] \in Seq(Event) /\ events \in Seq(Event)
  BY DEF PempTypeOK, EventTypes
<1>. DEFINE n == Least(Len(batch[c]), CountLimit)
            front == Elements(SubSeq(batch[c], 1, n))
            rest  == SubSeq(batch[c], n + 1, Len(batch[c]))
<1>1. n \in 0 .. Len(batch[c]) /\ n <= LenLimit
  <2>1. Len(batch[c]) \in Nat /\ CountLimit \in Nat
    BY <1>t, LenProperties, ServerAssumption
  <2>2. n \in 0 .. Len(batch[c])
    BY <2>1 DEF Least
  <2>. QED  BY <2>2 DEF BatchInv
<1>2. /\ UNCHANGED <<published, link, delivered>> /\ InHandler' = InHandler
      /\ pc[c] = "sendSoe" /\ pc' = [pc EXCEPT ![c] = "top"]
      /\ batch' = [batch EXCEPT ![c] = <<>>]
      /\ events' = PushFrontBatch(events, rest)
  BY DEF SendSoe, Sent, GoesTo, InHandler
<1>3. \/ /\ flight' = [flight EXCEPT ![c] = @ \cup front]
         /\ UNCHANGED dropped
      \/ /\ dropped' = dropped \cup front
         /\ UNCHANGED flight
  BY <1>1 DEF SendSoe
<1>4. rest \in Seq(Event)
  BY <1>t, <1>1, SplitTyped
<1>5. events' = rest \o events
  BY <1>t, <1>2, <1>4, PushFrontUnlimited
<1>. QED  BY <1>1, <1>2, <1>3, <1>5

\* The whole batch goes back.
LEMMA SendSoeRaisesEffect ==
  ASSUME PempTypeOK, MaxSize = 0, NEW c \in Client, SendSoeRaises(c)
  PROVE  /\ UNCHANGED <<published, link, flight, delivered, dropped>> /\ InHandler' = InHandler
         /\ pc[c] = "sendSoe" /\ pc' = [pc EXCEPT ![c] = "top"]
         /\ batch' = [batch EXCEPT ![c] = <<>>]
         /\ events' = batch[c] \o events
<1>t. batch[c] \in Seq(Event) /\ events \in Seq(Event)
  BY DEF PempTypeOK, EventTypes
<1>. QED  BY <1>t, PushFrontUnlimited DEF SendSoeRaises, GoesTo, fate, InHandler

\* Every other step leaves the events where they are, and no handler gets into
\* do_upload_soe with something in its hands.
StillMoves ==
  \/ Server \/ StopServer
  \/ \E c \in Client :
       \/ Accept(c) \/ Top(c) \/ RecvTimeout(c) \/ RecvClosed(c) \/ Upload(c)
       \/ SendDi(c) \/ SendAi(c) \/ SendRaises(c) \/ Stall(c) \/ Unstall(c)
       \/ \E frame \in Frames : RecvFrame(c, frame)
  \/ UNCHANGED pempVars

\* The other steps move no event.
LEMMA StillEffect ==
  ASSUME PempTypeOK, StillMoves
  PROVE  /\ UNCHANGED Places
         /\ \A c \in Client : pc'[c] = "sendSoe" <=> pc[c] = "sendSoe"
<1>. USE DEF Places, fate
<1>t. pc \in [Client -> {"free", "top", "recv", "upload", "pop", "sendDi", "sendAi", "sendSoe", "done"}]
  BY DEF PempTypeOK, ClientTypes
<1>. DEFINE Kept == \A c \in Client : pc'[c] = "sendSoe" <=> pc[c] = "sendSoe"
<1>1. ASSUME NEW c \in Client, NEW l, pc' = [pc EXCEPT ![c] = l],
             pc[c] # "sendSoe", l # "sendSoe"
      PROVE  Kept
  BY <1>t, <1>1
<1>2. ASSUME NEW c \in Client,
             \/ Top(c) \/ RecvTimeout(c) \/ RecvClosed(c)
             \/ SendDi(c) \/ SendAi(c) \/ SendRaises(c)
             \/ \E frame \in Frames : RecvFrame(c, frame)
      PROVE  UNCHANGED Places /\ Kept
  <2>1. UNCHANGED Places
    BY <1>2 DEF Top, RecvTimeout, RecvClosed, SendDi, SendAi, SendRaises, RecvFrame
  <2>2. pc[c] # "sendSoe" /\ \E l : l # "sendSoe" /\ pc' = [pc EXCEPT ![c] = l]
    BY <1>2 DEF Top, RecvTimeout, RecvClosed, SendDi, SendAi, SendRaises, RecvFrame,
       Sent, Return, GoesTo
  <2>. QED  BY <1>1, <2>1, <2>2
<1>3. ASSUME NEW c \in Client, Upload(c)
      PROVE  UNCHANGED Places /\ Kept
  <2>1. NextUpload(c) # "sendSoe"
    BY DEF NextUpload
  <2>2. UNCHANGED Places /\ pc[c] # "sendSoe" /\ pc' = [pc EXCEPT ![c] = NextUpload(c)]
    BY <1>3 DEF Upload, GoesTo
  <2>. QED  BY <1>1, <2>1, <2>2
<1>4. ASSUME NEW c \in Client, Accept(c)
      PROVE  UNCHANGED Places /\ Kept
  <2>1. UNCHANGED Places
    BY <1>4 DEF Accept
  <2>2. /\ pc' = [Cleaned(accepts + 1) EXCEPT ![c] = "top"]
        /\ Cleaned(accepts + 1)[c] = "free"
    BY <1>4 DEF Accept
  <2>3. \A d \in Client : Cleaned(accepts + 1)[d] = "sendSoe" <=> pc[d] = "sendSoe"
    BY <1>t DEF Cleaned
  <2>4. Cleaned(accepts + 1) \in [Client -> {"free", "top", "recv", "upload", "pop", "sendDi", "sendAi", "sendSoe", "done"}]
    BY <1>t DEF Cleaned
  <2>. QED  BY <2>1, <2>2, <2>3, <2>4
<1>5. ASSUME NEW c \in Client, Stall(c) \/ Unstall(c)
      PROVE  UNCHANGED Places /\ Kept
  BY <1>5 DEF Stall, Unstall
<1>6. CASE JoinAll
  <2>1. \A c \in Client : pc[c] # "sendSoe" /\ pc'[c] = "free"
    BY <1>6 DEF JoinAll, Live
  <2>. QED  BY <1>6, <2>1 DEF JoinAll
<1>7. CASE StartServer \/ Subscribe \/ CloseListeners \/ EndAccept \/ StopServer \/ UNCHANGED pempVars
  BY <1>7 DEF StartServer, Subscribe, CloseListeners, EndAccept, StopServer, pempVars, clients
<1>. QED
  BY <1>2, <1>3, <1>4, <1>5, <1>6, <1>7 DEF StillMoves, Server

-----------------------------------------------------------------------------
(* DeliveryInv is inductive as long as frames fit *)

\* The two parts of the invariant that speak of the places of events, for the
\* steps that move one event, one batch or one connection's events.
LEMMA DeliveryStep ==
  ASSUME MaxSize = 0, FrameFits, PempTypeOK, DeliveryInv, [PempNext]_pempVars
  PROVE  DeliveryInv'
<1>t. /\ events \in Seq(Event) /\ batch \in [Client -> Seq(Event)]
      /\ flight \in [Client -> SUBSET Event]
      /\ published \in [Source -> 0 .. MaxSeq] /\ MaxSeq \in Nat
      /\ pc \in [Client -> {"free", "top", "recv", "upload", "pop", "sendDi", "sendAi", "sendSoe", "done"}]
      /\ InHandler \subseteq Event /\ delivered \subseteq Event /\ dropped \subseteq Event
      /\ Exclusive /\ Known /\ BatchInv
  BY ServerAssumption DEF PempTypeOK, EventTypes, ClientTypes, InHandler, DeliveryInv
<1>k. \A e \in Waiting \cup Gone \cup UNION {Held(c) : c \in Client} : e.seq <= published[e.source]
  BY <1>t, PendingIsPlaces DEF Known
<1>e. ASSUME UNCHANGED <<events, batch, flight, delivered, dropped>>, InHandler' = InHandler
      PROVE  Exclusive' /\ Undelivered' = Undelivered /\ Gone' = Gone
  <2>1. /\ Waiting' = Waiting /\ Elements(events)' = Elements(events) /\ Gone' = Gone
        /\ \A c \in Client : Held(c)' = Held(c) /\ Elements(batch[c])' = Elements(batch[c])
        /\ Unique(events)' = Unique(events)
        /\ \A c \in Client : Unique(batch[c])' = Unique(batch[c])
    BY <1>e DEF Waiting, Gone, Held, Elements, Unique
  <2>. QED  BY <1>t, <1>e, <2>1, PendingIsPlaces DEF Exclusive
<1>1. ASSUME NEW s \in Source, Publish(s)
      PROVE  DeliveryInv'
  <2>1. /\ UNCHANGED <<pc, events, batch, flight, delivered, dropped>>
        /\ \A t \in Source : published[t] <= published'[t]
        /\ published' \in [Source -> 0 .. MaxSeq]
    BY <1>1, PublishEffect, EventStep DEF PempNext, EventTypes
  <2>2. BatchInv'
    BY <1>t, <2>1 DEF BatchInv
  <2>3. \A e \in Undelivered \cup Gone : e.seq <= published'[e.source]
    <3>1. Elements(events) \subseteq Event /\ \A c \in Client : Elements(batch[c]) \subseteq Event
      BY <1>t, ElementOfSeq DEF Elements
    <3>2. \A e \in Undelivered \cup Gone : e.source \in Source /\ e.seq \in Nat
      BY <1>t, <3>1, PendingIsPlaces DEF Waiting, Gone, Held, Event
    <3>3. \A r \in Source : published[r] \in Nat /\ published'[r] \in Nat
      BY <1>t, <2>1
    <3>. QED  BY <1>t, <2>1, <3>2, <3>3 DEF Known
  <2>4. CASE InHandler' = InHandler
    <3>1. Exclusive' /\ Undelivered' = Undelivered /\ Gone' = Gone
      BY <1>e, <2>1, <2>4
    <3>. QED  BY <2>2, <2>3, <3>1 DEF DeliveryInv, Known
  <2>5. ASSUME NEW e \in Event, e.seq > published[e.source], e.seq = published'[e.source],
               InHandler' = InHandler \cup {e}
        PROVE  DeliveryInv'
    <3>1. e.source \in Source /\ e.seq \in Nat
      BY <1>t DEF Event
    <3>2. e \notin Waiting \cup Gone \cup UNION {Held(c) : c \in Client}
      BY <1>t, <1>k, <2>5, <3>1
    <3>3. /\ Waiting' = Waiting \cup {e} /\ Elements(events)' = Elements(events) /\ Gone' = Gone
          /\ \A c \in Client : Held(c)' = Held(c) /\ Elements(batch[c])' = Elements(batch[c])
          /\ Unique(events)' = Unique(events)
          /\ \A c \in Client : Unique(batch[c])' = Unique(batch[c])
      BY <2>1, <2>5 DEF Waiting, Gone, Held, Elements, Unique
    <3>4. Exclusive'
      BY <1>t, <2>1, <2>5, <3>2, <3>3 DEF Exclusive, Waiting
    <3>5. Undelivered' = Undelivered \cup {e}
      BY <3>3, PendingIsPlaces
    <3>. QED  BY <1>t, <2>2, <2>3, <2>5, <3>1, <3>3, <3>4, <3>5 DEF DeliveryInv, Known
  <2>. QED  BY <1>1, <2>4, <2>5, PublishEffect
<1>2. ASSUME UNCHANGED published, Undelivered' \cup Gone' \subseteq Undelivered \cup Gone
      PROVE  Known'
  BY <1>t, <1>2 DEF Known
<1>3. ASSUME NEW s \in Source, Handle(s)
      PROVE  DeliveryInv'
  <2>1. /\ UNCHANGED <<pc, published, batch, flight, delivered, dropped>>
        /\ \E e \in InHandler : events' = Append(events, e) /\ InHandler' = InHandler \ {e}
    BY <1>3, HandleEffect
  <2>2. PICK e \in InHandler : events' = Append(events, e) /\ InHandler' = InHandler \ {e}
    BY <2>1
  <2>3. /\ Elements(events)' = Elements(events) \cup {e}
        /\ Unique(events)'
    <3>1. e \in Event /\ e \notin Elements(events) /\ Unique(events)
      BY <1>t DEF Exclusive
    <3>. QED  BY <1>t, <2>2, <3>1, ElementsAppend
  <2>4. Waiting' = Waiting
    BY <2>2, <2>3 DEF Waiting
  <2>5. /\ Gone' = Gone /\ \A c \in Client : Held(c)' = Held(c) /\ Elements(batch[c])' = Elements(batch[c])
        /\ \A c \in Client : Unique(batch[c])' = Unique(batch[c])
    BY <2>1 DEF Gone, Held, Elements, Unique
  <2>6. Exclusive'
    BY <1>t, <2>1, <2>2, <2>3, <2>4, <2>5 DEF Exclusive
  <2>7. Undelivered' = Undelivered
    BY <2>4, <2>5, PendingIsPlaces
  <2>8. BatchInv'
    BY <1>t, <2>1 DEF BatchInv
  <2>. QED  BY <1>2, <2>1, <2>5, <2>6, <2>7, <2>8 DEF DeliveryInv
<1>4. ASSUME NEW c \in Client, Pop(c)
      PROVE  DeliveryInv'
  <2>1. /\ UNCHANGED <<published, flight, delivered, dropped>> /\ InHandler' = InHandler
        /\ pc[c] = "pop" /\ pc' = [pc EXCEPT ![c] = "sendSoe"]
        /\ batch' = [batch EXCEPT ![c] = events] /\ events' = <<>> /\ Elements(events') = {}
    BY <1>4, PopEffect
  <2>2. batch[c] = <<>> /\ Elements(batch[c]) = {}
    BY <1>t, <2>1, ElementsEmpty DEF BatchInv
  <2>3. /\ Waiting' = InHandler /\ Gone' = Gone /\ Held(c)' = Elements(events) \cup flight[c]
        /\ Elements(batch[c])' = Elements(events)
        /\ \A d \in Client : d # c => Held(d)' = Held(d) /\ Elements(batch[d])' = Elements(batch[d])
    BY <1>t, <2>1 DEF Waiting, Gone, Held
  <2>4. Unique(events)' /\ \A d \in Client : Unique(batch[d])'
    <3>1. Unique(events') /\ \A d \in Client : Unique(batch'[d])
      BY <1>t, <2>1, ElementsEmpty DEF Exclusive
    <3>. QED  BY <3>1 DEF Unique
  <2>5. Exclusive'
    BY <1>t, <2>1, <2>2, <2>3, <2>4 DEF Exclusive, Waiting, Held
  <2>6. Undelivered' \subseteq Undelivered
    BY <2>2, <2>3, PendingIsPlaces DEF Waiting, Held
  <2>7. BatchInv'
    BY <1>t, <2>1 DEF BatchInv, FrameFits
  <2>. QED  BY <1>2, <2>1, <2>3, <2>5, <2>6, <2>7 DEF DeliveryInv
<1>5. ASSUME NEW c \in Client, SendSoe(c)
      PROVE  DeliveryInv'
  <2>1. /\ UNCHANGED <<published, delivered>> /\ InHandler' = InHandler
        /\ pc[c] = "sendSoe" /\ pc' = [pc EXCEPT ![c] = "top"]
        /\ batch' = [batch EXCEPT ![c] = <<>>]
    BY <1>t, <1>5, SendSoeEffect
  <2>2. PICK n \in 0 .. Len(batch[c]) :
          LET front == Elements(SubSeq(batch[c], 1, n))
          IN /\ events' = SubSeq(batch[c], n + 1, Len(batch[c])) \o events
             /\ \/ /\ flight' = [flight EXCEPT ![c] = @ \cup front]
                   /\ UNCHANGED dropped
                \/ /\ dropped' = dropped \cup front
                   /\ UNCHANGED flight
    BY <1>t, <1>5, SendSoeEffect
  <2>. DEFINE front == Elements(SubSeq(batch[c], 1, n))
              tail  == SubSeq(batch[c], n + 1, Len(batch[c]))
              rest  == Elements(tail)
  <2>3. /\ tail \in Seq(Event) /\ Unique(tail)
        /\ Elements(batch[c]) = front \cup rest /\ front \cap rest = {}
    BY <1>t, ElementsSplit DEF Exclusive
  <2>4. Elements(events)' = rest \cup Elements(events) /\ Unique(events)'
    <3>1. rest \cap Elements(events) = {} /\ Unique(events)
      BY <1>t, <2>3 DEF Exclusive, Waiting, Held
    <3>. QED  BY <1>t, <2>2, <2>3, <3>1, ElementsConcat
  <2>5. Elements(batch'[c]) = {} /\ \A d \in Client : Unique(batch'[d])
    BY <1>t, <2>1, ElementsEmpty DEF Exclusive
  <2>6. /\ Elements(batch[c])' = {} /\ \A d \in Client : Unique(batch[d])'
        /\ \A d \in Client : d # c => Held(d)' = Held(d) /\ Elements(batch[d])' = Elements(batch[d])
        /\ Waiting' = Waiting \cup rest
    BY <1>t, <2>1, <2>2, <2>4, <2>5 DEF Held, Waiting
  <2>7. \/ Held(c)' = flight[c] \cup front /\ Gone' = Gone
        \/ Held(c)' = flight[c] /\ Gone' = Gone \cup front
    BY <1>t, <2>1, <2>2, <2>6 DEF Held, Gone
  <2>. HIDE DEF front, tail, rest
  <2>8. Exclusive'
    <3>1. /\ front \subseteq Held(c) /\ rest \subseteq Held(c) /\ rest \cap flight[c] = {}
          /\ front \cap flight[c] = {} /\ front \cap rest = {} /\ flight[c] \subseteq Held(c)
      BY <1>t, <2>3 DEF Held, Exclusive
    <3>2. /\ Held(c)' \subseteq Held(c) /\ Held(c)' \cap rest = {}
          /\ Gone' \subseteq Gone \cup front /\ Gone' \cap Held(c)' = {}
      BY <1>t, <2>7, <3>1 DEF Exclusive
    <3>3. InHandler' \cap Elements(events)' = {} /\ Waiting' \cap Gone' = {}
      BY <1>t, <2>1, <2>4, <2>6, <3>1, <3>2 DEF Exclusive, Waiting
    <3>4. ASSUME NEW d \in Client
          PROVE  /\ Elements(batch[d])' \cap flight'[d] = {}
                 /\ Held(d)' \cap Waiting' = {} /\ Held(d)' \cap Gone' = {}
      <4>1. CASE d = c
        BY <1>t, <2>6, <3>1, <3>2, <4>1 DEF Exclusive
      <4>2. CASE d # c
        <5>1. flight'[d] = flight[d]
          BY <1>t, <2>2, <4>2
        <5>2. Held(d) \cap Held(c) = {} /\ Held(d)' = Held(d)
          BY <1>t, <2>6, <4>2 DEF Exclusive
        <5>. QED  BY <1>t, <2>6, <3>1, <3>2, <4>2, <5>1, <5>2 DEF Exclusive
      <4>. QED  BY <4>1, <4>2
    <3>5. \A d, e \in Client : d # e => Held(d)' \cap Held(e)' = {}
      BY <1>t, <2>6, <3>2 DEF Exclusive
    <3>. QED  BY <2>4, <2>6, <3>3, <3>4, <3>5 DEF Exclusive
  <2>9. Undelivered' \cup Gone' \subseteq Undelivered \cup Gone
    BY <2>3, <2>6, <2>7, PendingIsPlaces DEF Waiting, Held
  <2>10. BatchInv'
    BY <1>t, <2>1, ServerAssumption, EmptySeq DEF BatchInv, Least
  <2>. QED  BY <1>2, <2>1, <2>8, <2>9, <2>10 DEF DeliveryInv
<1>6. ASSUME NEW c \in Client, SendSoeRaises(c)
      PROVE  DeliveryInv'
  <2>1. /\ UNCHANGED <<published, flight, delivered, dropped>> /\ InHandler' = InHandler
        /\ pc[c] = "sendSoe" /\ pc' = [pc EXCEPT ![c] = "top"]
        /\ batch' = [batch EXCEPT ![c] = <<>>] /\ events' = batch[c] \o events
    BY <1>6, SendSoeRaisesEffect
  <2>2. Elements(events)' = Elements(batch[c]) \cup Elements(events) /\ Unique(events)'
    BY <1>t, <2>1, ElementsConcat DEF Exclusive, Waiting, Held
  <2>3. Elements(batch'[c]) = {} /\ \A d \in Client : Unique(batch'[d])
    BY <1>t, <2>1, ElementsEmpty DEF Exclusive
  <2>4. /\ Elements(batch[c])' = {} /\ \A d \in Client : Unique(batch[d])'
        /\ \A d \in Client : d # c => Held(d)' = Held(d) /\ Elements(batch[d])' = Elements(batch[d])
        /\ Waiting' = Waiting \cup Elements(batch[c]) /\ Held(c)' = flight[c] /\ Gone' = Gone
    BY <1>t, <2>1, <2>2, <2>3 DEF Held, Waiting, Gone
  <2>5. Exclusive'
    BY <1>t, <2>1, <2>2, <2>4 DEF Exclusive, Waiting, Held
  <2>6. Undelivered' \subseteq Undelivered
    BY <2>4, PendingIsPlaces DEF Waiting, Held
  <2>7. BatchInv'
    BY <1>t, <2>1, ServerAssumption, EmptySeq DEF BatchInv, Least
  <2>. QED  BY <1>2, <2>1, <2>4, <2>5, <2>6, <2>7 DEF DeliveryInv
<1>7. ASSUME NEW c \in Client, Read(c) \/ Cut(c)
      PROVE  DeliveryInv'
  <2>1. /\ UNCHANGED <<published, pc, batch, events>> /\ InHandler' = InHandler
        /\ flight' = [flight EXCEPT ![c] = {}]
        /\ Gone' = Gone \cup flight[c]
    BY <1>7 DEF Read, Cut, InHandler, Gone
  <2>2. /\ Waiting' = Waiting /\ Elements(events)' = Elements(events) /\ Unique(events)' = Unique(events)
        /\ \A d \in Client : Unique(batch[d])' = Unique(batch[d]) /\ Elements(batch[d])' = Elements(batch[d])
    BY <2>1 DEF Waiting, Elements, Unique
  <2>3. /\ Held(c)' = Elements(batch[c])
        /\ \A d \in Client : d # c => Held(d)' = Held(d)
    BY <1>t, <2>1, <2>2 DEF Held
  <2>4. Exclusive'
    BY <1>t, <2>1, <2>2, <2>3 DEF Exclusive, Held
  <2>5. Undelivered' \cup Gone' \subseteq Undelivered \cup Gone
    BY <2>1, <2>2, <2>3, PendingIsPlaces DEF Held
  <2>6. BatchInv'
    BY <1>t, <2>1 DEF BatchInv
  <2>. QED  BY <1>2, <2>1, <2>4, <2>5, <2>6 DEF DeliveryInv
<1>8. ASSUME StillMoves
      PROVE  DeliveryInv'
  <2>1. UNCHANGED Places /\ \A c \in Client : pc'[c] = "sendSoe" <=> pc[c] = "sendSoe"
    BY <1>8, StillEffect
  <2>2. Exclusive' /\ Undelivered' = Undelivered /\ Gone' = Gone
    BY <1>e, <2>1 DEF Places, InHandler
  <2>3. BatchInv'
    BY <1>t, <2>1 DEF Places, BatchInv
  <2>. QED  BY <1>2, <2>1, <2>2, <2>3 DEF DeliveryInv, Places
<1>. QED
  BY <1>1, <1>3, <1>4, <1>5, <1>6, <1>7, <1>8 DEF PempNext, Handler, StillMoves

-----------------------------------------------------------------------------
(* PempServer implements SoeDelivery *)

TakeStep ==
  \E e \in Event : /\ e \notin Undelivered \cup delivered \cup dropped
                   /\ Undelivered' = Undelivered \cup {e} /\ UNCHANGED <<delivered, dropped>>
DropStep ==
  \E S \in SUBSET Undelivered : /\ Undelivered' = Undelivered \ S /\ dropped' = dropped \cup S
                            /\ UNCHANGED delivered
ReadStep(c) ==
  /\ flight[c] \subseteq Undelivered /\ Undelivered' = Undelivered \ flight[c]
  /\ delivered' = delivered \cup flight[c] /\ UNCHANGED dropped

\* Each step of the server is one of these steps of the promise, or none.
LEMMA PromiseStep ==
  ASSUME MaxSize = 0, PempTypeOK, DeliveryInv, [PempNext]_pempVars
  PROVE  \/ TakeStep \/ DropStep \/ \E c \in Client : ReadStep(c)
         \/ UNCHANGED <<Undelivered, delivered, dropped>>
<1>t. /\ events \in Seq(Event) /\ batch \in [Client -> Seq(Event)]
      /\ flight \in [Client -> SUBSET Event]
      /\ published \in [Source -> 0 .. MaxSeq] /\ MaxSeq \in Nat
      /\ pc \in [Client -> {"free", "top", "recv", "upload", "pop", "sendDi", "sendAi", "sendSoe", "done"}]
      /\ InHandler \subseteq Event
      /\ Exclusive /\ Known /\ BatchInv
  BY ServerAssumption DEF PempTypeOK, EventTypes, ClientTypes, InHandler, DeliveryInv
<1>. DEFINE Stutter == UNCHANGED <<Undelivered, delivered, dropped>>
<1>1. ASSUME NEW s \in Source, Publish(s)
      PROVE  TakeStep \/ Stutter
  <2>1. UNCHANGED <<events, batch, flight, delivered, dropped>>
    BY <1>1, PublishEffect
  <2>2. CASE InHandler' = InHandler
    BY <2>1, <2>2, PendingIsPlaces DEF Waiting, Held, Elements
  <2>3. ASSUME NEW e \in Event, e.seq > published[e.source], InHandler' = InHandler \cup {e}
        PROVE  TakeStep
    <3>1. e.seq \in Nat /\ published[e.source] \in Nat
      BY <1>t DEF Event
    <3>2. e \notin Undelivered \cup delivered \cup dropped
      BY <1>t, <2>3, <3>1 DEF Known, Gone
    <3>3. Undelivered' = Undelivered \cup {e}
      BY <2>1, <2>3, PendingIsPlaces DEF Waiting, Held, Elements
    <3>. QED  BY <2>1, <3>2, <3>3 DEF TakeStep
  <2>. QED  BY <1>1, <2>2, <2>3, PublishEffect
<1>2. ASSUME NEW s \in Source, Handle(s)
      PROVE  Stutter
  <2>1. UNCHANGED <<batch, flight, delivered, dropped>>
    BY <1>2, HandleEffect
  <2>2. PICK e \in InHandler : events' = Append(events, e) /\ InHandler' = InHandler \ {e}
    BY <1>2, HandleEffect
  <2>3. Elements(events)' = Elements(events) \cup {e}
    <3>1. e \in Event
      BY <1>t
    <3>. QED  BY <1>t, <2>2, <3>1, ElementsAppend
  <2>4. Waiting' = Waiting /\ \A c \in Client : Held(c)' = Held(c)
    BY <2>1, <2>2, <2>3 DEF Waiting, Held, Elements
  <2>. QED  BY <2>1, <2>4, PendingIsPlaces
<1>3. ASSUME NEW c \in Client, Pop(c)
      PROVE  Stutter
  <2>1. /\ UNCHANGED <<flight, delivered, dropped>> /\ InHandler' = InHandler
        /\ batch' = [batch EXCEPT ![c] = events] /\ Elements(events') = {}
        /\ pc[c] = "pop"
    BY <1>3, PopEffect
  <2>2. Elements(batch[c]) = {}
    BY <1>t, <2>1, ElementsEmpty DEF BatchInv
  <2>3. /\ Waiting' = InHandler /\ Held(c)' = Elements(events) \cup flight[c]
        /\ \A d \in Client : d # c => Held(d)' = Held(d)
    BY <1>t, <2>1 DEF Waiting, Held
  <2>4. Undelivered' = Undelivered
    BY <2>2, <2>3, PendingIsPlaces DEF Waiting, Held
  <2>. QED  BY <2>1, <2>4
<1>4. ASSUME NEW c \in Client, SendSoe(c)
      PROVE  DropStep \/ Stutter
  <2>1. /\ UNCHANGED delivered /\ InHandler' = InHandler
        /\ batch' = [batch EXCEPT ![c] = <<>>]
    BY <1>t, <1>4, SendSoeEffect
  <2>2. PICK n \in 0 .. Len(batch[c]) :
          LET front == Elements(SubSeq(batch[c], 1, n))
          IN /\ events' = SubSeq(batch[c], n + 1, Len(batch[c])) \o events
             /\ \/ /\ flight' = [flight EXCEPT ![c] = @ \cup front]
                   /\ UNCHANGED dropped
                \/ /\ dropped' = dropped \cup front
                   /\ UNCHANGED flight
    BY <1>t, <1>4, SendSoeEffect
  <2>. DEFINE front == Elements(SubSeq(batch[c], 1, n))
              tail  == SubSeq(batch[c], n + 1, Len(batch[c]))
              rest  == Elements(tail)
  <2>3. /\ tail \in Seq(Event)
        /\ Elements(batch[c]) = front \cup rest /\ front \cap rest = {}
    BY <1>t, ElementsSplit DEF Exclusive
  <2>4. Elements(events)' = rest \cup Elements(events)
    BY <1>t, <2>2, <2>3, ElementsConcat
  <2>5. Elements(batch'[c]) = {}
    BY <1>t, <2>1, ElementsEmpty
  <2>6. /\ Waiting' = Waiting \cup rest
        /\ \A d \in Client : d # c => Held(d)' = Held(d)
    BY <1>t, <2>1, <2>2, <2>4, <2>5 DEF Held, Waiting
  <2>7. CASE flight' = [flight EXCEPT ![c] = @ \cup front] /\ UNCHANGED dropped
    <3>1. Held(c)' = flight[c] \cup front
      BY <1>t, <2>5, <2>7 DEF Held
    <3>2. Undelivered' = Undelivered
      BY <2>3, <2>6, <3>1, PendingIsPlaces DEF Held
    <3>. QED  BY <2>1, <2>7, <3>2
  <2>8. CASE dropped' = dropped \cup front /\ UNCHANGED flight
    <3>1. Held(c)' = flight[c]
      BY <1>t, <2>5, <2>8 DEF Held
    <3>2. front \subseteq Undelivered /\ front \subseteq Held(c)
      BY <2>3, PendingIsPlaces DEF Held
    <3>3. /\ front \cap Waiting = {} /\ front \cap flight[c] = {} /\ front \cap rest = {}
          /\ \A d \in Client : d # c => front \cap Held(d) = {}
      BY <1>t, <2>3, <3>2 DEF Exclusive
    <3>4. Undelivered' = Undelivered \ front
      <4>1. Undelivered' \subseteq Undelivered \ front
        BY <2>3, <2>6, <3>1, <3>3, PendingIsPlaces DEF Held
      <4>2. Undelivered \ front \subseteq Undelivered'
        BY <2>3, <2>6, <3>1, PendingIsPlaces DEF Held
      <4>. QED  BY <4>1, <4>2
    <3>. QED  BY <2>1, <2>8, <3>2, <3>4 DEF DropStep
  <2>. QED  BY <2>2, <2>7, <2>8
<1>5. ASSUME NEW c \in Client, SendSoeRaises(c)
      PROVE  Stutter
  <2>1. /\ UNCHANGED <<flight, delivered, dropped>> /\ InHandler' = InHandler
        /\ batch' = [batch EXCEPT ![c] = <<>>] /\ events' = batch[c] \o events
    BY <1>5, SendSoeRaisesEffect
  <2>2. Elements(events)' = Elements(batch[c]) \cup Elements(events)
    BY <1>t, <2>1, ElementsConcat
  <2>3. Elements(batch'[c]) = {}
    BY <1>t, <2>1, ElementsEmpty
  <2>4. /\ \A d \in Client : d # c => Held(d)' = Held(d)
        /\ Waiting' = Waiting \cup Elements(batch[c]) /\ Held(c)' = flight[c]
    BY <1>t, <2>1, <2>2, <2>3 DEF Held, Waiting
  <2>5. Undelivered' = Undelivered
    BY <2>4, PendingIsPlaces DEF Held
  <2>. QED  BY <2>1, <2>5
<1>6. ASSUME NEW c \in Client, Read(c) \/ Cut(c)
      PROVE  Undelivered' = Undelivered \ flight[c] /\ flight[c] \subseteq Undelivered
  <2>1. /\ UNCHANGED <<batch, events>> /\ InHandler' = InHandler
        /\ flight' = [flight EXCEPT ![c] = {}]
    BY <1>6 DEF Read, Cut, InHandler
  <2>2. /\ Waiting' = Waiting /\ Held(c)' = Elements(batch[c])
        /\ \A d \in Client : d # c => Held(d)' = Held(d)
    BY <1>t, <2>1 DEF Held, Waiting
  <2>3. /\ flight[c] \cap Waiting = {} /\ flight[c] \cap Elements(batch[c]) = {}
        /\ \A d \in Client : d # c => flight[c] \cap Held(d) = {}
    BY <1>t DEF Exclusive, Held
  <2>4. Undelivered' \subseteq Undelivered \ flight[c]
    BY <2>2, <2>3, PendingIsPlaces DEF Held
  <2>5. Undelivered \ flight[c] \subseteq Undelivered'
    BY <2>2, PendingIsPlaces DEF Held
  <2>6. flight[c] \subseteq Undelivered
    BY PendingIsPlaces DEF Held
  <2>. QED  BY <2>4, <2>5, <2>6
<1>7. ASSUME NEW c \in Client, Read(c)
      PROVE  ReadStep(c)
  BY <1>6, <1>7 DEF Read, ReadStep
<1>8. ASSUME NEW c \in Client, Cut(c)
      PROVE  DropStep
  BY <1>6, <1>8 DEF Cut, DropStep
<1>9. ASSUME StillMoves
      PROVE  Stutter
  <2>1. UNCHANGED Places
    BY <1>9, StillEffect
  <2>. QED  BY <2>1, PendingIsPlaces DEF Places, Waiting, Held, Elements, InHandler
<1>. QED
  BY <1>1, <1>2, <1>3, <1>4, <1>5, <1>7, <1>8, <1>9 DEF PempNext, Handler, StillMoves

\* At the start there is no event.
LEMMA InitDelivery ==
  ASSUME PempInit
  PROVE  DeliveryInv /\ Undelivered = {} /\ delivered = {} /\ dropped = {}
<1>1. InHandler = {}
  BY DEF PempInit, InHandler, Event
<1>2. /\ events = <<>> /\ delivered = {} /\ dropped = {}
      /\ \A c \in Client : batch[c] = <<>> /\ flight[c] = {}
  BY DEF PempInit
<1>3. /\ Waiting = {} /\ Gone = {} /\ \A c \in Client : Held(c) = {} /\ Elements(batch[c]) = {}
  BY <1>1, <1>2, ElementsEmpty DEF Waiting, Gone, Held
<1>4. Undelivered = {}
  BY <1>3, PendingIsPlaces
<1>5. Exclusive
  BY <1>1, <1>2, <1>3, ElementsEmpty DEF Exclusive
<1>6. BatchInv
  BY <1>2, EmptySeq, ServerAssumption DEF BatchInv, Least
<1>. QED  BY <1>2, <1>3, <1>4, <1>5, <1>6 DEF DeliveryInv, Known

\* Fix H1: for any number of connections that come, stall and break, and over
\* stops and starts, every SOE event the server takes over is delivered at most
\* once, and lost only with a connection it was written to: as long as an
\* upload fits into its frame, and without a limit of the queue (the server
\* sets none).
THEOREM DeliveryCorrect ==
  ASSUME MaxSize = 0
  PROVE  PempSpec /\ []FrameFits => Delivery
<1>1. PempInit => Promise!Init /\ DeliveryInv
  BY InitDelivery DEF Promise!Init
<1>2. FrameFits /\ PempTypeOK /\ DeliveryInv /\ [PempNext]_pempVars => DeliveryInv'
  BY DeliveryStep
<1>3. PempTypeOK /\ DeliveryInv /\ [PempNext]_pempVars => [Promise!Next]_Promise!vars
  <2>. SUFFICES ASSUME PempTypeOK, DeliveryInv, [PempNext]_pempVars
                PROVE  Promise!Next \/ UNCHANGED <<Undelivered, delivered, dropped>>
    BY DEF Promise!vars
  <2>1. TakeStep => Promise!Next
    BY DEF TakeStep, Promise!Next, Promise!Take, Promise!Event, Event
  <2>2. DropStep => Promise!Next
    BY DEF DropStep, Promise!Next, Promise!Drop
  <2>3. ASSUME NEW c \in Client, ReadStep(c)
        PROVE  Promise!Next
    <3>1. Promise!Deliver(flight[c])
      BY <2>3 DEF ReadStep, Promise!Deliver
    <3>. QED  BY <2>3, <3>1 DEF ReadStep, Promise!Next
  <2>. QED  BY <2>1, <2>2, <2>3, PromiseStep
<1>. QED  BY <1>1, <1>2, <1>3, TypeCorrect, PTL DEF PempSpec, Delivery, Promise!Spec

-----------------------------------------------------------------------------
(* ... in the order of its sources, one connection at a time *)

\* Only an accept makes a client busy, and with one connection at a time it
\* waits until nobody is.
LEMMA SoloStep ==
  ASSUME MaxLive <= 1, PempTypeOK, Solo, [PempNext]_pempVars
  PROVE  Solo'
<1>t. /\ pc \in [Client -> {"free", "top", "recv", "upload", "pop", "sendDi", "sendAi", "sendSoe", "done"}]
      /\ flight \in [Client -> SUBSET Event]
  BY DEF PempTypeOK, EventTypes, ClientTypes
<1>1. Busy' \subseteq Busy => Solo'
  BY DEF Solo
<1>2. ASSUME UNCHANGED <<pc, flight>>
      PROVE  Busy' \subseteq Busy
  BY <1>2 DEF Busy, Live
<1>3. ASSUME NEW c \in Client, Accept(c)
      PROVE  Solo'
  <2>1. Cardinality(Busy) < MaxLive
    BY <1>3 DEF Accept, Busy
  <2>2. IsFiniteSet(Busy) /\ Cardinality(Busy) \in Nat
    <3>1. Busy \subseteq Client
      BY DEF Busy, Live
    <3>. QED  BY <3>1, ServerAssumption, FS_Subset, FS_CardinalityType
  <2>3. Busy = {}
    <3>1. Cardinality(Busy) = 0
      BY <2>1, <2>2, ServerAssumption
    <3>. QED  BY <2>2, <3>1, FS_EmptySet
  <2>4. pc' = [Cleaned(accepts + 1) EXCEPT ![c] = "top"] /\ UNCHANGED flight
    BY <1>3 DEF Accept
  <2>5. Busy' \subseteq {c}
    BY <1>t, <2>3, <2>4 DEF Busy, Live, Cleaned
  <2>. QED  BY <2>5 DEF Solo
<1>4. ASSUME NEW c \in Client, NEW l, c \in Live, pc' = [pc EXCEPT ![c] = l],
             \A d \in Client : d # c => flight'[d] = flight[d]
      PROVE  Busy' \subseteq Busy
  BY <1>t, <1>4 DEF Busy, Live
<1>5. ASSUME NEW c \in Client,
             Handler(c) \/ \E frame \in Frames : RecvFrame(c, frame)
      PROVE  Busy' \subseteq Busy
  <2>1. c \in Live
    BY <1>5 DEF Handler, Top, RecvTimeout, RecvClosed, Upload, SendDi, SendAi, SendRaises, Pop,
       SendSoe, SendSoeRaises, RecvFrame, Live
  <2>2. \E l : pc' = [pc EXCEPT ![c] = l]
    BY <1>5 DEF Handler, Top, RecvTimeout, RecvClosed, Upload, SendDi, SendAi, SendRaises, Pop,
       SendSoe, SendSoeRaises, RecvFrame, Sent, Return, GoesTo
  <2>3. \A d \in Client : d # c => flight'[d] = flight[d]
    <3>1. CASE SendSoe(c)
      BY <1>t, <3>1 DEF SendSoe
    <3>2. CASE ~SendSoe(c)
      BY <1>5, <3>2 DEF Handler, Top, RecvTimeout, RecvClosed, Upload, SendDi, SendAi, SendRaises,
         Pop, SendSoeRaises, RecvFrame
    <3>. QED  BY <3>1, <3>2
  <2>. QED  BY <1>4, <2>1, <2>2, <2>3
<1>6. ASSUME NEW c \in Client, Read(c) \/ Cut(c)
      PROVE  Busy' \subseteq Busy
  BY <1>t, <1>6 DEF Read, Cut, Busy, Live
<1>7. ASSUME NEW c \in Client, Stall(c) \/ Unstall(c)
      PROVE  Busy' \subseteq Busy
  BY <1>2, <1>7 DEF Stall, Unstall
<1>8. CASE JoinAll
  BY <1>1, <1>8 DEF JoinAll, Busy, Live
<1>9. CASE StartServer \/ Subscribe \/ CloseListeners \/ EndAccept \/ StopServer \/ UNCHANGED pempVars
  BY <1>1, <1>2, <1>9 DEF StartServer, Subscribe, CloseListeners, EndAccept, StopServer, pempVars, clients
<1>10. ASSUME NEW s \in Source, Publish(s) \/ Handle(s)
       PROVE  Busy' \subseteq Busy
  BY <1>2, <1>10 DEF Publish, Handle, clients
<1>. QED
  BY <1>1, <1>3, <1>5, <1>6, <1>7, <1>8, <1>9, <1>10 DEF PempNext, Server

\* Whoever holds events is busy.
LEMMA HolderIsBusy ==
  ASSUME BatchInv, NEW c \in Client, Held(c) # {}
  PROVE  c \in Busy
<1>1. CASE flight[c] # {}
  BY <1>1 DEF Busy
<1>2. CASE Elements(batch[c]) # {}
  <2>1. pc[c] = "sendSoe"
    BY <1>2, ElementsEmpty DEF BatchInv
  <2>. QED  BY <2>1 DEF Busy, Live
<1>. QED  BY <1>1, <1>2 DEF Held

\* The order of the places is kept by every move: to the end of g_soeQueue, to
\* a batch, to the connection, and back to the front.
LEMMA OrderStep ==
  ASSUME MaxSize = 0, PempTypeOK, DeliveryInv, Solo, OrderInv, [PempNext]_pempVars
  PROVE  OrderInv'
<1>t. /\ events \in Seq(Event) /\ batch \in [Client -> Seq(Event)]
      /\ flight \in [Client -> SUBSET Event]
      /\ published \in [Source -> 0 .. MaxSeq] /\ MaxSeq \in Nat
      /\ pc \in [Client -> {"free", "top", "recv", "upload", "pop", "sendDi", "sendAi", "sendSoe", "done"}]
      /\ InHandler \subseteq Event
      /\ Exclusive /\ Known /\ BatchInv /\ OrderInv
  BY ServerAssumption DEF PempTypeOK, EventTypes, ClientTypes, InHandler, DeliveryInv
<1>b. \A S, T, U : /\ Before(S \cup T, U) <=> Before(S, U) /\ Before(T, U)
                   /\ Before(S, T \cup U) <=> Before(S, T) /\ Before(S, U)
                   /\ Before({}, U) /\ Before(S, {})
  BY DEF Before
<1>e. ASSUME UNCHANGED <<events, batch, flight>>, InHandler' = InHandler
      PROVE  OrderInv'
  <2>1. /\ Waiting' = Waiting /\ Elements(events)' = Elements(events)
        /\ \A c \in Client : Held(c)' = Held(c) /\ Elements(batch[c])' = Elements(batch[c])
        /\ Sorted(events)' = Sorted(events)
        /\ \A c \in Client : Sorted(batch[c])' = Sorted(batch[c])
    BY <1>e DEF Waiting, Held, Elements, Sorted
  <2>. QED  BY <1>t, <1>e, <2>1 DEF OrderInv, Before
<1>1. ASSUME NEW s \in Source, Publish(s)
      PROVE  OrderInv'
  <2>1. UNCHANGED <<events, batch, flight>>
    BY <1>1, PublishEffect
  <2>2. ASSUME NEW e \in Event, e.seq > published[e.source], InHandler' = InHandler \cup {e}
        PROVE  OrderInv'
    <3>1. Before(Undelivered, {e})
      <4>1. ASSUME NEW f \in Undelivered, f.source = e.source
            PROVE  f.seq < e.seq
        <5>1. f.seq <= published[e.source] /\ published[e.source] \in Nat
          BY <1>t, <4>1 DEF Known, Event
        <5>2. f \in Event
          <6>1. Elements(events) \subseteq Event /\ \A c \in Client : Elements(batch[c]) \subseteq Event
            BY <1>t, ElementOfSeq DEF Elements
          <6>. QED  BY <1>t, <6>1, PendingIsPlaces DEF Waiting, Held
        <5>. QED  BY <2>2, <5>1, <5>2 DEF Event
      <4>. QED  BY <4>1 DEF Before
    <3>2. Before(Elements(events), {e}) /\ \A c \in Client : Before(Held(c), {e})
      BY <3>1, PendingIsPlaces DEF Before, Waiting
    <3>3. /\ Waiting' = Waiting \cup {e} /\ Elements(events)' = Elements(events)
          /\ \A c \in Client : Held(c)' = Held(c) /\ Elements(batch[c])' = Elements(batch[c])
          /\ Sorted(events)' = Sorted(events)
          /\ \A c \in Client : Sorted(batch[c])' = Sorted(batch[c])
      BY <2>1, <2>2 DEF Waiting, Held, Elements, Sorted
    <3>4. /\ Before(Elements(events)', InHandler')
          /\ \A c \in Client : Before(Held(c)', Waiting') /\ Before(flight'[c], Elements(batch[c])')
      BY <1>t, <1>b, <2>1, <2>2, <3>2, <3>3 DEF OrderInv
    <3>. QED  BY <1>t, <3>3, <3>4 DEF OrderInv, Before
  <2>. QED  BY <1>1, <1>e, <2>1, <2>2, PublishEffect
<1>2. ASSUME NEW s \in Source, Handle(s)
      PROVE  OrderInv'
  <2>1. UNCHANGED <<batch, flight>>
    BY <1>2, HandleEffect
  <2>2. PICK e \in InHandler : /\ events' = Append(events, e) /\ InHandler' = InHandler \ {e}
                               /\ \A f \in InHandler' : f.source # e.source
    BY <1>2, HandleEffect
  <2>3. Elements(events)' = Elements(events) \cup {e} /\ Sorted(events)'
    <3>1. e \in Event /\ Before(Elements(events), {e}) /\ Sorted(events)
      BY <1>t DEF OrderInv, Before
    <3>. QED  BY <1>t, <2>2, <3>1, ElementsAppend
  <2>4. Before(Elements(events)', InHandler')
    BY <1>t, <2>2, <2>3 DEF OrderInv, Before
  <2>5. /\ Waiting' = Waiting
        /\ \A c \in Client : Held(c)' = Held(c) /\ Elements(batch[c])' = Elements(batch[c])
        /\ \A c \in Client : Sorted(batch[c])' = Sorted(batch[c])
    BY <2>1, <2>2, <2>3 DEF Waiting, Held, Elements, Sorted
  <2>. QED  BY <1>t, <2>1, <2>3, <2>4, <2>5 DEF OrderInv, Before
<1>3. ASSUME NEW c \in Client, Pop(c)
      PROVE  OrderInv'
  <2>1. /\ UNCHANGED <<flight>> /\ InHandler' = InHandler
        /\ pc[c] = "pop"
        /\ batch' = [batch EXCEPT ![c] = events] /\ events' = <<>> /\ Elements(events') = {}
    BY <1>3, PopEffect
  <2>2. /\ Waiting' = InHandler /\ Held(c)' = Elements(events) \cup flight[c]
        /\ Elements(batch[c])' = Elements(events) /\ flight[c] \subseteq Held(c)
        /\ \A d \in Client : d # c => Held(d)' = Held(d) /\ Elements(batch[d])' = Elements(batch[d])
    BY <1>t, <2>1 DEF Waiting, Held
  <2>3. Sorted(events') /\ \A d \in Client : Sorted(batch'[d])
    BY <1>t, <2>1, ElementsEmpty DEF OrderInv
  <2>4. /\ Before(flight[c], Elements(events)) /\ Before(Held(c)', Waiting')
        /\ \A d \in Client : Before(Held(d), InHandler)
    BY <1>t, <1>b, <2>2 DEF OrderInv, Before, Waiting
  <2>5. \A d \in Client : Before(Held(d)', Waiting') /\ Before(flight'[d], Elements(batch[d])')
    BY <1>t, <2>1, <2>2, <2>4 DEF OrderInv
  <2>. QED  BY <1>b, <2>1, <2>3, <2>5 DEF OrderInv, Before, Sorted
<1>4. ASSUME NEW c \in Client, SendSoe(c)
      PROVE  OrderInv'
  <2>1. /\ InHandler' = InHandler /\ pc[c] = "sendSoe"
        /\ batch' = [batch EXCEPT ![c] = <<>>]
    BY <1>t, <1>4, SendSoeEffect
  <2>2. PICK n \in 0 .. Len(batch[c]) :
          LET front == Elements(SubSeq(batch[c], 1, n))
          IN /\ events' = SubSeq(batch[c], n + 1, Len(batch[c])) \o events
             /\ \/ /\ flight' = [flight EXCEPT ![c] = @ \cup front]
                   /\ UNCHANGED dropped
                \/ /\ dropped' = dropped \cup front
                   /\ UNCHANGED flight
    BY <1>t, <1>4, SendSoeEffect
  <2>. DEFINE front == Elements(SubSeq(batch[c], 1, n))
              tail  == SubSeq(batch[c], n + 1, Len(batch[c]))
              rest  == Elements(tail)
  <2>3. /\ tail \in Seq(Event) /\ Sorted(tail) /\ Before(front, rest)
        /\ Elements(batch[c]) = front \cup rest
    BY <1>t, ElementsSplit DEF OrderInv
  <2>4. /\ Before(front, Waiting) /\ Before(rest, Waiting) /\ Before(flight[c], Waiting)
        /\ Before(flight[c], rest)
    BY <1>t, <2>3 DEF OrderInv, Held, Before
  <2>5. /\ Before(rest, Elements(events)) /\ Before(rest, InHandler)
        /\ Before(Elements(events), InHandler)
    BY <1>t, <1>b, <2>4 DEF Waiting, OrderInv
  <2>6. Elements(events)' = rest \cup Elements(events) /\ Sorted(events)'
    BY <1>t, <2>2, <2>3, <2>5, ElementsConcat DEF OrderInv
  <2>7. Elements(batch'[c]) = {} /\ \A d \in Client : Sorted(batch'[d])
    BY <1>t, <2>1, ElementsEmpty DEF OrderInv
  <2>8. Before(Elements(events)', InHandler')
    BY <2>1, <2>5, <2>6 DEF Before
  <2>9. /\ Waiting' = Waiting \cup rest
        /\ Held(c)' = flight[c] \cup front \/ Held(c)' = flight[c]
    BY <1>t, <2>1, <2>2, <2>6, <2>7 DEF Waiting, Held
  <2>10. Before(Held(c)', Waiting')
    BY <2>3, <2>4, <2>9 DEF Before
  <2>11. ASSUME NEW d \in Client, d # c
         PROVE  Held(d)' = {}
    <3>1. c \in Busy
      BY <2>1 DEF Busy, Live
    <3>2. Held(d) = {}
      BY <1>t, <2>11, <3>1, HolderIsBusy DEF Solo
    <3>. QED  BY <1>t, <2>1, <2>2, <2>11, <3>2 DEF Held
  <2>12. \A d \in Client : Before(Held(d)', Waiting') /\ Before(flight'[d], Elements(batch'[d]))
    BY <2>7, <2>10, <2>11 DEF Held, Before
  <2>. QED  BY <2>6, <2>7, <2>8, <2>12 DEF OrderInv, Before, Sorted
<1>5. ASSUME NEW c \in Client, SendSoeRaises(c)
      PROVE  OrderInv'
  <2>1. /\ UNCHANGED flight /\ InHandler' = InHandler /\ pc[c] = "sendSoe"
        /\ batch' = [batch EXCEPT ![c] = <<>>] /\ events' = batch[c] \o events
    BY <1>5, SendSoeRaisesEffect
  <2>2. /\ Before(Elements(batch[c]), Elements(events)) /\ Before(Elements(batch[c]), InHandler)
        /\ Before(flight[c], Waiting) /\ Before(flight[c], Elements(batch[c]))
        /\ Before(Elements(events), InHandler)
    BY <1>t DEF OrderInv, Waiting, Held, Before
  <2>3. Elements(events)' = Elements(batch[c]) \cup Elements(events) /\ Sorted(events)'
    BY <1>t, <2>1, <2>2, ElementsConcat DEF OrderInv
  <2>4. Elements(batch'[c]) = {} /\ \A d \in Client : Sorted(batch'[d])
    BY <1>t, <2>1, ElementsEmpty DEF OrderInv
  <2>5. Before(Elements(events)', InHandler')
    BY <2>1, <2>2, <2>3 DEF Before
  <2>6. Waiting' = Waiting \cup Elements(batch[c]) /\ Held(c)' = flight[c]
    BY <1>t, <2>1, <2>3, <2>4 DEF Waiting, Held
  <2>7. Before(Held(c)', Waiting')
    BY <2>2, <2>6 DEF Before
  <2>8. ASSUME NEW d \in Client, d # c
        PROVE  Held(d)' = {}
    <3>1. c \in Busy
      BY <2>1 DEF Busy, Live
    <3>2. Held(d) = {}
      BY <1>t, <2>8, <3>1, HolderIsBusy DEF Solo
    <3>. QED  BY <1>t, <2>1, <2>8, <3>2 DEF Held
  <2>9. \A d \in Client : Before(Held(d)', Waiting') /\ Before(flight'[d], Elements(batch'[d]))
    BY <1>b, <2>4, <2>7, <2>8 DEF Held
  <2>. QED  BY <2>3, <2>4, <2>5, <2>9 DEF OrderInv, Before, Sorted
<1>6. ASSUME NEW c \in Client, Read(c) \/ Cut(c)
      PROVE  OrderInv'
  <2>1. /\ UNCHANGED <<batch, events>> /\ InHandler' = InHandler
        /\ flight' = [flight EXCEPT ![c] = {}]
    BY <1>6 DEF Read, Cut, InHandler
  <2>2. /\ Waiting' = Waiting /\ Elements(events)' = Elements(events) /\ Sorted(events)' = Sorted(events)
        /\ \A d \in Client : Sorted(batch[d])' = Sorted(batch[d]) /\ Elements(batch[d])' = Elements(batch[d])
    BY <2>1 DEF Waiting, Elements, Sorted
  <2>3. \A d \in Client : flight'[d] \subseteq flight[d] /\ Held(d)' \subseteq Held(d)
    BY <1>t, <2>1, <2>2 DEF Held
  <2>. QED  BY <1>t, <2>1, <2>2, <2>3 DEF OrderInv, Before
<1>7. ASSUME StillMoves
      PROVE  OrderInv'
  <2>1. UNCHANGED Places
    BY <1>7, StillEffect
  <2>. QED  BY <1>e, <2>1 DEF Places, InHandler
<1>. QED
  BY <1>1, <1>2, <1>3, <1>4, <1>5, <1>6, <1>7 DEF PempNext, Handler, StillMoves

\* ... and with one connection at a time no event overtakes an earlier one of
\* its source: not when a frame cannot be sent and its events go back to the
\* front, not when the next master gets what the one before did not.
THEOREM OrderCorrect ==
  ASSUME MaxSize = 0, MaxLive <= 1
  PROVE  PempSpec /\ []FrameFits => OrderedDelivery
<1>. DEFINE Inv == PempTypeOK /\ DeliveryInv /\ Solo /\ OrderInv
<1>1. PempInit => OrderedPromise!Init /\ DeliveryInv /\ Solo /\ OrderInv
  <2>. SUFFICES ASSUME PempInit PROVE OrderedPromise!Init /\ DeliveryInv /\ Solo /\ OrderInv
    OBVIOUS
  <2>1. /\ Undelivered = {} /\ delivered = {} /\ dropped = {} /\ DeliveryInv
    BY InitDelivery
  <2>2. Solo
    BY DEF PempInit, Solo, Busy, Live
  <2>3. Waiting = {} /\ \A c \in Client : Held(c) = {}
    BY <2>1, PendingIsPlaces
  <2>4. OrderInv
    <3>1. events = <<>> /\ \A c \in Client : batch[c] = <<>>
      BY DEF PempInit
    <3>. QED  BY <2>3, <3>1, ElementsEmpty DEF OrderInv, Before, Held, Waiting
  <2>. QED  BY <2>1, <2>2, <2>4 DEF OrderedPromise!Init
<1>2. FrameFits /\ Inv /\ [PempNext]_pempVars => DeliveryInv' /\ Solo' /\ OrderInv'
  BY DeliveryStep, SoloStep, OrderStep
<1>3. Inv /\ [PempNext]_pempVars => [OrderedPromise!Next]_OrderedPromise!vars
  <2>. SUFFICES ASSUME PempTypeOK, DeliveryInv, Solo, OrderInv, [PempNext]_pempVars
                PROVE  OrderedPromise!Next \/ UNCHANGED <<Undelivered, delivered, dropped>>
    BY DEF OrderedPromise!vars
  <2>1. TakeStep => OrderedPromise!Next
    BY DEF TakeStep, OrderedPromise!Next, OrderedPromise!Take, OrderedPromise!Event, Event
  <2>2. DropStep => OrderedPromise!Next
    BY DEF DropStep, OrderedPromise!Next, OrderedPromise!Drop
  <2>3. ASSUME NEW c \in Client, ReadStep(c)
        PROVE  OrderedPromise!Next
    <3>1. ASSUME NEW e \in flight[c], NEW f \in Undelivered, f.source = e.source, f.seq < e.seq
          PROVE  f \in flight[c]
      <4>1. e \in Held(c) /\ e \in Event
        BY DEF Held, PempTypeOK, EventTypes
      <4>2. \A g \in Waiting \cup Elements(batch[c]) : g.source = e.source => e.seq < g.seq
        BY <4>1 DEF OrderInv, Before
      <4>3. \A d \in Client : d # c => Held(d) = {}
        <5>1. c \in Busy /\ BatchInv
          BY DEF Busy, DeliveryInv
        <5>. QED  BY <5>1, HolderIsBusy DEF Solo
      <4>4. f \in Waiting \cup Held(c)
        BY <4>3, PendingIsPlaces
      <4>5. ~(e.seq < f.seq)
        <5>1. f.seq \in Nat /\ e.seq \in Nat
          <6>1. f \in Event
            BY <4>4, ElementOfSeq DEF Waiting, Held, InHandler, Elements, PempTypeOK, EventTypes
          <6>. QED  BY <4>1, <6>1 DEF Event
        <5>. QED  BY <3>1, <5>1
      <4>. QED  BY <3>1, <4>2, <4>4, <4>5 DEF Held
    <3>2. OrderedPromise!Deliver(flight[c])
      BY <2>3, <3>1 DEF ReadStep, OrderedPromise!Deliver, OrderedPromise!InOrder, OrderedPromise!Earlier
    <3>. QED  BY <2>3, <3>2 DEF ReadStep, OrderedPromise!Next
  <2>. QED  BY <2>1, <2>2, <2>3, PromiseStep
<1>. QED
  BY <1>1, <1>2, <1>3, TypeCorrect, PTL DEF PempSpec, OrderedDelivery, OrderedPromise!Spec
=============================================================================
