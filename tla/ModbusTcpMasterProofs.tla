----------------------- MODULE ModbusTcpMasterProofs -----------------------
(***************************************************************************)
(* Safety of ModbusTcpMaster for every mapping of points to channels and   *)
(* registers, every schedule of the channel threads and every bound: types,*)
(* and that a device confirms no more writes than there were commands.     *)
(***************************************************************************)
EXTENDS ModbusTcpMaster, SequenceTheorems, TLAPS

\* The inductive invariant behind TypeOK and NoRepeat.
Writing == {"send", "record", "reset", "resetSent", "schedule"}

\* The write in hand of a thread is one of a point of its own channel; only an
\* executed ON is taken back.
OwnPoint ==
  \A c \in Channel :
    /\ todo[c] \subseteq Mapped(c)
    /\ pc[c] \in Writing => cur[c].point \in Mapped(c)
    /\ pc[c] \in {"reset", "resetSent"} => ~IsAo[cur[c].point]

\* A DO is commanded and written on or off, also where AO values are larger.
DoIsBit ==
  /\ \A p \in Point : ~IsAo[p] => target[p] \in {0, 1}
  /\ \A c \in Channel : ~IsAo[cur[c].point] => cur[c].value \in {0, 1}

\* Once a channel is connected, every point of it has an entry in doSent_ or
\* aoSent_ until the thread has returned.
Filled ==
  \A c \in Channel : \A p \in Mapped(c) :
    pc[c] \notin {"down", "ended"} => sent[p] # Unset

\* ProcessPulseQueue never looks in front of its list.
InList == \A c \in Channel : pos[c] # 0

\* Whether the value x is to be replaced by another write.
Differs(p, x) == IF x # Unset /\ Current(p) # x THEN 1 ELSE 0

\* The writes that the commands given so far to p can still cause: the one in
\* hand, and one more if the command has changed again since it was read.
Owed(p) ==
  LET c    == ChannelOf[p]
      v    == cur[c].value
      on   == ~IsAo[p] /\ v = 1      \* taken back before it is compared again
      here == cur[c].point = p
  IN CASE here /\ pc[c] = "send"      -> IF on THEN 1 ELSE 1 + Differs(p, v)
       [] here /\ pc[c] = "record"    -> IF on THEN 0 ELSE Differs(p, v)
       [] here /\ pc[c] = "reset"     -> 0
       [] here /\ pc[c] = "resetSent" -> Differs(p, 0)
       [] OTHER                       -> Differs(p, sent[p])

Credit == \A p \in Point : ~Invert[p] => confirmed[p] + Owed(p) <= asked[p]

IInv == TypeOK /\ InList /\ OwnPoint /\ DoIsBit /\ Filled /\ Credit

-----------------------------------------------------------------------------
(* Lemmas about the operators of the model *)

\* What is left of a queue of S is a queue of S.
LEMMA RemoveAtTyped ==
  ASSUME NEW S, NEW s \in Seq(S), NEW i \in 1 .. Len(s)
  PROVE  RemoveAt(s, i) \in Seq(S)
<1>1. Len(s) \in Nat /\ \A j \in 1 .. Len(s) : s[j] \in S
  BY LenProperties, ElementOfSeq
<1>2. SubSeq(s, 1, i - 1) \in Seq(S)
  BY <1>1, SubSeqProperties
<1>3. SubSeq(s, i + 1, Len(s)) \in Seq(S)
  BY <1>1, SubSeqProperties
<1>. QED  BY <1>2, <1>3, ConcatProperties DEF RemoveAt

\* The values of a DO and Unset among the numbers.
LEMMA ValueFacts ==
  /\ {0, 1} \subseteq Value /\ Value \subseteq Nat
  /\ Unset \in Nat /\ Unset \notin Value
BY LimitAssumption DEF Value, Unset

\* What a thread writes is a value, and a bit where the point is a DO.
LEMMA CurrentTyped ==
  ASSUME TypeOK, DoIsBit, NEW p \in Point
  PROVE  /\ Current(p) \in Value /\ target[p] \in Value
         /\ ~IsAo[p] => Current(p) \in {0, 1}
BY MappingAssumption, ValueFacts DEF TypeOK, PointTypes, DoIsBit, Current

\* An exchange leaves typed registers and a typed connection.
LEMMA ExchangeTyped ==
  ASSUME TypeOK, NEW c \in Channel, NEW a \in Addresses, NEW v \in Value, NEW r,
         Exchange(c, a, v, r)
  PROVE  /\ output' \in [Channel -> [Addresses -> Value]]
         /\ link' \in [Channel -> {"up", "eof"}]
<1>1. output \in [Channel -> [Addresses -> Value]] /\ link \in [Channel -> {"up", "eof"}]
  BY DEF TypeOK, PointTypes, ThreadTypes
<1>2. [output EXCEPT ![c][a] = v] \in [Channel -> [Addresses -> Value]]
  BY <1>1
<1>3. output' \in {output, [output EXCEPT ![c][a] = v]}
  BY DEF Exchange
<1>4. link' = [link EXCEPT ![c] = IF r = "eof" THEN "eof" ELSE @]
  BY DEF Exchange
<1>. QED  BY <1>1, <1>2, <1>3, <1>4

-----------------------------------------------------------------------------
(* The initial states *)

\* Before the first connection nothing is written, sent or owed.
LEMMA InitIInv ==
  ASSUME Init
  PROVE  IInv
<1>1. TypeOK
  <2>1. (CHOOSE p \in Point : TRUE) \in Point
    BY MappingAssumption
  <2>2. PointTypes
    BY ValueFacts, LimitAssumption DEF Init, PointTypes
  <2>3. ThreadTypes
    BY <2>1, ValueFacts, LimitAssumption DEF Init, ThreadTypes, PC
  <2>4. PulseTypes
    BY DEF Init, PulseTypes
  <2>. QED  BY <2>2, <2>3, <2>4 DEF TypeOK
<1>2. InList /\ OwnPoint /\ DoIsBit /\ Filled
  BY <1>1 DEF TypeOK, ThreadTypes, Init, InList, OwnPoint, DoIsBit, Filled, Writing
<1>3. Credit
  BY MappingAssumption DEF Init, Credit, Owed, Differs
<1>. QED  BY <1>1, <1>2, <1>3 DEF IInv

-----------------------------------------------------------------------------
(* The steps: types *)

\* The data manager, the tables and the registers stay typed.
LEMMA PointStep ==
  ASSUME IInv, [Next]_vars
  PROVE  PointTypes'
<1>. USE ValueFacts DEF PointTypes
<1>t. TypeOK /\ PointTypes /\ ThreadTypes /\ PulseTypes /\ InList /\ OwnPoint /\ DoIsBit
  BY DEF IInv, TypeOK
<1>1. ASSUME NEW c \in Channel, Connect(c)
      PROVE  PointTypes'
  <2>1. \A p \in Point : Current(p) \in Value
    BY <1>t, CurrentTyped
  <2>. QED  BY <1>t, <1>1, <2>1 DEF Connect, history
<1>2. ASSUME NEW c \in Channel, NEW r \in Results, Send(c, r)
      PROVE  PointTypes'
  <2>1. cur[c].point \in Point /\ cur[c].value \in Value
    BY <1>t DEF ThreadTypes
  <2>2. output' \in [Channel -> [Addresses -> Value]]
    BY <1>t, <1>2, <2>1, ExchangeTyped DEF Send, Addresses
  <2>3. confirmed' \in [Point -> 0 .. MaxCommands + 1]
    BY <1>t, <1>2, <2>1, LimitAssumption DEF Send
  <2>. QED  BY <1>t, <1>2, <2>2, <2>3 DEF Send
<1>3. ASSUME NEW c \in Channel, NEW r \in Results, SendPulse(c, r)
      PROVE  PointTypes'
  <2>1. pulseQueue[pos[c]] \in PulseEntry
    BY <1>t, <1>3, ElementOfSeq DEF SendPulse, InQueue, InList, PulseTypes
  <2>2. output' \in [Channel -> [Addresses -> Value]]
    BY <1>t, <1>3, <2>1, ExchangeTyped DEF SendPulse, PulseEntry
  <2>. QED  BY <1>t, <1>3, <2>2 DEF SendPulse, history
<1>4. ASSUME NEW c \in Channel, Record(c) \/ Reset(c) \/ ResetSent(c)
      PROVE  PointTypes'
  <2>1. cur[c].point \in Point /\ cur[c].value \in Value
    BY <1>t DEF ThreadTypes
  <2>. QED  BY <1>t, <1>4, <2>1 DEF Record, Reset, ResetSent, history
<1>5. ASSUME NEW p \in Point, NEW v \in Value, Command(p, v)
      PROVE  PointTypes'
  BY <1>t, <1>5, LimitAssumption DEF Command
<1>6. ASSUME NEW c \in Channel,
             Scan(c) \/ EndScan(c) \/ Schedule(c) \/ EnterPulses(c) \/ SkipPulse(c)
               \/ LeavePulses(c) \/ NextScan(c) \/ PollFails(c) \/ EndThread(c)
      PROVE  UNCHANGED <<target, sent, output, history>>
  BY <1>6 DEF Scan, EndScan, Schedule, EnterPulses, SkipPulse, LeavePulses, NextScan,
     PollFails, EndThread
<1>7. CASE PulseDue \/ Stop \/ Restart \/ UNCHANGED vars
  BY <1>t, <1>7 DEF PulseDue, Stop, Restart, vars, history
<1>. QED
  BY <1>t, <1>1, <1>2, <1>3, <1>4, <1>5, <1>6, <1>7 DEF Next, ThreadStep, history

\* Threads, connections and the write in hand stay typed.
LEMMA ThreadTypesStep ==
  ASSUME IInv, [Next]_vars
  PROVE  ThreadTypes'
<1>. USE DEF ThreadTypes, PC, Goto
<1>t. TypeOK /\ ThreadTypes /\ PulseTypes /\ InList /\ OwnPoint /\ DoIsBit
  BY DEF IInv, TypeOK
<1>0. \A c \in Channel : Mapped(c) \subseteq Point
  BY DEF Mapped
<1>1. ASSUME NEW c \in Channel, Scan(c)
      PROVE  ThreadTypes'
  <2>1. PICK p \in todo[c] :
          /\ todo' = [todo EXCEPT ![c] = @ \ {p}]
          /\ IF sent[p] = Current(p)
             THEN UNCHANGED <<pc, cur>>
             ELSE Goto(c, "send") /\ cur' = [cur EXCEPT ![c] = [point |-> p, value |-> Current(p)]]
    BY <1>1 DEF Scan
  <2>2. p \in Point /\ Current(p) \in Value
    BY <1>t, CurrentTyped
  <2>3. cur' \in [Channel -> [point : Point, value : Value]] /\ pc' \in [Channel -> PC]
    <3>1. CASE sent[p] = Current(p)
      BY <1>t, <2>1, <3>1
    <3>2. CASE sent[p] # Current(p)
      BY <1>t, <2>1, <2>2, <3>2
    <3>. QED  BY <3>1, <3>2
  <2>4. todo' \in [Channel -> SUBSET Point]
    BY <1>t, <2>1
  <2>. QED  BY <1>t, <1>1, <2>3, <2>4 DEF Scan
<1>2. ASSUME NEW c \in Channel, NEW r \in Results, Send(c, r)
      PROVE  ThreadTypes'
  <2>1. cur[c].point \in Point /\ cur[c].value \in Value
    BY <1>t
  <2>2. link' \in [Channel -> {"up", "eof"}]
    BY <1>t, <1>2, <2>1, ExchangeTyped DEF Send, Addresses
  <2>. QED  BY <1>t, <1>2, <2>2 DEF Send
<1>3. ASSUME NEW c \in Channel, NEW r \in Results, SendPulse(c, r)
      PROVE  ThreadTypes'
  <2>1. pulseQueue[pos[c]] \in PulseEntry
    BY <1>t, <1>3, ElementOfSeq DEF SendPulse, InQueue, InList, PulseTypes
  <2>2. link' \in [Channel -> {"up", "eof"}]
    BY <1>t, <1>3, <2>1, ExchangeTyped DEF SendPulse, PulseEntry
  <2>. QED  BY <1>t, <1>3, <2>2 DEF SendPulse
<1>4. ASSUME NEW c \in Channel, Connect(c) \/ EndScan(c) \/ NextScan(c)
      PROVE  ThreadTypes'
  BY <1>t, <1>0, <1>4 DEF Connect, EndScan, NextScan
<1>5. ASSUME NEW c \in Channel, Record(c) \/ Reset(c) \/ ResetSent(c) \/ Schedule(c)
      PROVE  ThreadTypes'
  BY <1>t, <1>5 DEF Record, Reset, ResetSent, Schedule
<1>6. ASSUME NEW c \in Channel, EnterPulses(c) \/ LeavePulses(c) \/ PollFails(c) \/ EndThread(c)
      PROVE  ThreadTypes'
  BY <1>t, <1>6 DEF EnterPulses, LeavePulses, PollFails, EndThread
<1>7. ASSUME NEW c \in Channel, SkipPulse(c)
      PROVE  ThreadTypes'
  BY <1>t, <1>7 DEF SkipPulse, threads
<1>8. ASSUME NEW p \in Point, NEW v \in Value, Command(p, v)
      PROVE  ThreadTypes'
  BY <1>t, <1>8 DEF Command, threads
<1>9. CASE Stop \/ Restart
  <2>1. CASE Stop
    <3>1. /\ reloads < MaxReload /\ reloads' = reloads + 1
          /\ running' = FALSE /\ UNCHANGED <<pc, todo, cur, link>>
      BY <2>1 DEF Stop, threads
    <3>2. reloads' \in 0 .. MaxReload
      BY <1>t, <3>1, LimitAssumption
    <3>. QED  BY <1>t, <3>1, <3>2
  <2>2. CASE Restart
    <3>1. pc' \in [Channel -> PC] /\ running' \in BOOLEAN
      BY <2>2 DEF Restart
    <3>. QED  BY <1>t, <2>2, <3>1 DEF Restart
  <2>. QED  BY <1>9, <2>1, <2>2
<1>10. CASE PulseDue \/ UNCHANGED vars
  BY <1>t, <1>10 DEF PulseDue, vars, threads
<1>. QED
  BY <1>1, <1>2, <1>3, <1>4, <1>5, <1>6, <1>7, <1>8, <1>9, <1>10 DEF Next, ThreadStep

\* The pulse queue keeps well-formed entries under every append and removal.
LEMMA PulseStep ==
  ASSUME IInv, [Next]_vars
  PROVE  (PulseTypes /\ InList)'
<1>. USE DEF PulseTypes, InList
<1>t. TypeOK /\ ThreadTypes /\ PulseTypes /\ InList /\ OwnPoint /\ DoIsBit
  BY DEF IInv, TypeOK
<1>1. ASSUME NEW c \in Channel, Schedule(c)
      PROVE  (PulseTypes /\ InList)'
  <2>0. cur[c].point \in Point /\ cur[c].value \in Value
    BY <1>t DEF ThreadTypes
  <2>1. PulseBack(cur[c].point, cur[c].value) \in Value
    BY <1>t, <2>0, ValueFacts DEF PulseBack, DoIsBit
  <2>2. [channel |-> c, address |-> Address[cur[c].point],
         value |-> PulseBack(cur[c].point, cur[c].value), due |-> FALSE] \in PulseEntry
    BY <2>0, <2>1 DEF PulseEntry, Addresses
  <2>3. pulseQueue' \in Seq(PulseEntry)
    BY <1>t, <1>1, <2>2, AppendProperties DEF Schedule
  <2>. QED  BY <1>t, <1>1, <2>3 DEF Schedule
<1>2. ASSUME NEW c \in Channel, NEW r \in Results, SendPulse(c, r)
      PROVE  (PulseTypes /\ InList)'
  <2>1. pos[c] \in 1 .. Len(pulseQueue)
    BY <1>t, <1>2, LenProperties DEF SendPulse, InQueue, InList
  <2>2. RemoveAt(pulseQueue, pos[c]) \in Seq(PulseEntry)
    BY <1>t, <2>1, RemoveAtTyped
  <2>. QED  BY <1>t, <1>2, <2>2 DEF SendPulse
<1>3. ASSUME NEW c \in Channel, EnterPulses(c) \/ SkipPulse(c) \/ LeavePulses(c)
      PROVE  (PulseTypes /\ InList)'
  BY <1>t, <1>3 DEF EnterPulses, SkipPulse, LeavePulses
<1>4. CASE PulseDue
  <2>1. PICK i \in 1 .. Len(pulseQueue) : pulseQueue' = [pulseQueue EXCEPT ![i].due = TRUE]
    BY <1>4 DEF PulseDue
  <2>2. pulseQueue[i] \in PulseEntry
    BY <1>t, ElementOfSeq
  <2>3. [pulseQueue[i] EXCEPT !.due = TRUE] \in PulseEntry
    BY <2>2 DEF PulseEntry
  <2>4. pulseQueue' = [pulseQueue EXCEPT ![i] = [pulseQueue[i] EXCEPT !.due = TRUE]]
    BY <2>1
  <2>5. pulseQueue' \in Seq(PulseEntry)
    BY <1>t, <2>3, <2>4, ExceptSeq
  <2>. QED  BY <1>t, <1>4, <2>5 DEF PulseDue
<1>5. CASE Restart
  BY <1>t, <1>5 DEF Restart
<1>6. ASSUME NEW c \in Channel,
             \/ Connect(c) \/ Scan(c) \/ EndScan(c) \/ Record(c) \/ Reset(c) \/ ResetSent(c)
             \/ NextScan(c) \/ PollFails(c) \/ EndThread(c) \/ \E r \in Results : Send(c, r)
      PROVE  UNCHANGED pulses
  BY <1>6 DEF Connect, Scan, EndScan, Record, Reset, ResetSent, NextScan, PollFails, EndThread, Send
<1>7. ASSUME Stop \/ (\E p \in Point, v \in Value : Command(p, v)) \/ UNCHANGED vars
      PROVE  UNCHANGED pulses
  BY <1>7 DEF Stop, Command, vars
<1>. QED
  BY <1>t, <1>1, <1>2, <1>3, <1>4, <1>5, <1>6, <1>7 DEF Next, ThreadStep, pulses

-----------------------------------------------------------------------------
(* The steps: a thread touches nothing of another channel *)

\* doSent_, aoSent_ and the commands are shared, but the thread of c only
\* changes entries of its own points, and only its own write in hand.
LEMMA OwnStep ==
  ASSUME IInv, NEW c \in Channel, ThreadStep(c)
  PROVE  /\ \A d \in Channel : d # c =>
              pc'[d] = pc[d] /\ cur'[d] = cur[d] /\ todo'[d] = todo[d]
         /\ \A p \in Point : p \notin Mapped(c) =>
              target'[p] = target[p] /\ sent'[p] = sent[p] /\ confirmed'[p] = confirmed[p]
         /\ asked' = asked
<1>. DEFINE Others == \A d \in Channel : d # c =>
                        pc'[d] = pc[d] /\ cur'[d] = cur[d] /\ todo'[d] = todo[d]
            Points == \A p \in Point : p \notin Mapped(c) =>
                        target'[p] = target[p] /\ sent'[p] = sent[p] /\ confirmed'[p] = confirmed[p]
<1>. SUFFICES Others /\ Points /\ asked' = asked
  OBVIOUS
<1>. USE DEF Goto, history
<1>t. /\ pc \in [Channel -> PC] /\ cur \in [Channel -> [point : Point, value : Value]]
      /\ todo \in [Channel -> SUBSET Point]
      /\ target \in [Point -> Value] /\ sent \in [Point -> Value \cup {Unset}]
      /\ confirmed \in [Point -> 0 .. MaxCommands + 1]
  BY DEF IInv, TypeOK, PointTypes, ThreadTypes
<1>o. pc[c] \in Writing => cur[c].point \in Mapped(c)
  BY DEF IInv, OwnPoint
<1>1. CASE Connect(c)
  BY <1>t, <1>1 DEF Connect
<1>2. CASE Scan(c)
  BY <1>t, <1>2 DEF Scan
<1>3. CASE \E r \in Results : Send(c, r)
  <2>1. pc[c] = "send" /\ UNCHANGED <<target, sent, cur, todo, asked>>
    BY <1>3 DEF Send
  <2>2. \E l : pc' = [pc EXCEPT ![c] = l]
    BY <1>3 DEF Send
  <2>3. \E n : confirmed' = [confirmed EXCEPT ![cur[c].point] = n]
    BY <1>3 DEF Send
  <2>. QED  BY <1>t, <1>o, <2>1, <2>2, <2>3 DEF Writing
<1>4. CASE \E r \in Results : SendPulse(c, r)
  <2>1. UNCHANGED <<target, sent, cur, todo, history>>
    BY <1>4 DEF SendPulse
  <2>2. UNCHANGED pc \/ \E l : pc' = [pc EXCEPT ![c] = l]
    BY <1>4 DEF SendPulse
  <2>. QED  BY <1>t, <2>1, <2>2
<1>5. CASE Record(c) \/ Reset(c) \/ ResetSent(c)
  BY <1>t, <1>o, <1>5 DEF Record, Reset, ResetSent, Writing
<1>6. CASE EndScan(c) \/ NextScan(c)
  BY <1>t, <1>6 DEF EndScan, NextScan
<1>7. CASE Schedule(c) \/ LeavePulses(c) \/ PollFails(c) \/ EndThread(c)
  BY <1>t, <1>7 DEF Schedule, LeavePulses, PollFails, EndThread
<1>8. CASE EnterPulses(c) \/ SkipPulse(c)
  BY <1>t, <1>8 DEF EnterPulses, SkipPulse, threads
<1>. QED
  BY <1>1, <1>2, <1>3, <1>4, <1>5, <1>6, <1>7, <1>8 DEF ThreadStep

\* The write in hand stays a write of the thread's own channel, on or off
\* where it is a DO's.
LEMMA OwnPointStep ==
  ASSUME IInv, [Next]_vars
  PROVE  (OwnPoint /\ DoIsBit)'
<1>. USE DEF Goto
<1>t. /\ pc \in [Channel -> PC] /\ cur \in [Channel -> [point : Point, value : Value]]
      /\ todo \in [Channel -> SUBSET Point]
      /\ target \in [Point -> Value]
      /\ OwnPoint /\ DoIsBit
  BY DEF IInv, TypeOK, PointTypes, ThreadTypes
<1>1. ASSUME NEW c \in Channel, ThreadStep(c)
      PROVE  (OwnPoint /\ DoIsBit)'
  <2>. DEFINE Own(d) == /\ todo'[d] \subseteq Mapped(d)
                        /\ pc'[d] \in Writing => cur'[d].point \in Mapped(d)
                        /\ pc'[d] \in {"reset", "resetSent"} => ~IsAo[cur'[d].point]
              Bit(d) == ~IsAo[cur'[d].point] => cur'[d].value \in {0, 1}
  <2>1. \A d \in Channel : d # c => Own(d) /\ Bit(d)
    BY <1>t, <1>1, OwnStep DEF OwnPoint, DoIsBit
  <2>2. Own(c) /\ Bit(c) /\ \A p \in Point : ~IsAo[p] => target'[p] \in {0, 1}
    <3>. USE <1>t DEF OwnPoint, DoIsBit, Writing
    <3>1. CASE Scan(c)
      <4>1. PICK p \in todo[c] :
              /\ todo' = [todo EXCEPT ![c] = @ \ {p}]
              /\ IF sent[p] = Current(p)
                 THEN UNCHANGED <<pc, cur>>
                 ELSE Goto(c, "send") /\ cur' = [cur EXCEPT ![c] = [point |-> p, value |-> Current(p)]]
        BY <3>1 DEF Scan
      <4>2. pc[c] = "scan" /\ target' = target /\ p \in Mapped(c) /\ p \in Point
        BY <3>1 DEF Scan
      <4>3. ~IsAo[p] => Current(p) \in {0, 1}
        BY <4>2, CurrentTyped DEF IInv
      <4>4. CASE sent[p] = Current(p)
        BY <4>1, <4>2, <4>4
      <4>5. CASE sent[p] # Current(p)
        <5>1. /\ pc'[c] = "send" /\ cur'[c] = [point |-> p, value |-> Current(p)]
              /\ todo'[c] \subseteq Mapped(c)
          BY <4>1, <4>5
        <5>. QED  BY <4>2, <4>3, <5>1
      <4>. QED  BY <4>4, <4>5
    <3>2. CASE Connect(c) \/ EndScan(c) \/ NextScan(c)
      BY <3>2 DEF Connect, EndScan, NextScan
    <3>3. CASE \E r \in Results : Send(c, r)
      <4>1. pc[c] = "send" /\ UNCHANGED <<target, cur, todo>>
        BY <3>3 DEF Send
      <4>2. \E l \in {"record", "down", "scan"} : pc' = [pc EXCEPT ![c] = l]
        BY <3>3 DEF Send
      <4>. QED  BY <4>1, <4>2
    <3>4. CASE \E r \in Results : SendPulse(c, r)
      <4>1. UNCHANGED <<target, cur, todo>>
        BY <3>4 DEF SendPulse
      <4>2. UNCHANGED pc \/ pc' = [pc EXCEPT ![c] = "down"]
        BY <3>4 DEF SendPulse
      <4>. QED  BY <4>1, <4>2
    <3>5. CASE Record(c)
      BY <3>5 DEF Record
    <3>6. CASE Reset(c) \/ ResetSent(c)
      BY <3>6 DEF Reset, ResetSent
    <3>7. CASE Schedule(c) \/ LeavePulses(c) \/ PollFails(c) \/ EndThread(c)
      BY <3>7 DEF Schedule, LeavePulses, PollFails, EndThread
    <3>8. CASE EnterPulses(c) \/ SkipPulse(c)
      BY <3>8 DEF EnterPulses, SkipPulse, threads
    <3>. QED
      BY <1>1, <3>1, <3>2, <3>3, <3>4, <3>5, <3>6, <3>7, <3>8 DEF ThreadStep
  <2>3. \A d \in Channel : Own(d) /\ Bit(d)
    BY <2>1, <2>2
  <2>. QED  BY <2>2, <2>3 DEF OwnPoint, DoIsBit, Mapped
<1>2. ASSUME NEW p \in Point, NEW v \in Value, Command(p, v)
      PROVE  (OwnPoint /\ DoIsBit)'
  <2>1. v \in Commanded[p] /\ (~IsAo[p] => v \in {0, 1})
    BY <1>2, MappingAssumption DEF Command
  <2>2. target' = [target EXCEPT ![p] = v] /\ UNCHANGED <<pc, cur, todo>>
    BY <1>2 DEF Command, threads
  <2>. QED  BY <1>t, <2>1, <2>2 DEF OwnPoint, DoIsBit, Mapped
<1>3. CASE Restart
  BY <1>t, <1>3 DEF Restart, OwnPoint, DoIsBit, Mapped, Writing
<1>4. CASE PulseDue \/ Stop \/ UNCHANGED vars
  BY <1>t, <1>4 DEF PulseDue, Stop, vars, threads, OwnPoint, DoIsBit, Mapped
<1>. QED
  BY <1>1, <1>2, <1>3, <1>4 DEF Next

\* A connected channel leaves no point without an entry.
LEMMA FilledStep ==
  ASSUME IInv, [Next]_vars
  PROVE  Filled'
<1>. USE DEF Filled, Goto
<1>t. /\ pc \in [Channel -> PC] /\ cur \in [Channel -> [point : Point, value : Value]]
      /\ sent \in [Point -> Value \cup {Unset}] /\ target \in [Point -> Value]
      /\ Filled /\ OwnPoint /\ TypeOK /\ DoIsBit
  BY DEF IInv, TypeOK, PointTypes, ThreadTypes
<1>1. ASSUME NEW c \in Channel, ThreadStep(c)
      PROVE  Filled'
  <2>1. ASSUME NEW d \in Channel, d # c, NEW p \in Mapped(d), pc'[d] \notin {"down", "ended"}
        PROVE  sent'[p] # Unset
    <3>1. p \in Point /\ p \notin Mapped(c) /\ pc'[d] = pc[d]
      BY <1>1, <2>1, OwnStep DEF Mapped
    <3>. QED  BY <1>t, <1>1, <2>1, <3>1, OwnStep
  <2>2. ASSUME NEW p \in Mapped(c), pc'[c] \notin {"down", "ended"}
        PROVE  sent'[p] # Unset
    <3>0. p \in Point
      BY DEF Mapped
    <3>1. CASE Connect(c)
      <4>1. Current(p) # Unset
        BY <1>t, <3>0, CurrentTyped, ValueFacts
      <4>. QED  BY <3>0, <3>1, <4>1 DEF Connect
    <3>2. CASE Record(c) \/ ResetSent(c)
      <4>1. \E v \in Value : sent' = [sent EXCEPT ![cur[c].point] = v]
        BY <1>t, <3>2, ValueFacts DEF Record, ResetSent
      <4>2. pc[c] \notin {"down", "ended"}
        BY <3>2 DEF Record, ResetSent
      <4>. QED  BY <1>t, <3>0, <4>1, <4>2, ValueFacts
    <3>3. ASSUME UNCHANGED sent, pc[c] \notin {"down", "ended"}
          PROVE  sent'[p] # Unset
      BY <1>t, <3>3
    <3>4. CASE \E r \in Results : Send(c, r) \/ SendPulse(c, r)
      BY <3>3, <3>4 DEF Send, SendPulse, InQueue
    <3>5. CASE Scan(c) \/ EndScan(c) \/ Reset(c) \/ Schedule(c) \/ NextScan(c)
      BY <3>3, <3>5 DEF Scan, EndScan, Reset, Schedule, NextScan
    <3>6. CASE EnterPulses(c) \/ SkipPulse(c) \/ LeavePulses(c)
      BY <3>3, <3>6 DEF EnterPulses, SkipPulse, LeavePulses, InQueue
    <3>7. CASE PollFails(c) \/ EndThread(c)
      BY <1>t, <2>2, <3>7 DEF PollFails, EndThread
    <3>. QED
      BY <1>1, <3>1, <3>2, <3>4, <3>5, <3>6, <3>7 DEF ThreadStep
  <2>. QED  BY <2>1, <2>2 DEF Mapped
<1>2. CASE Restart
  BY <1>t, <1>2 DEF Restart
<1>3. CASE PulseDue \/ Stop \/ UNCHANGED vars
  BY <1>t, <1>3 DEF PulseDue, Stop, vars, threads, Mapped
<1>4. ASSUME NEW p \in Point, NEW v \in Value, Command(p, v)
      PROVE  Filled'
  BY <1>t, <1>4 DEF Command, threads, Mapped
<1>. QED
  BY <1>1, <1>2, <1>3, <1>4 DEF Next

-----------------------------------------------------------------------------
(* The steps: no write is made twice *)

\* What is owed to a point is one write in hand and one more, at most.
LEMMA OwedBounds ==
  ASSUME NEW p \in Point
  PROVE  Owed(p) \in 0 .. 2 /\ Owed(p)' \in 0 .. 2
BY DEF Owed, Differs

\* A step of the thread that writes p: a confirmed write was owed, and no other
\* step adds to what is owed.
LEMMA OwnCredit ==
  ASSUME IInv, NEW c \in Channel, ThreadStep(c), NEW p \in Mapped(c), ~Invert[p]
  PROVE  confirmed'[p] + Owed(p)' <= asked'[p]
<1>t. /\ pc \in [Channel -> PC] /\ cur \in [Channel -> [point : Point, value : Value]]
      /\ todo \in [Channel -> SUBSET Point] /\ target \in [Point -> Value]
      /\ sent \in [Point -> Value \cup {Unset}]
      /\ confirmed \in [Point -> 0 .. MaxCommands + 1] /\ asked \in [Point -> 0 .. MaxCommands]
      /\ OwnPoint /\ DoIsBit /\ Filled
  BY DEF IInv, TypeOK, PointTypes, ThreadTypes
<1>p. p \in Point /\ ChannelOf[p] = c
  BY DEF Mapped
<1>0. /\ confirmed[p] \in Nat /\ asked[p] \in Nat /\ asked'[p] = asked[p]
      /\ Owed(p) \in 0 .. 2 /\ Owed(p)' \in 0 .. 2
      /\ confirmed[p] + Owed(p) <= asked[p]
  <2>1. asked' = asked /\ confirmed[p] + Owed(p) <= asked[p]
    BY <1>p, OwnStep DEF IInv, Credit
  <2>2. confirmed[p] \in Nat /\ asked[p] \in Nat
    BY <1>t, <1>p, LimitAssumption
  <2>. QED  BY <1>p, <2>1, <2>2, OwedBounds
<1>k. SUFFICES \/ confirmed'[p] = confirmed[p] /\ Owed(p)' <= Owed(p)
               \/ confirmed'[p] = confirmed[p] + 1 /\ Owed(p)' < Owed(p)
  BY <1>0
<1>v. Current(p) = target[p] /\ Current(p)' = target'[p] /\ target[p] # Unset
  BY <1>t, <1>p, ValueFacts DEF Current
<1>. USE <1>t, <1>p, <1>v DEF Goto, Differs, Owed, OwnPoint, Writing
<1>1. CASE Connect(c)
  <2>1. Owed(p) = IF sent[p] = Unset \/ sent[p] = target[p] THEN 0 ELSE 1
    BY <1>1 DEF Connect
  <2>2. Owed(p)' = Differs(p, sent[p])' /\ target'[p] = target[p]
    BY <1>1 DEF Connect
  <2>3. sent'[p] = IF sent[p] = Unset THEN target[p] ELSE sent[p]
    BY <1>1 DEF Connect
  <2>. QED  BY <1>1, <2>1, <2>2, <2>3 DEF Connect, history
<1>2. CASE Scan(c)
  <2>1. PICK q \in todo[c] :
          IF sent[q] = Current(q)
          THEN UNCHANGED <<pc, cur>>
          ELSE Goto(c, "send") /\ cur' = [cur EXCEPT ![c] = [point |-> q, value |-> Current(q)]]
    BY <1>2 DEF Scan
  <2>2. pc[c] = "scan" /\ UNCHANGED <<target, sent, confirmed>>
    BY <1>2 DEF Scan, history
  <2>3. sent[p] # Unset
    BY <2>2 DEF Filled
  <2>4. CASE sent[q] = Current(q)
    BY <2>1, <2>2, <2>4
  <2>5. CASE sent[q] # Current(q) /\ q # p
    BY <2>1, <2>2, <2>5
  <2>6. CASE sent[q] # Current(q) /\ q = p
    <3>1. pc'[c] = "send" /\ cur'[c] = [point |-> p, value |-> target[p]]
      BY <2>1, <2>6
    <3>2. Owed(p) = 1 /\ Owed(p)' = 1
      BY <2>2, <2>3, <2>6, <3>1
    <3>. QED  BY <2>2, <3>2
  <2>. QED  BY <2>4, <2>5, <2>6
<1>3. ASSUME NEW r \in Results, Send(c, r)
      PROVE  \/ confirmed'[p] = confirmed[p] /\ Owed(p)' <= Owed(p)
             \/ confirmed'[p] = confirmed[p] + 1 /\ Owed(p)' < Owed(p)
  <2>1. pc[c] = "send" /\ UNCHANGED <<target, sent, cur>>
    BY <1>3 DEF Send
  <2>2. pc'[c] = CASE r = "ok" -> "record" [] r = "error" -> "down" [] OTHER -> "scan"
    BY <1>3 DEF Send
  <2>3. confirmed' = [confirmed EXCEPT ![cur[c].point] =
                        IF r = "ok" /\ @ <= MaxCommands THEN @ + 1 ELSE @]
    BY <1>3 DEF Send
  <2>4. CASE cur[c].point # p
    BY <2>1, <2>2, <2>3, <2>4
  <2>5. CASE cur[c].point = p /\ r = "ok"
    <3>1. Owed(p)' = Owed(p) - 1
      BY <2>1, <2>2, <2>5
    <3>2. confirmed'[p] \in {confirmed[p], confirmed[p] + 1}
      BY <2>3, <2>5
    <3>. QED  BY <1>0, <3>1, <3>2
  <2>6. CASE cur[c].point = p /\ r # "ok"
    <3>1. Owed(p) >= 1
      BY <2>1, <2>6
    <3>2. Owed(p)' \in {0, 1}
      BY <2>1, <2>2, <2>6
    <3>3. confirmed'[p] = confirmed[p]
      BY <2>3, <2>6
    <3>. QED  BY <1>0, <3>1, <3>2, <3>3
  <2>. QED  BY <2>4, <2>5, <2>6
<1>4. CASE Record(c)
  <2>1. /\ pc[c] = "record" /\ UNCHANGED <<target, cur, confirmed>>
        /\ sent' = [sent EXCEPT ![cur[c].point] = cur[c].value]
        /\ pc'[c] = IF ~IsAo[cur[c].point] /\ cur[c].value = 1 THEN "reset" ELSE "schedule"
    BY <1>4 DEF Record, history
  <2>2. CASE cur[c].point # p
    BY <2>1, <2>2
  <2>3. CASE cur[c].point = p
    BY <2>1, <2>3, ValueFacts
  <2>. QED  BY <2>2, <2>3
<1>5. CASE Reset(c)
  <2>1. /\ pc[c] = "reset" /\ pc'[c] = "resetSent" /\ UNCHANGED <<sent, cur, confirmed>>
        /\ target' = [target EXCEPT ![cur[c].point] = 0]
    BY <1>5 DEF Reset, history
  <2>2. CASE cur[c].point # p
    BY <2>1, <2>2
  <2>3. CASE cur[c].point = p
    BY <2>1, <2>3, ValueFacts
  <2>. QED  BY <2>2, <2>3
<1>6. CASE ResetSent(c)
  <2>1. /\ pc[c] = "resetSent" /\ pc'[c] = "schedule" /\ UNCHANGED <<target, cur, confirmed>>
        /\ sent' = [sent EXCEPT ![cur[c].point] = 0]
    BY <1>6 DEF ResetSent, history
  <2>2. CASE cur[c].point # p
    BY <2>1, <2>2
  <2>3. CASE cur[c].point = p
    BY <2>1, <2>3, ValueFacts
  <2>. QED  BY <2>2, <2>3
<1>7. ASSUME /\ UNCHANGED <<target, sent, cur, confirmed>>
             /\ pc[c] \notin Writing \ {"schedule"} /\ pc'[c] \notin Writing \ {"schedule"}
      PROVE  confirmed'[p] = confirmed[p] /\ Owed(p)' <= Owed(p)
  BY <1>7
<1>8. CASE EndScan(c) \/ Schedule(c) \/ NextScan(c) \/ PollFails(c) \/ EndThread(c)
  BY <1>7, <1>8 DEF EndScan, Schedule, NextScan, PollFails, EndThread, history
<1>9. CASE EnterPulses(c) \/ SkipPulse(c) \/ LeavePulses(c)
  BY <1>7, <1>9 DEF EnterPulses, SkipPulse, LeavePulses, InQueue, threads, history
<1>10. CASE \E r \in Results : SendPulse(c, r)
  <2>1. pc[c] = "pulse" /\ UNCHANGED <<target, sent, cur, confirmed>>
    BY <1>10 DEF SendPulse, InQueue, history
  <2>2. UNCHANGED pc \/ pc' = [pc EXCEPT ![c] = "down"]
    BY <1>10 DEF SendPulse
  <2>. QED  BY <1>7, <2>1, <2>2
<1>. QED
  BY <1>1, <1>2, <1>3, <1>4, <1>5, <1>6, <1>8, <1>9, <1>10 DEF ThreadStep

\* Only a command adds to what may be written, and only by one.
LEMMA CreditStep ==
  ASSUME IInv, [Next]_vars
  PROVE  Credit'
<1>. USE DEF Credit
<1>t. /\ pc \in [Channel -> PC] /\ cur \in [Channel -> [point : Point, value : Value]]
      /\ target \in [Point -> Value] /\ sent \in [Point -> Value \cup {Unset}]
      /\ confirmed \in [Point -> 0 .. MaxCommands + 1] /\ asked \in [Point -> 0 .. MaxCommands]
      /\ Credit
  BY DEF IInv, TypeOK, PointTypes, ThreadTypes
<1>1. ASSUME NEW c \in Channel, ThreadStep(c), NEW p \in Point, ~Invert[p]
      PROVE  confirmed'[p] + Owed(p)' <= asked'[p]
  <2>1. CASE p \in Mapped(c)
    BY <1>1, <2>1, OwnCredit
  <2>2. CASE p \notin Mapped(c)
    <3>1. ChannelOf[p] \in Channel /\ ChannelOf[p] # c
      BY <2>2, MappingAssumption DEF Mapped
    <3>2. /\ pc'[ChannelOf[p]] = pc[ChannelOf[p]] /\ cur'[ChannelOf[p]] = cur[ChannelOf[p]]
          /\ target'[p] = target[p] /\ sent'[p] = sent[p] /\ confirmed'[p] = confirmed[p]
          /\ asked' = asked
      BY <1>1, <2>2, <3>1, OwnStep
    <3>3. Owed(p)' = Owed(p)
      BY <3>2 DEF Owed, Differs, Current
    <3>. QED  BY <1>1, <1>t, <3>2, <3>3
  <2>. QED  BY <2>1, <2>2
<1>2. ASSUME NEW q \in Point, NEW v \in Value, Command(q, v), NEW p \in Point, ~Invert[p]
      PROVE  confirmed'[p] + Owed(p)' <= asked'[p]
  <2>1. /\ target' = [target EXCEPT ![q] = v] /\ asked' = [asked EXCEPT ![q] = @ + 1]
        /\ UNCHANGED <<sent, pc, cur, confirmed>>
    BY <1>2 DEF Command, threads
  <2>2. CASE p # q
    <3>1. Owed(p)' = Owed(p)
      BY <1>t, <2>1, <2>2 DEF Owed, Differs, Current
    <3>. QED  BY <1>2, <1>t, <2>1, <2>2, <3>1
  <2>3. CASE p = q
    <3>1. Owed(p)' <= Owed(p) + 1
      BY <1>t, <2>1, <2>3 DEF Owed, Differs, Current
    <3>2. confirmed[p] \in Nat /\ asked[p] \in Nat /\ confirmed[p] + Owed(p) <= asked[p]
      BY <1>2, <1>t, LimitAssumption
    <3>3. asked'[p] = asked[p] + 1 /\ confirmed'[p] = confirmed[p]
      BY <1>t, <2>1, <2>3
    <3>. QED  BY <3>1, <3>2, <3>3, OwedBounds
  <2>. QED  BY <2>2, <2>3
<1>3. ASSUME Restart, NEW p \in Point, ~Invert[p]
      PROVE  confirmed'[p] + Owed(p)' <= asked'[p]
  <2>1. pc'[ChannelOf[p]] = "down" /\ sent'[p] = Unset
    BY <1>3, MappingAssumption DEF Restart
  <2>2. Owed(p)' = 0
    BY <2>1 DEF Owed, Differs
  <2>3. UNCHANGED <<confirmed, asked>>
    BY <1>3 DEF Restart, history
  <2>4. confirmed[p] \in Nat /\ asked[p] \in Nat /\ confirmed[p] + Owed(p) <= asked[p]
    BY <1>3, <1>t, LimitAssumption
  <2>. QED  BY <2>2, <2>3, <2>4, OwedBounds
<1>4. ASSUME PulseDue \/ Stop \/ UNCHANGED vars, NEW p \in Point, ~Invert[p]
      PROVE  confirmed'[p] + Owed(p)' <= asked'[p]
  <2>1. UNCHANGED <<target, sent, pc, cur, history>>
    BY <1>4 DEF PulseDue, Stop, vars, threads
  <2>. QED  BY <1>4, <1>t, <2>1 DEF Owed, Differs, Current, history
<1>. QED
  BY <1>1, <1>2, <1>3, <1>4 DEF Next

-----------------------------------------------------------------------------
(* The theorems *)

\* The inductive invariant holds in every reachable state.
THEOREM Invariance == Spec => []IInv
<1>1. Init => IInv
  BY InitIInv
<1>2. IInv /\ [Next]_vars => IInv'
  BY PointStep, ThreadTypesStep, PulseStep, OwnPointStep, FilledStep, CreditStep
     DEF IInv, TypeOK
<1>. QED  BY <1>1, <1>2, PTL DEF Spec

\* The tables, registers, queue entries and the writes in hand keep their
\* types (doSent_, aoSent_, pulseQueue_): a DO is only ever written on or off
\* and ProcessPulseQueue only removes entries that are in its list.
THEOREM TypeCorrect == Spec => []TypeOK
BY Invariance, PTL DEF IInv

\* A device confirms no more writes of a point than it was commanded, over
\* retries, lost connections, pulses of other channels and reloads: for every
\* mapping without inverted points.
THEOREM NoRepeatCorrect ==
  ASSUME \A p \in Point : ~Invert[p]
  PROVE  Spec => []NoRepeat
<1>1. IInv => NoRepeat
  <2>. SUFFICES ASSUME IInv, NEW p \in Point
                PROVE  confirmed[p] <= asked[p]
    BY DEF NoRepeat
  <2>1. confirmed[p] \in Nat /\ asked[p] \in Nat /\ confirmed[p] + Owed(p) <= asked[p]
    BY LimitAssumption DEF IInv, TypeOK, PointTypes, Credit
  <2>. QED  BY <2>1, OwedBounds
<1>. QED  BY <1>1, Invariance, PTL
=============================================================================
