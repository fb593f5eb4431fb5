---------------------------- MODULE MasterProofs ----------------------------
(* Safety of SerialMaster for every set of requests, of foreign stations     *)
(* among them, and every bound: no value is shown as that of another meter   *)
(* or block, and an ON is taken back only once a station has executed it.    *)
(* And of ModbusRegisters, for every configuration that is Readable: after a *)
(* poll the master has for every point a value that the slave had.           *)
EXTENDS SerialMaster, ModbusRegisters, FiniteSetTheorems, SequenceTheorems,
        WellFoundedInduction, TLAPS

-----------------------------------------------------------------------------
(* What is on the line.                                                     *)

(* Nothing was left, so an exchange begins on an empty line.                *)
LineClean == ~shifted => line = <<>>

(* The frame that request r reads on an empty line is the answer to it, or  *)
(* none; and one with values comes only from a station that has executed it.*)
LEMMA OwnAnswer ==
  ASSUME line = <<>>, NEW r, NEW outcome \in Outcomes,
         NEW arrived \in Arrived(r, outcome), NEW reading \in SendAndReceive(arrived)
  PROVE  \/ reading.frame = NoAnswer
         \/ /\ outcome \in {"ok", "refused"} /\ reading.frame.of = r
            /\ outcome = "refused" => reading.frame.values = 0
<1>1. CASE outcome \notin {"ok", "refused"}
  <2>1. arrived = <<>>
    BY <1>1 DEF Arrived
  <2>2. Len(arrived) = 0
    BY <2>1
  <2>3. reading \in Readings(arrived)
    <3>1. RtuSendAndReceive(arrived) = {}
      BY <2>2 DEF RtuSendAndReceive
    <3>2. Iec103SendAndRecv(arrived) = {}
      BY <2>2 DEF Iec103SendAndRecv
    <3>3. EndMarkInside(arrived) = {}
      BY <2>1 DEF EndMarkInside
    <3>. QED  BY <3>1, <3>2, <3>3 DEF SendAndReceive
  <2>. QED  BY <2>1, <2>3 DEF Readings
<1>2. CASE outcome \in {"ok", "refused"}
  <2>1. PICK a \in Answer(r, outcome) : arrived = line \o a
    BY <1>2 DEF Arrived
  <2>2. /\ a # <<>> /\ Head(a).of = r /\ arrived = a
        /\ outcome = "refused" => Head(a).values = 0
    <3>1. /\ a \in {<<Frame(r, 0)>>, <<Frame(r, 0)>> \o SendGIRsp(r), <<Frame(r, 0), Frame(r, 2)>>,
                    <<Frame(r, 2)>>, <<Frame(r, 1)>>}
          /\ outcome = "refused" => a = <<Frame(r, 0)>>
      BY <2>1 DEF Answer, HandleFrame
    <3>2. <<Frame(r, 0)>> \o SendGIRsp(r) # <<>> /\ Head(<<Frame(r, 0)>> \o SendGIRsp(r)) = Frame(r, 0)
      <4>. DEFINE S == {Frame(r, 0), Frame(r, 1)}
                  s == <<Frame(r, 0)>>
                  q == SendGIRsp(r)
      <4>1. s \in Seq(S) /\ q \in Seq(S) /\ Len(s) = 1 /\ Len(q) = 2 /\ s[1] = Frame(r, 0)
        BY DEF SendGIRsp
      <4>. HIDE DEF S, s, q
      <4>2. s \o q \in Seq(S) /\ Len(s \o q) = 3 /\ (s \o q)[1] = Frame(r, 0)
        <5>1. /\ s \o q \in Seq(S) /\ Len(s \o q) = Len(s) + Len(q)
              /\ \A i \in 1 .. Len(s) + Len(q) :
                   (s \o q)[i] = IF i <= Len(s) THEN s[i] ELSE q[i - Len(s)]
          BY <4>1, ConcatProperties
        <5>. QED  BY <4>1, <5>1
      <4>3. s \o q # <<>> /\ Head(s \o q) = Frame(r, 0)
        BY <4>2
      <4>. QED  BY <4>3 DEF s, q
    <3>3. Frame(r, 0).of = r /\ Frame(r, 1).of = r /\ Frame(r, 2).of = r /\ Frame(r, 0).values = 0
      BY DEF Frame
    <3>4. /\ a # <<>> /\ Head(a) \in {Frame(r, 0), Frame(r, 1), Frame(r, 2)}
          /\ outcome = "refused" => Head(a) = Frame(r, 0)
      BY <3>1, <3>2
    <3>5. <<>> \o a = a
      <4>1. a \in Seq({Frame(r, 0), Frame(r, 1), Frame(r, 2)})
        <5>. DEFINE S == {Frame(r, 0), Frame(r, 1), Frame(r, 2)}
        <5>1. <<Frame(r, 0)>> \in Seq(S) /\ SendGIRsp(r) \in Seq(S)
          BY DEF SendGIRsp
        <5>2. <<Frame(r, 0)>> \o SendGIRsp(r) \in Seq(S)
          BY <5>1, ConcatProperties
        <5>3. /\ <<Frame(r, 0), Frame(r, 2)>> \in Seq(S) /\ <<Frame(r, 2)>> \in Seq(S)
              /\ <<Frame(r, 1)>> \in Seq(S)
          OBVIOUS
        <5>. QED  BY <3>1, <5>1, <5>2, <5>3
      <4>. QED  BY <4>1, ConcatEmptySeq
    <3>. QED  BY <2>1, <3>3, <3>4, <3>5
  <2>3. reading.frame \in {NoAnswer, Head(a)}
    <3>1. CASE reading \in Readings(arrived)
      BY <2>2, <3>1 DEF Readings
    <3>2. CASE reading \in RtuSendAndReceive(arrived)
      BY <3>2 DEF RtuSendAndReceive
    <3>3. CASE reading \in Iec103SendAndRecv(arrived)
      BY <2>2, <3>3 DEF Iec103SendAndRecv
    <3>4. CASE reading \in EndMarkInside(arrived)
      BY <3>4 DEF EndMarkInside
    <3>. QED  BY <3>1, <3>2, <3>3, <3>4 DEF SendAndReceive
  <2>. QED  BY <1>2, <2>2, <2>3
<1>. QED  BY <1>1, <1>2

(* Nobody takes no answer for one.                                          *)
LEMMA NoAnswerRefused ==
  ASSUME protocol \in {"rtu", "dlt645", "iec101", "iec103"}, NEW r
  PROVE  ~Accepted(r, NoAnswer)
<1>1. NoAnswer.of = None /\ NoAnswer.values = 0
  BY DEF NoAnswer, Frame
<1>2. SendRecvVarFrame(NoAnswer).values = 0
  BY <1>1 DEF SendRecvVarFrame, NoAnswer, Frame
<1>3. ~HandleGIResponse(NoAnswer) /\ ~Iec103PollDevice(NoAnswer) /\ ~(NoAnswer.values > 0)
  BY <1>1, <1>2 DEF HandleGIResponse, Iec103PollDevice
<1>4. CASE protocol = "rtu"
  BY <1>3, <1>4 DEF Accepted
<1>5. CASE protocol = "dlt645"
  BY <1>3, <1>5 DEF Accepted
<1>6. CASE protocol = "iec101"
  BY <1>3, <1>6 DEF Accepted
<1>7. CASE protocol = "iec103"
  BY <1>3, <1>7 DEF Accepted
<1>. QED  BY <1>4, <1>5, <1>6, <1>7

-----------------------------------------------------------------------------
(* Attribution.                                                             *)

AttributionInv ==
  /\ protocol \in {"rtu", "dlt645", "iec101", "iec103"} /\ DOMAIN stored = Reads
  /\ LineClean /\ Attribution

(* An exchange on an empty line: what is left is told by shifted.           *)
LEMMA ExchangeStep ==
  ASSUME LineClean, NEW r, NEW outcome, NEW reading, Exchange(r, outcome, reading)
  PROVE  LineClean' /\ (~shifted' => ~shifted /\ line = <<>>)
BY DEF LineClean, Exchange

(* A read accepts only the answer to its own request, or says that frames   *)
(* had been left.                                                           *)
LEMMA ReadStep ==
  ASSUME AttributionInv, NEW outcome \in Outcomes, Answered(outcome)
  PROVE  AttributionInv'
<1>. DEFINE r == Plan[next]
<1>1. protocol' = protocol
  BY DEF Answered, port
<1>2. PICK arrived \in Arrived(r, outcome) : \E reading \in SendAndReceive(arrived) :
        /\ Exchange(r, outcome, reading)
        /\ PollDevice(r, outcome, reading) \/ WriteDOChanges(r, outcome, reading)
  BY DEF Answered
<1>3. PICK reading \in SendAndReceive(arrived) :
        /\ Exchange(r, outcome, reading)
        /\ PollDevice(r, outcome, reading) \/ WriteDOChanges(r, outcome, reading)
  BY <1>2
<1>. HIDE DEF r
<1>4. LineClean' /\ (~shifted' => ~shifted /\ line = <<>>)
  BY <1>3, ExchangeStep DEF AttributionInv
<1>5. CASE PollDevice(r, outcome, reading)
  <2>1. ASSUME NEW m \in Reads
        PROVE  stored'[m] \in {None, m} \/ (protocol' # "dlt645" /\ shifted')
    <3>0. stored[m] \in {None, m} \/ (protocol # "dlt645" /\ shifted)
      BY DEF AttributionInv, Attribution
    <3>1. CASE stored'[m] = stored[m]
      BY <3>0, <3>1, <1>1, <1>4
    <3>2. CASE stored'[m] # stored[m]
      <4>1. Accepted(r, reading.frame) /\ m = r /\ stored'[m] = reading.frame.of
        BY <1>5, <3>2 DEF PollDevice, AttributionInv
      <4>2. CASE protocol = "dlt645"
        BY <4>1, <4>2 DEF Accepted
      <4>3. CASE protocol # "dlt645" /\ ~shifted'
        <5>1. reading.frame = NoAnswer \/ reading.frame.of = r
          BY <1>4, <4>3, OwnAnswer
        <5>2. reading.frame # NoAnswer
          BY <4>1, NoAnswerRefused DEF AttributionInv
        <5>. QED  BY <4>1, <5>1, <5>2
      <4>. QED  BY <1>1, <4>2, <4>3
    <3>. QED  BY <3>1, <3>2
  <2>2. DOMAIN stored' = Reads
    BY <1>5 DEF PollDevice, AttributionInv
  <2>. QED  BY <1>1, <1>4, <2>1, <2>2 DEF AttributionInv, Attribution
<1>6. CASE WriteDOChanges(r, outcome, reading)
  <2>1. stored' = stored
    BY <1>6 DEF WriteDOChanges
  <2>. QED  BY <1>1, <1>4, <2>1 DEF AttributionInv, Attribution
<1>. QED  BY <1>3, <1>5, <1>6

(* No value of one meter or block is shown as another's: DL/T 645 compares  *)
(* the station and the item of an answer with those it has asked for, and   *)
(* the others, which compare nothing, read an answer to another request only*)
(* after frames had been left on the line.                                  *)
THEOREM AttributionCorrect ==
  ASSUME Protocols \subseteq {"rtu", "dlt645", "iec101", "iec103"}
  PROVE  SerialSpec => []Attribution
<1>1. SerialInit => AttributionInv
  BY DEF SerialInit, AttributionInv, LineClean, Attribution
<1>2. AttributionInv /\ [SerialNext]_serialVars => AttributionInv'
  <2>. SUFFICES ASSUME AttributionInv, [SerialNext]_serialVars  PROVE AttributionInv'
    OBVIOUS
  <2>1. ASSUME protocol' = protocol, stored' = stored, shifted' = shifted,
               line' = line \/ line' = <<>>
        PROVE  AttributionInv'
    BY <2>1 DEF AttributionInv, LineClean, Attribution
  <2>2. CASE \/ Open \/ Ask \/ PassOver \/ Broken \/ TakeBack \/ PassEnds \/ PortFails
             \/ PortComesBack \/ StopPort \/ StartPort \/ UNCHANGED serialVars
             \/ \E d \in Coils, v \in BOOLEAN : SetDoMaster(d, v)
    BY <2>1, <2>2 DEF Open, Ask, PassOver, Broken, TakeBack, PassEnds, PortFails, PortComesBack,
       StopPort, StartPort, SetDoMaster, serialVars, port
  <2>3. ASSUME NEW o \in Outcomes, Answered(o)
        PROVE  AttributionInv'
    BY <2>3, ReadStep
  <2>4. ASSUME NEW p \in pulses, NEW o \in Outcomes, ProcessPulseQueue(p, o)
        PROVE  AttributionInv'
    <3>1. protocol' = protocol /\ stored' = stored
      BY <2>4 DEF ProcessPulseQueue, port
    <3>2. CASE io # "open"
      BY <2>1, <2>4, <3>1, <3>2 DEF ProcessPulseQueue
    <3>3. CASE io = "open"
      <4>1. PICK reading : Exchange(p.coil, o, reading)
        BY <2>4, <3>3 DEF ProcessPulseQueue
      <4>2. LineClean' /\ (~shifted' => ~shifted)
        BY <4>1, ExchangeStep DEF AttributionInv
      <4>. QED  BY <3>1, <4>2 DEF AttributionInv, Attribution
    <3>. QED  BY <3>2, <3>3
  <2>. QED  BY <2>2, <2>3, <2>4 DEF SerialNext, PortThread
<1>3. AttributionInv => Attribution
  BY DEF AttributionInv
<1>. QED  BY <1>1, <1>2, <1>3, PTL DEF SerialSpec

-----------------------------------------------------------------------------
(* An ON is taken back once it has been executed.                           *)

(* The thread is at a request of its pass.                                  *)
AtRequest == place \in {"wait", "takeback"} => next \in 1 .. Len(Plan)

(* The ON whose confirmation has been read was executed.                    *)
TakesExecuted == place = "takeback" /\ ~shifted => ~owed[Plan[next]]

CoilTypes ==
  /\ protocol \in {"rtu", "dlt645", "iec101", "iec103"} /\ next \in Nat \ {0}
  /\ want \in [Coils -> BOOLEAN] /\ owed \in [Coils -> BOOLEAN] /\ held \in BOOLEAN

TakeBackInv == CoilTypes /\ LineClean /\ AtRequest /\ TakesExecuted /\ TakenBack

(* What a pass asks for: the reads, and with RTU the coils after them.      *)
LEMMA SetToSeqRange ==
  ASSUME NEW S, IsFiniteSet(S)
  PROVE  SetToSeq(S) \in Seq(S)
<1>1. Cardinality(S) \in Nat /\ ExistsBijection(1 .. Cardinality(S), S)
  BY FS_CardinalityType
<1>2. PICK f : f \in [1 .. Cardinality(S) -> S] /\ \A a, b \in 1 .. Cardinality(S) : f[a] = f[b] => a = b
  BY <1>1 DEF ExistsBijection, Bijection, Injection, IsInjective
<1>3. \E g \in [1 .. Cardinality(S) -> S] : IsInjective(g)
  BY <1>2 DEF IsInjective
<1>4. SetToSeq(S) \in [1 .. Cardinality(S) -> S]
  BY <1>3 DEF SetToSeq
<1>. QED  BY <1>1, <1>4, SeqDef

\* A pass asks for every read once, and with RTU writes every coil.
LEMMA PlanTyped ==
  ASSUME IsFiniteSet(Reads), IsFiniteSet(Coils)
  PROVE  /\ Len(Plan) \in Nat
         /\ \A i \in 1 .. Len(Plan) : Plan[i] \in Request
         /\ protocol # "rtu" => \A i \in 1 .. Len(Plan) : Plan[i] \in Reads
<1>1. SetToSeq(Reads) \in Seq(Reads) /\ SetToSeq(Coils) \in Seq(Coils)
  BY SetToSeqRange
<1>2. CASE protocol = "rtu"
  <2>1. SetToSeq(Reads) \in Seq(Request) /\ SetToSeq(Coils) \in Seq(Request)
    BY <1>1, SeqMonotonic DEF Request
  <2>2. Plan \in Seq(Request)
    BY <1>2, <2>1, ConcatProperties DEF Plan
  <2>. QED  BY <1>2, <2>2, LenProperties, ElementOfSeq
<1>3. CASE protocol # "rtu"
  <2>1. Plan = SetToSeq(Reads) \o <<>>
    BY <1>3 DEF Plan
  <2>2. Plan \in Seq(Reads)
    BY <1>1, <2>1, ConcatEmptySeq
  <2>. QED  BY <2>2, LenProperties, ElementOfSeq DEF Request
<1>. QED  BY <1>2, <1>3

(* A write that is confirmed on an empty line was executed.                 *)
LEMMA WriteStep ==
  ASSUME IsFiniteSet(Reads), IsFiniteSet(Coils), Reads \cap Coils = {},
         TakeBackInv, NEW outcome \in Outcomes, Answered(outcome)
  PROVE  TakeBackInv'
<1>. DEFINE r == Plan[next]
<1>1. protocol' = protocol /\ held' = held /\ place = "wait" /\ Plan' = Plan
  BY DEF Answered, port, Plan
<1>2. r \in Request /\ (protocol # "rtu" => r \in Reads) /\ next \in 1 .. Len(Plan) /\ Len(Plan) \in Nat
  BY <1>1, PlanTyped DEF TakeBackInv, AtRequest
<1>3. PICK arrived \in Arrived(r, outcome) : \E reading \in SendAndReceive(arrived) :
        /\ Exchange(r, outcome, reading)
        /\ PollDevice(r, outcome, reading) \/ WriteDOChanges(r, outcome, reading)
  BY DEF Answered
<1>4. PICK reading \in SendAndReceive(arrived) :
        /\ Exchange(r, outcome, reading)
        /\ PollDevice(r, outcome, reading) \/ WriteDOChanges(r, outcome, reading)
  BY <1>3
<1>5. LineClean' /\ (~shifted' => ~shifted /\ line = <<>>)
  BY <1>4, ExchangeStep DEF TakeBackInv
<1>6. CASE PollDevice(r, outcome, reading)
  <2>1. next' = next + 1 /\ place' = "loop" /\ want' = want /\ owed' = owed
    BY <1>6 DEF PollDevice, outputs
  <2>2. CoilTypes' /\ TakenBack'
    BY <1>1, <1>2, <1>5, <2>1 DEF TakeBackInv, CoilTypes, TakenBack
  <2>. QED  BY <1>5, <2>1, <2>2 DEF TakeBackInv, AtRequest, TakesExecuted
<1>7. CASE WriteDOChanges(r, outcome, reading)
  <2>1. protocol = "rtu" /\ r \in Coils /\ want' = want
    BY <1>2, <1>7 DEF WriteDOChanges
  <2>2. owed' = IF Executed(outcome) THEN [owed EXCEPT ![r] = @ /\ ~held] ELSE owed
    BY <1>7 DEF WriteDOChanges
  <2>3. owed' \in [Coils -> BOOLEAN] /\ \A d \in Coils : owed'[d] => owed[d]
    <3>1. (owed[r] /\ ~held) \in BOOLEAN
      OBVIOUS
    <3>. QED  BY <2>1, <2>2, <3>1 DEF TakeBackInv, CoilTypes
  <2>4. next' \in Nat \ {0} /\ (place' = "takeback" => next' = next) /\ place' \in {"takeback", "loop"}
    BY <1>2, <1>7 DEF WriteDOChanges, TakeBackInv, CoilTypes
  <2>5. CoilTypes'
    BY <1>1, <2>1, <2>3, <2>4 DEF TakeBackInv, CoilTypes
  <2>6. TakenBack'
    BY <1>5, <2>1, <2>3 DEF TakeBackInv, TakenBack
  <2>7. ASSUME place' = "takeback", ~shifted'
        PROVE  ~owed'[r]
    <3>1. Accepted(r, reading.frame) /\ held
      BY <1>7, <2>7 DEF WriteDOChanges
    <3>2. reading.frame # NoAnswer /\ reading.frame.values > 0
      BY <2>1, <3>1, NoAnswerRefused DEF Accepted, TakeBackInv, CoilTypes
    <3>3. outcome \in {"ok", "refused"} /\ (outcome = "refused" => reading.frame.values = 0)
      BY <1>5, <2>7, <3>2, OwnAnswer
    <3>4. outcome = "ok"
      BY <3>2, <3>3
    <3>. QED  BY <2>1, <2>2, <3>1, <3>4 DEF Executed, TakeBackInv, CoilTypes
  <2>8. TakesExecuted'
    BY <1>1, <2>4, <2>7 DEF TakesExecuted
  <2>9. AtRequest'
    BY <1>1, <1>2, <2>4 DEF AtRequest
  <2>. QED  BY <1>5, <2>5, <2>6, <2>8, <2>9 DEF TakeBackInv
<1>. QED  BY <1>4, <1>6, <1>7

\* Every step keeps TakeBackInv.
LEMMA TakeBackStep ==
  ASSUME IsFiniteSet(Reads), IsFiniteSet(Coils), Reads \cap Coils = {}, TakeBackInv, [SerialNext]_serialVars
  PROVE  TakeBackInv'
<1>t. CoilTypes /\ Len(Plan) \in Nat /\ \A i \in 1 .. Len(Plan) : Plan[i] \in Request
  BY PlanTyped DEF TakeBackInv
<1>p. protocol' = protocol => Plan' = Plan
  BY DEF Plan
(* A step that leaves the thread in its loop. *)
<1>1. ASSUME protocol' = protocol, place' \notin {"wait", "takeback"}, next' \in Nat \ {0},
             UNCHANGED <<want, owed, held>>, shifted => shifted', LineClean'
      PROVE  TakeBackInv'
  <2>1. CoilTypes'
    BY <1>t, <1>1 DEF CoilTypes
  <2>2. TakenBack'
    BY <1>1 DEF TakeBackInv, TakenBack
  <2>. QED  BY <1>1, <2>1, <2>2 DEF TakeBackInv, AtRequest, TakesExecuted
<1>2. CASE Open \/ PassOver \/ Broken \/ PassEnds \/ StopPort \/ StartPort
  <2>1. protocol' = protocol /\ place' \notin {"wait", "takeback"} /\ next' \in Nat \ {0}
    BY <1>t, <1>2 DEF Open, PassOver, Broken, PassEnds, StopPort, StartPort, port, CoilTypes
  <2>2. UNCHANGED <<want, owed, held, shifted>> /\ (line' = line \/ line' = <<>>)
    BY <1>2 DEF Open, PassOver, Broken, PassEnds, StopPort, StartPort, outputs
  <2>3. LineClean'
    BY <2>2 DEF TakeBackInv, LineClean
  <2>. QED  BY <1>1, <2>1, <2>2, <2>3
<1>3. ASSUME NEW p \in pulses, NEW o \in Outcomes, ProcessPulseQueue(p, o)
      PROVE  TakeBackInv'
  <2>1. UNCHANGED <<protocol, place, next, held, want, owed>> /\ place = "loop"
    BY <1>3 DEF ProcessPulseQueue, port, thread
  <2>2. LineClean' /\ (shifted => shifted')
    <3>1. CASE io # "open"
      BY <1>3, <3>1 DEF ProcessPulseQueue, TakeBackInv, LineClean
    <3>2. CASE io = "open"
      <4>1. PICK reading : Exchange(p.coil, o, reading)
        BY <1>3, <3>2 DEF ProcessPulseQueue
      <4>. QED  BY <4>1, ExchangeStep DEF TakeBackInv
    <3>. QED  BY <3>1, <3>2
  <2>. QED  BY <1>1, <1>t, <2>1, <2>2 DEF CoilTypes
<1>4. CASE Ask
  <2>1. UNCHANGED <<protocol, next, line, shifted, want, owed>> /\ place' = "wait" /\ next <= Len(Plan)
    BY <1>4 DEF Ask, port, outputs
  <2>2. held' \in BOOLEAN
    BY <1>t, <1>4 DEF Ask, CoilTypes
  <2>3. CoilTypes' /\ AtRequest'
    BY <1>t, <1>p, <2>1, <2>2 DEF CoilTypes, AtRequest
  <2>. QED  BY <2>1, <2>3 DEF TakeBackInv, LineClean, TakesExecuted, TakenBack
<1>5. CASE TakeBack
  <2>1. UNCHANGED <<protocol, held, line, shifted, owed>> /\ place = "takeback" /\ place' = "loop"
        /\ next' = next + 1 /\ want' = [want EXCEPT ![Plan[next]] = FALSE]
    BY <1>5 DEF TakeBack, port
  <2>2. CoilTypes'
    <3>1. want' \in [Coils -> BOOLEAN]
      BY <1>t, <2>1 DEF CoilTypes
    <3>2. next' \in Nat \ {0}
      BY <1>t, <2>1 DEF CoilTypes
    <3>. QED  BY <1>t, <2>1, <3>1, <3>2 DEF CoilTypes
  <2>3. TakenBack'
    <3>1. ~shifted => ~owed[Plan[next]]
      BY <2>1 DEF TakeBackInv, TakesExecuted
    <3>. QED  BY <1>t, <2>1, <3>1 DEF TakeBackInv, TakenBack, CoilTypes
  <2>. QED  BY <2>1, <2>2, <2>3 DEF TakeBackInv, LineClean, AtRequest, TakesExecuted
<1>6. ASSUME NEW d \in Coils, NEW v \in BOOLEAN, SetDoMaster(d, v)
      PROVE  TakeBackInv'
  <2>1. UNCHANGED <<protocol, place, next, held, line, shifted>> /\ want' = [want EXCEPT ![d] = v]
        /\ owed' = [owed EXCEPT ![d] = v /\ ~(place \in {"wait", "takeback"} /\ Plan[next] = d)]
    BY <1>6 DEF SetDoMaster, port, thread
  <2>2. want' \in [Coils -> BOOLEAN]
    BY <1>t, <2>1 DEF CoilTypes
  <2>3. owed' \in [Coils -> BOOLEAN]
    <3>1. (v /\ ~(place \in {"wait", "takeback"} /\ Plan[next] = d)) \in BOOLEAN
      OBVIOUS
    <3>. QED  BY <1>t, <2>1, <3>1 DEF CoilTypes
  <2>4. CoilTypes' /\ AtRequest'
    BY <1>t, <1>p, <2>1, <2>2, <2>3 DEF CoilTypes, TakeBackInv, AtRequest
  <2>5. \A e \in Coils \ {d} : want'[e] = want[e] /\ owed'[e] = owed[e]
    BY <1>t, <2>1 DEF CoilTypes
  <2>6. (owed'[d] => want'[d]) /\ (place = "takeback" /\ Plan[next] = d => ~owed'[d])
    <3>1. want'[d] = v /\ owed'[d] = (v /\ ~(place \in {"wait", "takeback"} /\ Plan[next] = d))
      BY <1>t, <2>1, Zenon DEF CoilTypes
    <3>. QED  BY <3>1, Zenon
  <2>7. TakenBack'
    BY <2>1, <2>5, <2>6 DEF TakeBackInv, TakenBack
  <2>8. TakesExecuted'
    <3>1. place = "takeback" /\ Plan[next] # d => owed'[Plan[next]] = owed[Plan[next]]
      BY <1>t, <2>1 DEF CoilTypes
    <3>. QED  BY <1>p, <2>1, <2>6, <3>1 DEF TakeBackInv, TakesExecuted
  <2>. QED  BY <2>1, <2>4, <2>7, <2>8 DEF TakeBackInv, LineClean
<1>7. CASE PortFails \/ PortComesBack \/ UNCHANGED serialVars
  <2>1. UNCHANGED <<protocol, place, next, held, line, shifted, want, owed>>
    BY <1>7 DEF PortFails, PortComesBack, serialVars, port, thread, outputs
  <2>2. CoilTypes' /\ AtRequest' /\ TakesExecuted'
    BY <1>t, <1>p, <2>1 DEF CoilTypes, TakeBackInv, AtRequest, TakesExecuted
  <2>. QED  BY <2>1, <2>2 DEF TakeBackInv, LineClean, TakenBack
<1>8. ASSUME NEW o \in Outcomes, Answered(o)
      PROVE  TakeBackInv'
  BY <1>8, WriteStep
<1>. HIDE DEF TakeBackInv
<1>. QED  BY <1>2, <1>3, <1>4, <1>5, <1>6, <1>7, <1>8 DEF SerialNext, PortThread

(* masterVal of an ON goes back to FALSE only after a station has executed  *)
(* the ON, as long as no frame was left on the line to be read in place of  *)
(* its confirmation (WriteDOChanges).                                       *)
THEOREM TakenBackCorrect ==
  ASSUME Protocols \subseteq {"rtu", "dlt645", "iec101", "iec103"},
         IsFiniteSet(Reads), IsFiniteSet(Coils), Reads \cap Coils = {}
  PROVE  SerialSpec => []TakenBack
<1>1. SerialInit => TakeBackInv
  <2>. SUFFICES ASSUME SerialInit  PROVE TakeBackInv
    OBVIOUS
  <2>1. CoilTypes
    <3>1. want \in [Coils -> BOOLEAN] /\ owed \in [Coils -> BOOLEAN] /\ held \in BOOLEAN
      BY DEF SerialInit
    <3>2. protocol \in {"rtu", "dlt645", "iec101", "iec103"} /\ next \in Nat \ {0}
      BY DEF SerialInit
    <3>. QED  BY <3>1, <3>2 DEF CoilTypes
  <2>2. LineClean /\ AtRequest /\ TakesExecuted
    BY DEF SerialInit, LineClean, AtRequest, TakesExecuted
  <2>3. \A d \in Coils : owed[d] = FALSE
    BY DEF SerialInit
  <2>. QED  BY <2>1, <2>2, <2>3 DEF TakeBackInv, TakenBack
<1>2. TakeBackInv /\ [SerialNext]_serialVars => TakeBackInv'
  BY TakeBackStep
<1>3. TakeBackInv => TakenBack
  BY DEF TakeBackInv
<1>. QED  BY <1>1, <1>2, <1>3, PTL DEF SerialSpec

-----------------------------------------------------------------------------
(* ModbusRegisters: least and greatest addresses.                            *)

(* A set of naturals has a least element, and a greatest one if it is        *)
(* bounded.                                                                  *)
LEMMA LeastExists ==
  ASSUME NEW S, S \subseteq Nat, S # {}
  PROVE  Min(S) \in S /\ \A y \in S : Min(S) <= y
<1>1. \E x \in S : \A y \in S : <<y, x>> \notin OpToRel(<, Nat)
  BY NatLessThanWellFounded, WFMin, Zenon
<1>2. \E x \in S : \A y \in S : x <= y
  <2>. DEFINE R == {ss \in Nat \X Nat : ss[1] < ss[2]}
  <2>1. OpToRel(<, Nat) = R
    BY Zenon DEF OpToRel
  <2>2. PICK x \in S : \A y \in S : <<y, x>> \notin R
    BY <1>1, <2>1, Zenon
  <2>3. \A y \in S : ~(y < x)
    BY <2>2
  <2>. QED  BY <2>3
<1>. QED  BY <1>2 DEF Min

(* A bounded set of addresses has a greatest one. *)
LEMMA GreatestExists ==
  ASSUME NEW S, S \subseteq Nat, S # {}, NEW n \in Nat, \A x \in S : x <= n
  PROVE  Max(S) \in S /\ \A y \in S : y <= Max(S)
<1>. DEFINE T == {n - x : x \in S}
<1>1. T \subseteq Nat /\ T # {}
  <2>1. \A x \in S : n - x \in Nat
    OBVIOUS
  <2>. QED  BY <2>1
<1>2. Min(T) \in T /\ \A y \in T : Min(T) <= y
  <2>. HIDE DEF T
  <2>. QED  BY <1>1, LeastExists
<1>3. PICK x \in S : Min(T) = n - x
  BY <1>2
<1>4. \A y \in S : y <= x
  <2>. SUFFICES ASSUME NEW y \in S PROVE y <= x
    OBVIOUS
  <2>1. n - x <= n - y
    BY <1>2, <1>3
  <2>. QED  BY <2>1
<1>. QED  BY <1>4 DEF Max

(* What a configuration that is read right says of a point.                  *)
LEMMA PointFacts ==
  ASSUME Readable(layout, serial), NEW p \in Point
  PROVE  /\ layout[p].func \in 1..4 /\ layout[p].addr \in Nat /\ LastAddr(p) \in Nat
         /\ layout[p].addr <= LastAddr(p) /\ LastAddr(p) + 1 < AddrSpace
         /\ p \in Di => p \notin Ai /\ LastAddr(p) = layout[p].addr /\ layout[p].bit \in 0..15
         /\ p \in Ai => /\ p \notin Di /\ layout[p].regs \in {1, 2, 4}
                        /\ LastAddr(p) = layout[p].addr + layout[p].regs - 1
                        /\ layout[p].func \in {3, 4}
<1>1. Described(layout) /\ LastAddr(p) < AddrSpace - 1
  BY DEF Readable, LastAddr
<1>2. CASE p \in Di
  <2>1. p \notin Ai
    BY <1>2, RegistersAssumption
  <2>2. layout[p].func \in 1..4 /\ layout[p].addr \in Nat /\ layout[p].bit \in 0..15
    BY <1>1, <1>2 DEF Described
  <2>3. LastAddr(p) = layout[p].addr
    BY <2>1, <2>2 DEF LastAddr, LastAddrOf
  <2>. QED  BY <1>1, <1>2, <2>1, <2>2, <2>3, RegistersAssumption
<1>3. CASE p \in Ai
  <2>1. p \notin Di
    BY <1>3, RegistersAssumption
  <2>2. layout[p].func \in {3, 4} /\ layout[p].addr \in Nat /\ layout[p].regs \in {1, 2, 4}
    BY <1>1, <1>3 DEF Described
  <2>3. LastAddr(p) = layout[p].addr + layout[p].regs - 1
    BY <1>3 DEF LastAddr, LastAddrOf
  <2>. QED  BY <1>1, <1>3, <2>1, <2>2, <2>3, RegistersAssumption
<1>. QED  BY <1>2, <1>3 DEF Point

(* Its slave shows every point.                                              *)
LEMMA AllLoaded ==
  ASSUME Readable(layout, serial), NEW p \in Point
  PROVE  Loaded(p)
BY DEF Readable, SerialReadable, Loaded

(* Two points of the same registers or coils do not overlap.                 *)
LEMMA PointsApart ==
  ASSUME Readable(layout, serial), NEW p \in Point, NEW q \in Point, p # q,
         \/ layout[p].func = layout[q].func
         \/ ~serial /\ {layout[p].func, layout[q].func} \subseteq {3, 4}
  PROVE  \/ LastAddr(p) < layout[q].addr \/ LastAddr(q) < layout[p].addr
         \/ p \in Di /\ q \in Di /\ layout[p].bit # layout[q].bit
BY DEF Readable, Apart, LastAddr
-----------------------------------------------------------------------------
(* Blocks.                                                                   *)

(* A block is a part of the points left, with the lowest of them and with    *)
(* every one that is not above one of its own, and reaches from its lowest   *)
(* to its highest register.                                                  *)
Spans(points, block, start, qty) ==
  /\ block \subseteq points /\ start \in Nat /\ qty \in Nat \ {0} /\ start + qty < AddrSpace
  /\ \E p \in block : layout[p].addr = start
  /\ \E p \in block : LastAddr(p) = start + qty - 1
  /\ \A p \in points : start <= layout[p].addr
  /\ \A p \in block : LastAddr(p) <= start + qty - 1
  /\ \A p \in block, q \in points : layout[q].addr <= layout[p].addr => q \in block

(* Block, BlockStart and Quantity (PollDevice) cut such a block. *)
LEMMA BlockFacts ==
  ASSUME Readable(layout, serial), NEW points, points \subseteq Point, points # {}, NEW limit
  PROVE  LET block == Block(points, limit)
         IN  Spans(points, block, BlockStart(block), Quantity(block))
<1>. DEFINE block == Block(points, limit)
            start == BlockStart(block)
            qty == Quantity(block)
            S == {layout[p].addr : p \in points}
            B == {layout[p].addr : p \in block}
            L == {LastAddr(p) : p \in block}
<1>1. \A p \in points : /\ layout[p].addr \in Nat /\ LastAddr(p) \in Nat
                        /\ layout[p].addr <= LastAddr(p) /\ LastAddr(p) + 1 < AddrSpace
  BY PointFacts
<1>2. Min(S) \in S /\ \A y \in S : Min(S) <= y
  <2>1. S \subseteq Nat /\ S # {}
    BY <1>1
  <2>. HIDE DEF S
  <2>. QED  BY <2>1, LeastExists
<1>3. block \subseteq points /\ \A p \in points : layout[p].addr = Min(S) => p \in block
  BY DEF Block
<1>4. PICK f \in points : layout[f].addr = Min(S)
  BY <1>2
<1>5. f \in block
  BY <1>3, <1>4
<1>6. B \subseteq Nat /\ B # {} /\ L \subseteq Nat /\ L # {} /\ \A x \in L : x <= AddrSpace
  BY <1>1, <1>3, <1>5, RegistersAssumption
<1>7. Min(B) \in B /\ \A y \in B : Min(B) <= y
  <2>. HIDE DEF B
  <2>. QED  BY <1>6, LeastExists
<1>8. Max(L) \in L /\ \A y \in L : y <= Max(L)
  <2>. HIDE DEF L
  <2>1. AddrSpace \in Nat
    BY RegistersAssumption
  <2>. QED  BY <1>6, <2>1, GreatestExists
<1>9. start = Min(B) /\ qty = Max(L) - start + 1
  BY DEF BlockStart, Quantity
<1>10. start = Min(S)
  <2>1. Min(B) <= Min(S)
    BY <1>4, <1>5, <1>7
  <2>2. Min(S) <= Min(B)
    BY <1>2, <1>3, <1>7
  <2>3. Min(S) \in Nat /\ Min(B) \in Nat
    BY <1>1, <1>4, <1>6, <1>7
  <2>. QED  BY <1>9, <2>1, <2>2, <2>3
<1>11. start \in Nat /\ \A p \in points : start <= layout[p].addr
  BY <1>1, <1>2, <1>4, <1>10
<1>12. PICK g \in block : LastAddr(g) = Max(L)
  BY <1>8
<1>13. qty \in Nat \ {0} /\ start + qty - 1 = Max(L)
  <2>1. g \in points
    BY <1>3
  <2>2. LastAddr(g) \in Nat /\ layout[g].addr \in Nat /\ start <= layout[g].addr
        /\ layout[g].addr <= LastAddr(g)
    BY <1>1, <1>11, <2>1
  <2>. HIDE DEF L
  <2>. QED  BY <1>9, <1>11, <1>12, <2>2
<1>14. start + qty < AddrSpace
  <2>1. g \in points /\ LastAddr(g) = start + qty - 1
    BY <1>3, <1>12, <1>13
  <2>2. LastAddr(g) + 1 < AddrSpace
    BY <1>1, <2>1
  <2>. QED  BY <1>11, <1>13, <2>1, <2>2
<1>15. \A p \in block : LastAddr(p) <= start + qty - 1
  BY <1>8, <1>13
<1>16. ASSUME NEW p \in block, NEW q \in points, layout[q].addr <= layout[p].addr
       PROVE  q \in block
  <2>. DEFINE fits(r) == LastAddr(r) - Min(S) + 1 <= limit
  <2>1. \A r \in points : layout[r].addr \in Nat
    BY <1>1
  <2>2. CASE layout[p].addr = Min(S)
    <3>1. layout[q].addr = Min(S)
      <4>1. layout[q].addr \in S
        OBVIOUS
      <4>2. Min(S) <= layout[q].addr
        BY <1>2, <4>1
      <4>3. layout[q].addr \in Nat /\ layout[p].addr \in Nat
        BY <1>3, <2>1
      <4>. QED  BY <1>16, <2>2, <4>2, <4>3
    <3>. QED  BY <1>3, <3>1
  <2>3. CASE layout[p].addr # Min(S)
    <3>1. \A r \in points : layout[r].addr <= layout[p].addr => fits(r)
      BY <2>3 DEF Block
    <3>2. \A r \in points : layout[r].addr <= layout[q].addr => fits(r)
      <4>. SUFFICES ASSUME NEW r \in points, layout[r].addr <= layout[q].addr PROVE fits(r)
        OBVIOUS
      <4>1. layout[r].addr <= layout[p].addr
        <5>1. layout[r].addr \in Nat /\ layout[q].addr \in Nat /\ layout[p].addr \in Nat
          BY <1>3, <2>1
        <5>. QED  BY <1>16, <5>1
      <4>. HIDE DEF fits
      <4>. QED  BY <3>1, <4>1
    <3>. QED  BY <3>2 DEF Block
  <2>. QED  BY <2>2, <2>3
<1>17. layout[f].addr = start
  BY <1>4, <1>10
<1>. HIDE DEF block, start, qty, S, B, L
<1>18. Spans(points, block, start, qty)
  BY <1>3, <1>5, <1>11, <1>12, <1>13, <1>14, <1>15, <1>16, <1>17 DEF Spans
<1>. QED  BY <1>18 DEF block, start, qty

-----------------------------------------------------------------------------
(* Byte orders.                                                              *)

(* Both ends put the bytes of a number of n bytes into the same order, and   *)
(* each weight comes once.                                                   *)
SameOrder(e, n) ==
  /\ ReadOrder(e) = WireOrder(e) /\ DOMAIN WireOrder(e) = 1..n
  /\ \A i \in 1..n : WireOrder(e)[i] \in 0..(n - 1)
  /\ \A w \in 0..(n - 1) : \E i \in 1..n : WireOrder(e)[i] = w
  /\ \A i, j \in 1..n : WireOrder(e)[i] = WireOrder(e)[j] => i = j

(* Every byte order that the slave writes, the master undoes. *)
LEMMA OrdersAgree ==
  ASSUME NEW r \in {1, 2, 4}, NEW e \in Endians(r) \ {"GHEFCDAB"}
  PROVE  SameOrder(e, 2 * r)
<1>1. CASE r = 1
  <2>1. ASSUME NEW o, o = <<1, 0>> \/ o = <<0, 1>>, WireOrder(e) = o, ReadOrder(e) = o
        PROVE  SameOrder(e, 2)
    BY <2>1 DEF SameOrder
  <2>2. e = "AB" \/ e = "BA"
    BY <1>1 DEF Endians, Endian2
  <2>3. CASE e = "AB"
    <3>1. WireOrder(e) = <<1, 0>> /\ ReadOrder(e) = <<1, 0>>
      BY <2>3 DEF WireOrder, ReadOrder, Order
    <3>. QED  BY <1>1, <2>1, <3>1
  <2>4. CASE e = "BA"
    <3>1. WireOrder(e) = <<0, 1>> /\ ReadOrder(e) = <<0, 1>>
      BY <2>4 DEF WireOrder, ReadOrder, Order
    <3>. QED  BY <1>1, <2>1, <3>1
  <2>. QED  BY <2>2, <2>3, <2>4
<1>2. CASE r = 2
  <2>1. ASSUME NEW o, o \in {<<3, 2, 1, 0>>, <<1, 0, 3, 2>>, <<2, 3, 0, 1>>, <<0, 1, 2, 3>>},
               WireOrder(e) = o, ReadOrder(e) = o
        PROVE  SameOrder(e, 4)
    BY <2>1 DEF SameOrder
  <2>2. e \in Endian4
    BY <1>2 DEF Endians
  <2>3. WireOrder(e) = ReadOrder(e)
        /\ WireOrder(e) \in {<<3, 2, 1, 0>>, <<1, 0, 3, 2>>, <<2, 3, 0, 1>>, <<0, 1, 2, 3>>}
    BY <2>2 DEF WireOrder, ReadOrder, Order, Endian4
  <2>. QED  BY <1>2, <2>1, <2>3
<1>3. CASE r = 4
  <2>1. ASSUME NEW o, o \in {<<7, 6, 5, 4, 3, 2, 1, 0>>, <<0, 1, 2, 3, 4, 5, 6, 7>>},
               WireOrder(e) = o, ReadOrder(e) = o
        PROVE  SameOrder(e, 8)
    BY <2>1 DEF SameOrder
  <2>2. e = "ABCDEFGH" \/ e = "HGFEDCBA"
    BY <1>3 DEF Endians, Endian8
  <2>3. WireOrder(e) = ReadOrder(e)
        /\ WireOrder(e) \in {<<7, 6, 5, 4, 3, 2, 1, 0>>, <<0, 1, 2, 3, 4, 5, 6, 7>>}
    BY <2>2 DEF WireOrder, ReadOrder, Order
  <2>. QED  BY <1>3, <2>1, <2>3
<1>. QED  BY <1>1, <1>2, <1>3

(* What the TCP slave sends of a number is what the master makes of it.      *)
LEMMA NumberReadBack ==
  ASSUME NEW r \in {1, 2, 4}, NEW e \in Endians(r) \ {"GHEFCDAB"},
         NEW v \in [0..(2 * r - 1) -> Byte],
         serial => r = 1 /\ e = "AB"
  PROVE  /\ RawToWireBytes(v, e) \in [1..2 * r -> Byte]
         /\ ParseValue(RawToWireBytes(v, e), e) = v
<1>. DEFINE n == 2 * r
            order == WireOrder(e)
            wire == RawToWireBytes(v, e)
<1>1. n \in Nat
  OBVIOUS
<1>2. /\ ReadOrder(e) = order /\ DOMAIN order = 1..n
      /\ \A i \in 1..n : order[i] \in 0..(n - 1)
      /\ \A w \in 0..(n - 1) : \E i \in 1..n : order[i] = w
      /\ \A i, j \in 1..n : order[i] = order[j] => i = j
  BY OrdersAgree DEF SameOrder
<1>3. wire = [i \in 1..n |-> v[order[i]]] /\ v \in [0..(n - 1) -> Byte]
  BY <1>2 DEF RawToWireBytes
<1>4. wire \in [1..n -> Byte]
  <2>. HIDE DEF n, order, wire
  <2>. QED  BY <1>2, <1>3
<1>5. CASE serial
  <2>1. order = <<1, 0>> /\ n = 2
    BY <1>5 DEF WireOrder, Order
  <2>2. ParseValue(wire, e) = [w \in {0, 1} |-> wire[2 - w]]
    BY <1>5 DEF ParseValue
  <2>. HIDE DEF n, order, wire
  <2>3. v \in [{0, 1} -> Byte] /\ wire[1] = v[1] /\ wire[2] = v[0]
    <3>1. 0..(n - 1) = {0, 1} /\ 1..n = {1, 2}
      BY <2>1
    <3>. QED  BY <1>3, <2>1, <3>1
  <2>4. \A w \in {0, 1} : wire[2 - w] = v[w]
    BY <2>3
  <2>. QED  BY <1>4, <2>2, <2>3, <2>4 DEF n, wire
<1>6. CASE ~serial
  <2>1. ParseValue(wire, e) = [w \in Range(order) |-> wire[CHOOSE i \in DOMAIN wire : order[i] = w]]
    BY <1>2, <1>6 DEF ParseValue
  <2>. HIDE DEF n, order, wire
  <2>2. Range(order) = 0..(n - 1)
    BY <1>2 DEF Range
  <2>3. DOMAIN wire = 1..n
    BY <1>3
  <2>4. \A w \in 0..(n - 1) : wire[CHOOSE i \in 1..n : order[i] = w] = v[w]
    <3>. SUFFICES ASSUME NEW w \in 0..(n - 1)
                  PROVE  wire[CHOOSE i \in 1..n : order[i] = w] = v[w]
      OBVIOUS
    <3>. DEFINE k == CHOOSE i \in 1..n : order[i] = w
    <3>1. k \in 1..n /\ order[k] = w
      BY <1>2
    <3>. HIDE DEF k
    <3>2. wire[k] = v[w]
      BY <1>3, <3>1
    <3>. QED  BY <3>2 DEF k
  <2>5. ParseValue(wire, e) = [w \in 0..(n - 1) |-> v[w]]
    BY <2>1, <2>2, <2>3, <2>4
  <2>6. v = [w \in 0..(n - 1) |-> v[w]]
    BY <1>3
  <2>. QED  BY <1>4, <2>5, <2>6 DEF n, wire
<1>. QED  BY <1>5, <1>6

(* A register gives back the two bytes that it was made of.                  *)
LEMMA WordSplit ==
  ASSUME NEW high \in Byte, NEW low \in Byte
  PROVE  High(Word(high, low)) = high /\ Low(Word(high, low)) = low
<1>1. \A b \in 0..7 : (b + 8 \in Word(high, low) <=> b \in high)
                       /\ (b \in Word(high, low) <=> b \in low)
  BY DEF Word, Byte
<1>2. High(Word(high, low)) = {b \in 0..7 : b \in high}
  BY <1>1 DEF High
<1>3. Low(Word(high, low)) = {b \in 0..7 : b \in low}
  BY <1>1 DEF Low
<1>. QED  BY <1>2, <1>3 DEF Byte
-----------------------------------------------------------------------------
(* What the slave answers.                                                   *)

(* The registers of a number hold its bytes, and nothing of another point.   *)
LEMMA NumberInRegisters ==
  ASSUME Readable(layout, serial), NEW func \in {3, 4}, NEW start \in Nat, NEW qty \in Nat \ {0},
         start + qty < AddrSpace, NEW a \in Ai, layout[a].func = func,
         start <= layout[a].addr, LastAddr(a) <= start + qty - 1,
         NEW addr \in layout[a].addr..LastAddr(a)
  PROVE  HandleFCReadRegs(func, start, qty)[addr] = RegisterOfAi(a, addr)
<1>. DEFINE ais == {b \in AiIn(func, start, qty) : addr \in layout[b].addr..LastAddr(b)}
            last == CHOOSE b \in ais : \A other \in ais : layout[other].addr <= layout[b].addr
            bits == BitsIn(func, addr)
<1>1. /\ a \in Point /\ layout[a].addr \in Nat /\ LastAddr(a) \in Nat
      /\ layout[a].addr <= LastAddr(a) /\ addr \in Nat
  BY PointFacts DEF Point
<1>2. addr \in start..(start + qty - 1)
  BY <1>1
<1>3. a \in ais
  <2>1. layout[a].addr < start + qty
    BY <1>1
  <2>2. (start + qty) % AddrSpace = start + qty
    BY RegistersAssumption
  <2>. QED  BY <1>1, <2>1, <2>2, AllLoaded DEF AiIn, Point
<1>4. ASSUME NEW b \in ais PROVE b = a
  <2>1. /\ b \in Ai /\ b \in Point /\ addr \in layout[b].addr..LastAddr(b)
        /\ serial => layout[b].func = func
    BY DEF AiIn, Point
  <2>2. layout[b].func \in {3, 4} /\ layout[b].addr \in Nat /\ LastAddr(b) \in Nat /\ b \notin Di
    BY <2>1, PointFacts
  <2>3. ~(LastAddr(a) < layout[b].addr) /\ ~(LastAddr(b) < layout[a].addr)
    BY <1>1, <2>1, <2>2
  <2>4. layout[a].func = layout[b].func
        \/ (~serial /\ {layout[a].func, layout[b].func} \subseteq {3, 4})
    BY <2>1, <2>2
  <2>. HIDE DEF ais
  <2>. QED  BY <1>1, <2>1, <2>2, <2>3, <2>4, PointsApart
<1>5. last = a
  <2>. HIDE DEF ais
  <2>1. ais = {a}
    BY <1>3, <1>4
  <2>2. layout[a].addr <= layout[a].addr
    BY <1>1
  <2>3. a \in ais /\ \A other \in ais : layout[other].addr <= layout[a].addr
    BY <2>1, <2>2
  <2>4. last \in ais
    BY <2>3
  <2>. QED  BY <2>1, <2>4
<1>6. bits = {}
  <2>. SUFFICES ASSUME NEW d \in bits PROVE FALSE
    OBVIOUS
  <2>1. /\ d \in Di /\ d \in Point /\ layout[d].func \in {3, 4} /\ layout[d].addr = addr
        /\ serial => layout[d].func = func
    BY DEF BitsIn, Point
  <2>2. d \notin Ai /\ LastAddr(d) = addr /\ a \notin Di /\ d # a
    BY <1>1, <2>1, PointFacts
  <2>3. layout[a].func = layout[d].func
        \/ (~serial /\ {layout[a].func, layout[d].func} \subseteq {3, 4})
    BY <2>1
  <2>4. LastAddr(a) < layout[d].addr \/ LastAddr(d) < layout[a].addr
    BY <1>1, <2>1, <2>2, <2>3, PointsApart
  <2>. HIDE DEF bits
  <2>. QED  BY <1>1, <2>1, <2>2, <2>4
<1>7. HandleFCReadRegs(func, start, qty)[addr] =
        ((IF ais = {} THEN {} ELSE RegisterOfAi(last, addr)) \ {layout[d].bit : d \in bits})
        \cup {layout[d].bit : d \in {e \in bits : table[e]}}
  BY <1>2 DEF HandleFCReadRegs
<1>. HIDE DEF ais, last, bits
<1>8. {layout[d].bit : d \in bits} = {} /\ {layout[d].bit : d \in {e \in bits : table[e]}} = {}
  BY <1>6
<1>. QED  BY <1>3, <1>5, <1>7, <1>8

(* A bit of a register is on if and only if its point is.                    *)
LEMMA BitInRegister ==
  ASSUME Readable(layout, serial), NEW func \in {3, 4}, NEW start \in Nat, NEW qty \in Nat \ {0},
         NEW d \in Di, layout[d].func = func,
         start <= layout[d].addr, layout[d].addr <= start + qty - 1, table[d] \in BOOLEAN
  PROVE  (layout[d].bit \in HandleFCReadRegs(func, start, qty)[layout[d].addr]) = table[d]
<1>. DEFINE addr == layout[d].addr
            ais == {b \in AiIn(func, start, qty) : addr \in layout[b].addr..LastAddr(b)}
            last == CHOOSE b \in ais : \A other \in ais : layout[other].addr <= layout[b].addr
            bits == BitsIn(func, addr)
<1>1. d \in Point /\ d \notin Ai /\ addr \in Nat /\ LastAddr(d) = addr
  BY PointFacts DEF Point
<1>2. ais = {}
  <2>. SUFFICES ASSUME NEW b \in ais PROVE FALSE
    OBVIOUS
  <2>1. /\ b \in Ai /\ b \in Point /\ addr \in layout[b].addr..LastAddr(b)
        /\ serial => layout[b].func = func
    BY DEF AiIn, Point
  <2>2. layout[b].func \in {3, 4} /\ layout[b].addr \in Nat /\ LastAddr(b) \in Nat /\ b \notin Di
        /\ b # d
    BY <2>1, PointFacts
  <2>3. layout[b].func = layout[d].func
        \/ (~serial /\ {layout[b].func, layout[d].func} \subseteq {3, 4})
    BY <2>1, <2>2
  <2>4. LastAddr(b) < addr \/ addr < layout[b].addr
    BY <1>1, <2>1, <2>2, <2>3, PointsApart
  <2>. HIDE DEF ais, addr
  <2>. QED  BY <1>1, <2>1, <2>2, <2>4
<1>3. d \in bits
  BY AllLoaded DEF BitsIn, Point
<1>4. ASSUME NEW e \in bits, layout[e].bit = layout[d].bit PROVE e = d
  <2>1. /\ e \in Di /\ e \in Point /\ layout[e].func \in {3, 4} /\ layout[e].addr = addr
        /\ serial => layout[e].func = func
    BY DEF BitsIn, Point
  <2>2. LastAddr(e) = addr
    BY <2>1, PointFacts
  <2>3. layout[e].func = layout[d].func
        \/ (~serial /\ {layout[e].func, layout[d].func} \subseteq {3, 4})
    BY <2>1
  <2>. HIDE DEF bits
  <2>4. e # d => addr < addr
    BY <1>1, <1>4, <2>1, <2>2, <2>3, PointsApart
  <2>. QED  BY <1>1, <2>4
<1>5. HandleFCReadRegs(func, start, qty)[addr] =
        ((IF ais = {} THEN {} ELSE RegisterOfAi(last, addr)) \ {layout[e].bit : e \in bits})
        \cup {layout[e].bit : e \in {x \in bits : table[x]}}
  <2>1. addr \in start..(start + qty - 1)
    BY <1>1
  <2>. QED  BY <2>1 DEF HandleFCReadRegs
<1>. HIDE DEF ais, last, bits
<1>6. HandleFCReadRegs(func, start, qty)[addr] = {layout[e].bit : e \in {x \in bits : table[x]}}
  BY <1>2, <1>5
<1>7. layout[d].bit \in HandleFCReadRegs(func, start, qty)[addr] <=> table[d]
  <2>1. ASSUME table[d] PROVE layout[d].bit \in HandleFCReadRegs(func, start, qty)[addr]
    BY <1>3, <1>6, <2>1
  <2>2. ASSUME layout[d].bit \in HandleFCReadRegs(func, start, qty)[addr] PROVE table[d]
    <3>1. PICK e \in bits : table[e] /\ layout[e].bit = layout[d].bit
      BY <1>6, <2>2
    <3>. QED  BY <1>4, <3>1
  <2>. QED  BY <2>1, <2>2
<1>. QED  BY <1>7

(* Padding to whole bytes adds less than a byte.                             *)
LEMMA PaddedBounds ==
  ASSUME NEW qty \in Nat
  PROVE  Padded(qty) \in Nat /\ qty <= Padded(qty) /\ Padded(qty) < qty + ByteBits
<1>. DEFINE n == qty + ByteBits - 1
            k == n \div ByteBits
            m == ByteBits * k
<1>1. ByteBits \in Nat /\ ByteBits > 0 /\ n \in Nat
  BY RegistersAssumption
<1>2. k \in Nat /\ n >= ByteBits * k /\ n < ByteBits * (k + 1)
  <2>. HIDE DEF n
  <2>. QED  BY <1>1
<1>3. ByteBits * (k + 1) = m + ByteBits /\ m \in Nat
  <2>. HIDE DEF k
  <2>. QED  BY <1>1, <1>2
<1>4. m <= n /\ n < m + ByteBits /\ Padded(qty) = m
  BY <1>2, <1>3 DEF Padded
<1>. HIDE DEF k, m
<1>. QED  BY <1>1, <1>3, <1>4

(* A coil of an answer is on if and only if its point is.                    *)
LEMMA CoilInAnswer ==
  ASSUME Readable(layout, serial), NEW func \in {1, 2}, NEW start \in Nat, NEW qty \in Nat \ {0},
         NEW d \in Di, layout[d].func = func,
         start <= layout[d].addr, layout[d].addr <= start + qty - 1, table[d] \in BOOLEAN
  PROVE  LET i == layout[d].addr - start IN
         i \in DOMAIN HandleFC01(func, start, qty) /\ HandleFC01(func, start, qty)[i] = table[d]
<1>. DEFINE i == layout[d].addr - start
<1>1. d \in Point /\ layout[d].addr \in Nat /\ LastAddr(d) = layout[d].addr
  BY PointFacts DEF Point
<1>2. i \in Nat /\ i < qty /\ start + i = layout[d].addr
  BY <1>1
<1>3. i \in 0..(Padded(qty) - 1)
  BY <1>2, PaddedBounds
<1>4. ASSUME NEW e \in Di, layout[e].func = func, layout[e].addr = layout[d].addr PROVE e = d
  <2>1. e \in Point /\ LastAddr(e) = layout[d].addr
    BY <1>4, PointFacts DEF Point
  <2>2. layout[e].bit = 0 /\ layout[d].bit = 0
    BY <1>4 DEF Readable, Described
  <2>3. e # d => layout[d].addr < layout[d].addr
    BY <1>1, <1>4, <2>1, <2>2, PointsApart
  <2>. QED  BY <1>1, <2>3
<1>5. HandleFC01(func, start, qty)[i] =
        (i < qty /\ \E e \in Di : /\ Loaded(e) /\ layout[e].func = func
                                /\ layout[e].addr = start + i /\ table[e])
  BY <1>3 DEF HandleFC01
<1>6. (\E e \in Di : /\ Loaded(e) /\ layout[e].func = func
                       /\ layout[e].addr = start + i /\ table[e]) <=> table[d]
  BY <1>1, <1>2, <1>4, AllLoaded
<1>7. DOMAIN HandleFC01(func, start, qty) = 0..(Padded(qty) - 1)
  BY DEF HandleFC01
<1>. QED  BY <1>2, <1>3, <1>5, <1>6, <1>7
-----------------------------------------------------------------------------
(* What the master makes of an answer.                                       *)

TableTyped ==
  /\ \A d \in Di : table[d] \in BOOLEAN
  /\ \A a \in Ai : table[a] \in [0..(2 * layout[a].regs - 1) -> Byte]

(* A block of registers gives every point of it the value of the slave's     *)
(* table.                                                                    *)
LEMMA RegistersReadBack ==
  ASSUME Readable(layout, serial), TableTyped, NEW func \in {3, 4},
         NEW points, points \subseteq Point, points # {}, \A p \in points : layout[p].func = func,
         NEW limit, NEW block, block = Block(points, limit)
  PROVE  DispatchFC03or04(func, block) = [p \in block |-> table[p]]
<1>. DEFINE start == BlockStart(block)
            qty == Quantity(block)
            words == HandleFCReadRegs(func, start, qty)
            word(p, i) == words[layout[p].addr + (i - 1) \div 2]
            bytes(p) == [i \in 1..2 * layout[p].regs |->
                           IF i % 2 = 1 THEN High(word(p, i)) ELSE Low(word(p, i))]
<1>1. /\ block \subseteq points /\ start \in Nat /\ qty \in Nat \ {0} /\ start + qty < AddrSpace
      /\ \A p \in points : start <= layout[p].addr
      /\ \A p \in block : LastAddr(p) <= start + qty - 1
  <2>1. Spans(points, block, start, qty)
    BY BlockFacts, Zenon
  <2>. HIDE DEF start, qty
  <2>. QED  BY <2>1 DEF Spans
<1>2. ASSUME NEW p \in block, p \in Di
      PROVE  (layout[p].bit \in words[layout[p].addr]) = table[p]
  <2>1. p \in Point /\ start <= layout[p].addr /\ layout[p].func = func
    BY <1>1, <1>2
  <2>2. layout[p].addr <= start + qty - 1
    BY <1>1, <1>2, <2>1, PointFacts
  <2>3. table[p] \in BOOLEAN
    BY <1>2 DEF TableTyped
  <2>. HIDE DEF start, qty
  <2>. QED  BY <1>1, <1>2, <2>1, <2>2, <2>3, BitInRegister
<1>3. ASSUME NEW a \in block, a \in Ai
      PROVE  ParseValue(bytes(a), layout[a].endian) = table[a]
  <2>. DEFINE r == layout[a].regs
              e == layout[a].endian
              wire == RawToWireBytes(table[a], e)
              addr == layout[a].addr
  <2>1. a \in Point /\ start <= addr /\ layout[a].func = func
    BY <1>1, <1>3
  <2>2. addr \in Nat /\ r \in {1, 2, 4} /\ LastAddr(a) = addr + r - 1
    BY <1>3, <2>1, PointFacts
  <2>3. e \in Endians(r) \ {"GHEFCDAB"}
    BY <1>3 DEF Readable, Described
  <2>4. serial => r = 1 /\ e = "AB"
    BY <1>3 DEF Readable, SerialReadable
  <2>5. table[a] \in [0..(2 * r - 1) -> Byte]
    BY <1>3 DEF TableTyped
  <2>6. wire \in [1..2 * r -> Byte] /\ ParseValue(wire, e) = table[a]
    <3>. HIDE DEF r, e
    <3>1. wire = RawToWireBytes(table[a], e)
      OBVIOUS
    <3>. HIDE DEF wire
    <3>. QED  BY <2>2, <2>3, <2>4, <2>5, <3>1, NumberReadBack
  <2>7. ASSUME NEW x \in addr..LastAddr(a)
        PROVE  words[x] = Word(wire[2 * (x - addr) + 1], wire[2 * (x - addr) + 2])
    <3>1. words[x] = RegisterOfAi(a, x)
      <4>1. LastAddr(a) <= start + qty - 1
        BY <1>1
      <4>. HIDE DEF start, qty
      <4>. QED  BY <1>1, <1>3, <2>1, <4>1, NumberInRegisters
    <3>. QED  BY <3>1 DEF RegisterOfAi
  <2>8. ASSUME NEW i \in 1..2 * r
        PROVE  (IF i % 2 = 1 THEN High(word(a, i)) ELSE Low(word(a, i))) = wire[i]
    <3>. DEFINE k == (i - 1) \div 2
                x == addr + k
    <3>1. k \in 0..(r - 1) /\ (i % 2 = 1 => i = 2 * k + 1) /\ (i % 2 # 1 => i = 2 * k + 2)
      <4>. HIDE DEF r
      <4>1. r \in Nat /\ i \in Nat /\ i >= 1 /\ i <= 2 * r
        BY <2>2
      <4>2. k \in Nat /\ 2 * k <= i - 1 /\ i - 1 < 2 * k + 2
        BY <4>1
      <4>3. k \in 0..(r - 1)
        BY <4>1, <4>2
      <4>4. i = 2 * k + 1 \/ i = 2 * k + 2
        BY <4>1, <4>2
      <4>. HIDE DEF k
      <4>5. CASE i = 2 * k + 1
        <5>1. i % 2 = 1
          BY <4>2, <4>5
        <5>. QED  BY <4>3, <4>5, <5>1
      <4>6. CASE i = 2 * k + 2
        <5>1. i % 2 = 0
          BY <4>2, <4>6
        <5>. QED  BY <4>3, <4>6, <5>1
      <4>. QED  BY <4>4, <4>5, <4>6
    <3>. HIDE DEF k
    <3>2. x \in addr..LastAddr(a) /\ x - addr = k
      <4>. HIDE DEF addr, r
      <4>. QED  BY <2>2, <3>1
    <3>3. words[x] = Word(wire[2 * k + 1], wire[2 * k + 2])
      <4>1. words[x] = Word(wire[2 * (x - addr) + 1], wire[2 * (x - addr) + 2])
        <5>. HIDE DEF x, words, wire, addr
        <5>. QED  BY <2>7, <3>2
      <4>. HIDE DEF x, words, wire, addr
      <4>. QED  BY <3>2, <4>1
    <3>4. wire[2 * k + 1] \in Byte /\ wire[2 * k + 2] \in Byte
      <4>1. 2 * k + 1 \in 1..2 * r /\ 2 * k + 2 \in 1..2 * r
        <5>. HIDE DEF r
        <5>. QED  BY <2>2, <3>1
      <4>. HIDE DEF wire, r
      <4>. QED  BY <2>6, <4>1
    <3>5. High(words[x]) = wire[2 * k + 1] /\ Low(words[x]) = wire[2 * k + 2]
      <4>. HIDE DEF words, wire, x
      <4>. QED  BY <3>3, <3>4, WordSplit
    <3>6. word(a, i) = words[x]
      BY DEF k
    <3>. HIDE DEF words, wire, x, word
    <3>. QED  BY <3>1, <3>5, <3>6
  <2>9. bytes(a) = wire
    <3>1. bytes(a) = [i \in 1..2 * r |-> IF i % 2 = 1 THEN High(word(a, i)) ELSE Low(word(a, i))]
      OBVIOUS
    <3>. HIDE DEF word, wire, r, bytes
    <3>. QED  BY <2>6, <2>8, <3>1
  <2>. HIDE DEF bytes, wire
  <2>. QED  BY <2>6, <2>9
<1>4. DispatchFC03or04(func, block) =
        [p \in block |-> IF p \in Di THEN layout[p].bit \in words[layout[p].addr]
                         ELSE ParseValue(bytes(p), layout[p].endian)]
  BY DEF DispatchFC03or04
<1>5. \A p \in block : p \in Di \/ p \in Ai
  BY <1>1 DEF Point
<1>. HIDE DEF start, qty, words, word, bytes
<1>. QED  BY <1>2, <1>3, <1>4, <1>5

(* A block of coils gives every point of it the value of the slave's table,  *)
(* and else, on a serial line, only values of DI points above its start.     *)
LEMMA CoilsReadBack ==
  ASSUME Readable(layout, serial), TableTyped, NEW func \in {1, 2},
         NEW points, points \subseteq Point, points # {}, \A p \in points : layout[p].func = func,
         NEW limit, NEW block, block = Block(points, limit),
         NEW answer, answer = DispatchFC01or02(func, block)
  PROVE  /\ \A p \in block : p \in DOMAIN answer /\ answer[p] = table[p]
         /\ \A p \in DOMAIN answer \ block :
              serial /\ p \in Di /\ BlockStart(block) <= layout[p].addr
<1>. DEFINE start == BlockStart(block)
            qty == Quantity(block)
            coils == HandleFC01(func, start, qty)
            asked == IF serial THEN {d \in Di : Offset(d, start) \in DOMAIN coils}
                     ELSE IF start = AddrSpace - 1 THEN {} ELSE block
<1>1. /\ block \subseteq points /\ start \in Nat /\ qty \in Nat \ {0} /\ start + qty < AddrSpace
      /\ \E p \in block : LastAddr(p) = start + qty - 1
      /\ \A p \in points : start <= layout[p].addr
      /\ \A p \in block : LastAddr(p) <= start + qty - 1
  <2>1. Spans(points, block, start, qty)
    BY BlockFacts, Zenon
  <2>. HIDE DEF start, qty
  <2>. QED  BY <2>1 DEF Spans
<1>2. AddrSpace \in Nat /\ AddrSpace > 0 /\ ByteBits \in Nat /\ ByteBits > 0
  BY RegistersAssumption
<1>3. answer = [p \in asked |-> coils[Offset(p, start)]]
  BY DEF DispatchFC01or02
<1>4. ASSUME NEW p \in block
      PROVE  /\ p \in Di /\ layout[p].addr \in Nat /\ LastAddr(p) = layout[p].addr
             /\ start <= layout[p].addr /\ layout[p].addr <= start + qty - 1
  <2>1. p \in Point /\ layout[p].func \in {1, 2}
    BY <1>1
  <2>2. p \in Di
    BY <2>1, PointFacts DEF Point
  <2>. HIDE DEF start, qty
  <2>. QED  BY <1>1, <2>1, <2>2, PointFacts
<1>5. ASSUME NEW p \in block PROVE p \in asked /\ coils[Offset(p, start)] = table[p]
  <2>. DEFINE i == layout[p].addr - start
  <2>1. Offset(p, start) = i
    <3>1. i \in 0..(AddrSpace - 1)
      <4>. HIDE DEF start, qty
      <4>. QED  BY <1>1, <1>2, <1>4
    <3>2. i % AddrSpace = i
      <4>. HIDE DEF i
      <4>. QED  BY <1>2, <3>1
    <3>. QED  BY <3>2 DEF Offset
  <2>2. table[p] \in BOOLEAN /\ layout[p].func = func
    BY <1>1, <1>4 DEF TableTyped
  <2>3. i \in DOMAIN coils /\ coils[i] = table[p]
    <3>. HIDE DEF start, qty
    <3>. QED  BY <1>1, <1>4, <2>2, CoilInAnswer
  <2>4. start # AddrSpace - 1
    <3>. HIDE DEF start, qty
    <3>. QED  BY <1>1, <1>2
  <2>. HIDE DEF start, coils, i
  <2>. QED  BY <1>4, <2>1, <2>3, <2>4
<1>6. ASSUME NEW p \in asked \ block PROVE serial /\ p \in Di /\ start <= layout[p].addr
  <2>1. serial /\ p \in Di /\ Offset(p, start) \in DOMAIN coils
    <3>. HIDE DEF start, coils
    <3>. QED  BY <1>6
  <2>2. DOMAIN coils = 0..(Padded(qty) - 1)
    BY DEF HandleFC01
  <2>3. PICK q \in block : LastAddr(q) = start + qty - 1
    BY <1>1
  <2>4. layout[q].addr + ByteBits <= AddrSpace
    <3>1. q \in Point /\ Coil(layout, q)
      BY <1>1, <1>4 DEF Coil
    <3>. QED  BY <2>1, <3>1 DEF Readable, SerialReadable
  <2>5. start + Padded(qty) <= AddrSpace
    <3>1. Padded(qty) \in Nat /\ Padded(qty) < qty + ByteBits
      BY <1>1, PaddedBounds
    <3>2. layout[q].addr = start + qty - 1
      BY <1>4, <2>3
    <3>. HIDE DEF start, qty
    <3>. QED  BY <1>1, <1>2, <2>4, <3>1, <3>2
  <2>6. layout[p].addr \in Nat /\ layout[p].addr < AddrSpace
    <3>1. p \in Point
      BY <2>1 DEF Point
    <3>. QED  BY <1>2, <3>1, PointFacts
  <2>7. ASSUME layout[p].addr < start PROVE FALSE
    <3>. DEFINE i == layout[p].addr - start
    <3>1. i + AddrSpace \in Padded(qty)..(AddrSpace - 1)
      <4>1. Padded(qty) \in Nat
        BY <1>1, PaddedBounds
      <4>. HIDE DEF start, qty
      <4>. QED  BY <1>1, <1>2, <2>5, <2>6, <2>7, <4>1
    <3>2. i \in Int
      <4>. HIDE DEF start
      <4>. QED  BY <1>1, <2>6
    <3>3. i % AddrSpace = i + AddrSpace
      <4>1. i + AddrSpace \in 0..(AddrSpace - 1)
        <5>1. Padded(qty) \in Nat
          BY <1>1, PaddedBounds
        <5>. HIDE DEF i, qty
        <5>. QED  BY <1>2, <3>1, <3>2, <5>1
      <4>. HIDE DEF i
      <4>. QED  BY <1>2, <3>2, <4>1
    <3>4. Offset(p, start) = i + AddrSpace
      BY <3>3 DEF Offset
    <3>5. i + AddrSpace \in 0..(Padded(qty) - 1)
      <4>. HIDE DEF start, qty, coils, i
      <4>. QED  BY <2>1, <2>2, <3>4
    <3>6. Padded(qty) \in Nat
      BY <1>1, PaddedBounds
    <3>. HIDE DEF start, qty, i
    <3>. QED  BY <1>2, <3>1, <3>2, <3>5, <3>6
  <2>. HIDE DEF start, qty
  <2>. QED  BY <1>1, <2>1, <2>6, <2>7
<1>. HIDE DEF coils, asked
<1>. QED  BY <1>3, <1>5, <1>6
-----------------------------------------------------------------------------
(* A poll.                                                                   *)

(* What has been read is of a lower function than what is left, or below it. *)
(* So no coils that are answered on a serial line reach it, and it keeps the *)
(* value it was given.                                                       *)
PollIInv ==
  /\ Readable(layout, serial) /\ TableTyped
  /\ toRead \subseteq Point
  /\ DOMAIN table = Point /\ DOMAIN seen = Point /\ DOMAIN master = Point
  /\ \A p \in Point : table[p] \in seen[p]
  /\ \A p \in Point \ toRead, q \in toRead :
       \/ layout[p].func < layout[q].func
       \/ layout[p].func = layout[q].func /\ layout[p].addr < layout[q].addr
  /\ \A p \in Point \ toRead : master[p] \in seen[p]

(* A value of a point has the form that the table asks for.                  *)
LEMMA ValuesTyped ==
  ASSUME Readable(layout, serial), NEW p \in Point, NEW v \in Values(p)
  PROVE  /\ p \in Di => v \in BOOLEAN
         /\ p \in Ai => v \in [0..(2 * layout[p].regs - 1) -> Byte]
<1>1. CASE p \in Di
  BY <1>1, PointFacts DEF Values
<1>2. CASE p \in Ai
  <2>1. p \notin Di
    BY <1>2, PointFacts
  <2>2. PICK base \in Bases : v = AiValue(p, base)
    BY <2>1 DEF Values
  <2>. QED  BY <2>1, <2>2 DEF AiValue, Byte
<1>. QED  BY <1>1, <1>2 DEF Point

(* PollDevice begins with every point left to read. *)
LEMMA PollInitIInv == RegistersInit /\ Readable(layout, serial) => PollIInv
<1>. SUFFICES ASSUME RegistersInit, Readable(layout, serial) PROVE PollIInv
  OBVIOUS
<1>1. PICK on \in SUBSET Di, base \in Bases :
        table = [p \in Point |-> IF p \in Di THEN p \in on ELSE AiValue(p, base)]
  BY DEF RegistersInit
<1>2. \A p \in Point : table[p] \in Values(p)
  <2>. SUFFICES ASSUME NEW p \in Point PROVE table[p] \in Values(p)
    OBVIOUS
  <2>1. CASE p \in Di
    <3>1. table[p] = (p \in on)
      BY <1>1, <2>1
    <3>2. table[p] \in BOOLEAN
      BY <3>1
    <3>. QED  BY <2>1, <3>2 DEF Values
  <2>2. CASE p \notin Di
    <3>1. table[p] = AiValue(p, base)
      BY <1>1, <2>2
    <3>. QED  BY <2>2, <3>1 DEF Values
  <2>. QED  BY <2>1, <2>2
<1>3. TableTyped
  BY <1>2, ValuesTyped DEF TableTyped, Point
<1>4. seen = [p \in Point |-> {table[p]}] /\ DOMAIN table = Point /\ DOMAIN master = Point
      /\ toRead = Point
  BY <1>1 DEF RegistersInit
<1>. QED  BY <1>3, <1>4 DEF PollIInv

(* The block that is read leaves only points above it.                       *)
LEMMA ReadKeepsPoll ==
  ASSUME PollIInv, ReadBlock
  PROVE  PollIInv'
<1>. DEFINE func == Min({layout[p].func : p \in toRead})
            coils == func \in {1, 2}
            points == {p \in toRead : layout[p].func = func}
            limit == IF coils THEN MaxDiRead ELSE MaxAiRead
            block == Block(points, limit)
            answer == IF coils THEN DispatchFC01or02(func, block)
                      ELSE DispatchFC03or04(func, block)
<1>1. /\ toRead # {} /\ toRead' = toRead \ block
      /\ master' = [p \in Point |-> IF p \in DOMAIN answer THEN answer[p] ELSE master[p]]
      /\ UNCHANGED <<serial, layout, table, seen>>
  BY DEF ReadBlock
<1>2. Readable(layout, serial) /\ TableTyped /\ toRead \subseteq Point
  BY DEF PollIInv
<1>3. \A p \in Point : layout[p].func \in 1..4 /\ layout[p].addr \in Nat
  BY <1>2, PointFacts
<1>4. func \in 1..4 /\ points # {} /\ points \subseteq Point
      /\ \A p \in toRead : func <= layout[p].func
  <2>. DEFINE F == {layout[p].func : p \in toRead}
  <2>1. F \subseteq Nat /\ F # {}
    BY <1>1, <1>2, <1>3
  <2>2. func \in F /\ \A y \in F : func <= y
    <3>. HIDE DEF F
    <3>1. Min(F) \in F /\ \A y \in F : Min(F) <= y
      BY <2>1, LeastExists
    <3>. QED  BY <3>1 DEF F
  <2>. HIDE DEF func
  <2>3. PICK p \in toRead : layout[p].func = func
    BY <2>2
  <2>. QED  BY <1>2, <1>3, <2>2, <2>3
<1>5. /\ block \subseteq points /\ \A p \in points : BlockStart(block) <= layout[p].addr
      /\ \E p \in block : layout[p].addr = BlockStart(block)
      /\ \A p \in block, q \in points : layout[q].addr <= layout[p].addr => q \in block
  <2>1. Spans(points, block, BlockStart(block), Quantity(block))
    <3>. HIDE DEF points, limit
    <3>. QED  BY <1>2, <1>4, BlockFacts, Zenon
  <2>. HIDE DEF block
  <2>. QED  BY <2>1 DEF Spans
<1>6. /\ \A p \in block : p \in DOMAIN answer /\ answer[p] = table[p]
      /\ \A p \in DOMAIN answer \ block :
           coils /\ serial /\ p \in Di /\ BlockStart(block) <= layout[p].addr
  <2>1. \A p \in points : layout[p].func = func
    OBVIOUS
  <2>2. CASE coils
    <3>1. answer = DispatchFC01or02(func, block) /\ block = Block(points, limit)
      BY <2>2
    <3>. HIDE DEF points, limit, block, answer, func
    <3>. QED  BY <1>2, <1>4, <2>1, <2>2, <3>1, CoilsReadBack
  <2>3. CASE ~coils
    <3>1. answer = DispatchFC03or04(func, block) /\ block = Block(points, limit)
      BY <2>3
    <3>2. func \in {3, 4}
      <4>. HIDE DEF func
      <4>. QED  BY <1>4, <2>3
    <3>. HIDE DEF points, limit, block, answer, func
    <3>3. answer = [p \in block |-> table[p]]
      BY <1>2, <1>4, <2>1, <3>1, <3>2, RegistersReadBack
    <3>. QED  BY <3>3
  <2>. QED  BY <2>2, <2>3
<1>. HIDE DEF block, answer
<1>7. ASSUME NEW p \in Point \ toRead PROVE p \notin DOMAIN answer
  <2>. SUFFICES ASSUME p \in DOMAIN answer PROVE FALSE
    OBVIOUS
  <2>1. p \notin block
    BY <1>2, <1>5
  <2>2. coils /\ serial /\ p \in Di /\ BlockStart(block) <= layout[p].addr
    BY <1>6, <2>1
  <2>3. PICK q \in block : layout[q].addr = BlockStart(block)
    BY <1>5
  <2>4. q \in Point /\ q \in toRead /\ layout[q].func = func
    BY <1>2, <1>5
  <2>. HIDE DEF func, points
  <2>5. \/ layout[p].func < layout[q].func
        \/ layout[p].func = layout[q].func /\ layout[p].addr < layout[q].addr
    BY <2>4 DEF PollIInv
  <2>6. layout[p].func < func
    BY <1>3, <2>2, <2>3, <2>4, <2>5
  <2>7. layout[p].func = 1 /\ func = 2
    BY <1>3, <1>4, <2>2, <2>6
  <2>8. q \in Di
    BY <1>2, <2>4, <2>7, PointFacts DEF Point
  <2>9. layout[p].addr < layout[q].addr
    BY <1>2, <2>2, <2>4, <2>7, <2>8 DEF Readable, SerialReadable
  <2>. QED  BY <1>3, <2>2, <2>3, <2>4, <2>9
<1>8. ASSUME NEW p \in Point \ toRead' PROVE master'[p] \in seen'[p]
  <2>1. CASE p \in block
    <3>1. master'[p] = table[p]
      BY <1>1, <1>6, <2>1
    <3>. QED  BY <1>1, <3>1 DEF PollIInv
  <2>2. CASE p \notin block
    <3>1. p \in Point \ toRead
      BY <1>1, <2>2
    <3>2. master'[p] = master[p]
      BY <1>1, <1>7, <3>1
    <3>. QED  BY <1>1, <3>1, <3>2 DEF PollIInv
  <2>. QED  BY <2>1, <2>2
<1>9. ASSUME NEW p \in Point \ toRead', NEW q \in toRead'
      PROVE  \/ layout[p].func < layout[q].func
             \/ layout[p].func = layout[q].func /\ layout[p].addr < layout[q].addr
  <2>1. q \in toRead /\ q \in Point /\ q \notin block
    BY <1>1, <1>2
  <2>2. CASE p \in block
    <3>1. p \in points /\ p \in Point
      BY <1>4, <1>5, <2>2
    <3>2. layout[p].func = func /\ func <= layout[q].func
      BY <1>4, <2>1, <3>1
    <3>3. layout[q].func = func => ~(layout[q].addr <= layout[p].addr)
      BY <1>5, <2>1, <2>2
    <3>. HIDE DEF func, points
    <3>. QED  BY <1>3, <1>4, <2>1, <3>1, <3>2, <3>3
  <2>3. CASE p \notin block
    <3>1. p \in Point \ toRead
      BY <1>1, <2>3
    <3>. QED  BY <2>1, <3>1 DEF PollIInv
  <2>. QED  BY <2>2, <2>3
<1>10. Readable(layout, serial)' /\ TableTyped'
  <2>1. TableTyped'
    BY <1>1, <1>2 DEF TableTyped
  <2>2. Readable(layout', serial')
    BY <1>1, <1>2
  <2>. QED  BY <2>1, <2>2
<1>11. /\ toRead' \subseteq Point
       /\ DOMAIN table' = Point /\ DOMAIN seen' = Point /\ DOMAIN master' = Point
       /\ \A p \in Point : table'[p] \in seen'[p]
  BY <1>1, <1>2 DEF PollIInv
<1>12. layout' = layout
  BY <1>1
<1>. HIDE DEF func, points, coils
<1>. QED  BY <1>8, <1>9, <1>10, <1>11, <1>12 DEF PollIInv

(* A change of the slave's table adds to what has been seen.                 *)
LEMMA ChangeKeepsPoll ==
  ASSUME PollIInv, NEW p \in Point, ChangeData(p)
  PROVE  PollIInv'
<1>1. PICK v \in Values(p) : table' = [table EXCEPT ![p] = v]
  BY DEF ChangeData
<1>2. /\ seen' = [seen EXCEPT ![p] = @ \cup {table'[p]}]
      /\ UNCHANGED <<serial, layout, master, toRead>>
  BY DEF ChangeData
<1>3. /\ Readable(layout, serial) /\ TableTyped /\ toRead \subseteq Point
      /\ DOMAIN table = Point /\ DOMAIN seen = Point /\ DOMAIN master = Point
      /\ \A q \in Point : table[q] \in seen[q]
      /\ \A q \in Point \ toRead : master[q] \in seen[q]
  BY DEF PollIInv
<1>4. TableTyped'
  <2>1. /\ p \in Di => v \in BOOLEAN
        /\ p \in Ai => v \in [0..(2 * layout[p].regs - 1) -> Byte]
    BY <1>3, ValuesTyped
  <2>2. \A q \in Point : table'[q] = IF q = p THEN v ELSE table[q]
    BY <1>1, <1>3
  <2>3. \A d \in Di : table'[d] \in BOOLEAN
    BY <1>3, <2>1, <2>2 DEF TableTyped, Point
  <2>4. \A a \in Ai : table'[a] \in [0..(2 * layout[a].regs - 1) -> Byte]
    BY <1>3, <2>1, <2>2 DEF TableTyped, Point
  <2>5. layout' = layout
    BY <1>2
  <2>. QED  BY <2>3, <2>4, <2>5 DEF TableTyped
<1>5. /\ DOMAIN table' = Point /\ DOMAIN seen' = Point
      /\ \A q \in Point : seen[q] \subseteq seen'[q] /\ table'[q] \in seen'[q]
  BY <1>1, <1>2, <1>3
<1>6. Readable(layout', serial')
  BY <1>2, <1>3
<1>7. \A x \in Point \ toRead, q \in toRead :
        \/ layout[x].func < layout[q].func
        \/ layout[x].func = layout[q].func /\ layout[x].addr < layout[q].addr
  BY DEF PollIInv
<1>8. \A q \in Point \ toRead : master[q] \in seen'[q]
  BY <1>3, <1>5
<1>. QED  BY <1>2, <1>3, <1>4, <1>5, <1>6, <1>7, <1>8 DEF PollIInv

(* PollDevice and the slave of this program fit together, in every           *)
(* configuration that does not use the same coil, or the same bit of a       *)
(* register, twice: whatever changes during the poll, each point is given a  *)
(* value that it had.                                                        *)
THEOREM ReadBackCorrect == RegistersSpec /\ Readable(layout, serial) => []ReadBack
<1>1. RegistersInit /\ Readable(layout, serial) => PollIInv
  BY PollInitIInv
<1>2. PollIInv /\ [RegistersNext]_registerVars => PollIInv'
  <2>. SUFFICES ASSUME PollIInv, [RegistersNext]_registerVars PROVE PollIInv'
    OBVIOUS
  <2>1. CASE ReadBlock
    BY <2>1, ReadKeepsPoll
  <2>2. CASE \E p \in Point : ChangeData(p)
    BY <2>2, ChangeKeepsPoll
  <2>3. CASE UNCHANGED registerVars
    BY <2>3 DEF registerVars, PollIInv, TableTyped
  <2>. QED  BY <2>1, <2>2, <2>3 DEF RegistersNext
<1>3. PollIInv => ReadBack
  BY DEF PollIInv, ReadBack
<1>. QED  BY <1>1, <1>2, <1>3, PTL DEF RegistersSpec
=============================================================================
