---------------------------- MODULE ServerProofs ----------------------------
(* Two components that MCServers composes.  Stop() of ModbusTcpSlave leaves  *)
(* no thread behind, for every number of listeners and masters and every     *)
(* period of the cleanup; DataRecorder writes one sample per aligned time,   *)
(* for every interval and every course of the clock and of the server.       *)
EXTENDS ModbusTcpSlave, DataRecorder, TLAPS

-----------------------------------------------------------------------------
(* ModbusTcpSlave: the inductive invariant.                                  *)

(* A client in the hands of an accept thread is on its way to clientThreads_;*)
(* the lists of the listener have one entry per socket.                      *)
Listening ==
  /\ acceptor \in [Index -> {"accept", "taken", "ended"}]
  /\ accepted \in [Index -> Master \cup {"none"}]
  /\ \A i \in Index : acceptor[i] = "taken" => accepted[i] \in Master

(* Threads, and which of them clientThreads_ knows: all but those that ended.*)
Working ==
  /\ thread \in [Master -> {"none", "recv", "handle", "ended"}]
  /\ entries \subseteq Master
  /\ \A c \in Master : thread[c] \in {"recv", "handle"} => c \in entries

(* What Stop() has done where it stands.                                     *)
Phases ==
  /\ listens \in BOOLEAN /\ closing \in {"no", "close", "accepts", "clients"}
  /\ listens => closing = "no"
  /\ (~listens /\ closing \in {"no", "clients"}) => sockets = <<>> /\ acceptor = <<>>
  /\ (~listens /\ closing = "no") => entries = {}

SlaveIInv == Listening /\ Working /\ Phases

-----------------------------------------------------------------------------
(* The start.                                                                *)
LEMMA SlaveInitIInv == ModbusInit => SlaveIInv
<1>. SUFFICES ASSUME ModbusInit  PROVE SlaveIInv
  OBVIOUS
<1>1. Index = {}
  BY DEF ModbusInit, Index
<1>2. Listening
  BY <1>1 DEF ModbusInit, Listening
<1>. QED  BY <1>2 DEF ModbusInit, SlaveIInv, Working, Phases

(* The steps of a listener.                                                  *)
LEMMA ListenerStep ==
  ASSUME SlaveIInv, NEW i \in Index, AddThread(i) \/ AcceptEnds(i) \/ \E c \in Master : AcceptMaster(i, c)
  PROVE  SlaveIInv'
<1>t. Listening /\ Working /\ Phases
  BY DEF SlaveIInv
<1>n. sockets # <<>>
  BY DEF Index
<1>1. CASE AddThread(i)
  <2>1. Index' = Index /\ accepted[i] \in Master
    BY <1>1, <1>t DEF AddThread, Index, Listening
  <2>2. Listening'
    BY <1>1, <1>t, <2>1 DEF AddThread, Listening
  <2>3. thread' \in [Master -> {"none", "recv", "handle", "ended"}] /\ entries' \subseteq Master
    BY <1>1, <1>t, <2>1 DEF AddThread, Working
  <2>4. ASSUME NEW c \in Master, thread'[c] \in {"recv", "handle"}
        PROVE  c \in entries'
    BY <1>1, <1>t, <2>1, <2>4 DEF AddThread, Working
  <2>5. Phases'
    BY <1>1, <1>n, <1>t DEF AddThread, Phases
  <2>. QED  BY <2>2, <2>3, <2>4, <2>5 DEF SlaveIInv, Working
<1>2. CASE AcceptEnds(i)
  <2>1. Listening'
    BY <1>2, <1>t DEF AcceptEnds, Listening, Index
  <2>. QED  BY <1>2, <1>n, <1>t, <2>1 DEF AcceptEnds, SlaveIInv, Working, Phases, serving
<1>3. ASSUME NEW c \in Master, AcceptMaster(i, c)
      PROVE  SlaveIInv'
  <2>1. Index' = Index
    BY <1>3 DEF AcceptMaster, Index
  <2>2. \/ /\ acceptor' = [acceptor EXCEPT ![i] = "taken"]
           /\ accepted' = [accepted EXCEPT ![i] = c]
        \/ /\ \/ acceptor' = [acceptor EXCEPT ![i] = "ended"]
              \/ acceptor' = [acceptor EXCEPT ![i] = "accept"]
           /\ accepted' = [accepted EXCEPT ![i] = accepted[i]]
    <3>. DEFINE allowed == binds[i].ip \in {"", From[c]}
    <3>1. CASE listens /\ allowed
      BY <1>3, <3>1 DEF AcceptMaster
    <3>2. CASE listens /\ ~allowed
      BY <1>3, <3>2 DEF AcceptMaster
    <3>3. CASE ~listens
      <4>1. acceptor' = [acceptor EXCEPT ![i] = "ended"]
        BY <1>3, <3>3 DEF AcceptMaster
      <4>2. accepted' = [accepted EXCEPT ![i] = accepted[i]]
        BY <1>3, <3>3 DEF AcceptMaster
      <4>. QED  BY <4>1, <4>2
    <3>. QED  BY <3>1, <3>2, <3>3
  <2>3. Listening'
    BY <1>t, <2>1, <2>2 DEF Listening
  <2>. QED  BY <1>3, <1>n, <1>t, <2>3 DEF AcceptMaster, SlaveIInv, Working, Phases
<1>. QED  BY <1>1, <1>2, <1>3

(* The steps of a client's thread, and of the client.                        *)
LEMMA ClientStep ==
  ASSUME SlaveIInv, NEW c \in Master, Serve(c) \/ MasterCloses(c) \/ \E r \in Frames : ReceiveFrame(c, r)
  PROVE  SlaveIInv'
<1>t. Listening /\ Working /\ Phases
  BY DEF SlaveIInv
<1>1. UNCHANGED <<sockets, acceptor, accepted, listens, closing, entries>>
  BY DEF Serve, HandleRequest, LoseMaster, MasterCloses, ReceiveFrame, listening
<1>2. Listening' /\ Phases'
  BY <1>t, <1>1 DEF Listening, Phases, Index
<1>3. /\ thread' \in [Master -> {"none", "recv", "handle", "ended"}]
      /\ \A d \in Master : thread'[d] \in {"recv", "handle"} => thread[d] \in {"recv", "handle"}
  BY <1>t DEF Working, Serve, HandleRequest, LoseMaster, MasterCloses, ReceiveFrame
<1>. QED  BY <1>t, <1>1, <1>2, <1>3 DEF SlaveIInv, Working

(* LoadConfig, Start and Stop.                                               *)
LEMMA ServerStep ==
  ASSUME SlaveIInv,
         (\E f \in Files : LoadConfig(f)) \/ (\E free : Start(free)) \/ BeginStop \/ GoOnStopping
  PROVE  SlaveIInv'
<1>t. Listening /\ Working /\ Phases
  BY DEF SlaveIInv
<1>1. ASSUME NEW f \in Files, LoadConfig(f)
      PROVE  SlaveIInv'
  BY <1>1, <1>t DEF LoadConfig, listening, serving, SlaveIInv, Listening, Index, Working, Phases
<1>2. ASSUME NEW free, Start(free)
      PROVE  SlaveIInv'
  <2>1. Listening'
    BY <1>2 DEF Start, Listening, Index
  <2>2. ~listens' => acceptor' = <<>>
    <3>. SUFFICES ASSUME ~listens'  PROVE acceptor' = <<>>
      OBVIOUS
    <3>1. sockets' = <<>>
      BY <1>2 DEF Start
    <3>2. acceptor' = [j \in 1 .. Len(sockets') |-> "accept"]
      BY <1>2 DEF Start
    <3>. QED  BY <3>1, <3>2
  <2>. QED  BY <1>2, <1>t, <2>1, <2>2 DEF Start, serving, SlaveIInv, Working, Phases
<1>3. CASE BeginStop \/ StopClose
  <2>1. UNCHANGED <<sockets, acceptor, accepted, thread, entries>> /\ listens' = FALSE
        /\ closing' \in {"close", "accepts"}
    BY <1>3, <1>t DEF BeginStop, StopClose, listening, serving, Phases
  <2>2. Listening'
    BY <1>t, <2>1 DEF Listening, Index
  <2>3. Working'
    BY <1>t, <2>1 DEF Working
  <2>4. Phases'
    BY <2>1 DEF Phases
  <2>. QED  BY <2>2, <2>3, <2>4 DEF SlaveIInv
<1>4. CASE StopAccepts
  <2>1. Listening'
    BY <1>4 DEF StopAccepts, Listening, Index
  <2>. QED  BY <1>4, <1>t, <2>1 DEF StopAccepts, serving, SlaveIInv, Working, Phases
<1>5. CASE JoinClients
  <2>1. \A c \in Master : thread[c] \notin {"recv", "handle"}
    BY <1>5, <1>t DEF JoinClients, Working
  <2>. QED  BY <1>5, <1>t, <2>1 DEF JoinClients, listening, SlaveIInv, Listening, Index, Working, Phases
<1>. QED  BY <1>1, <1>2, <1>3, <1>4, <1>5 DEF GoOnStopping

-----------------------------------------------------------------------------
(* The inductive invariant of the slave holds in every reachable state.      *)
THEOREM SlaveInvariance == ModbusSpec => []SlaveIInv
<1>1. SlaveIInv /\ UNCHANGED modbusVars => SlaveIInv'
  BY DEF modbusVars, listening, serving, SlaveIInv, Listening, Index, Working, Phases
<1>2. SlaveIInv /\ [ModbusNext]_modbusVars => SlaveIInv'
  BY <1>1, ListenerStep, ClientStep, ServerStep DEF ModbusNext
<1>. QED  BY SlaveInitIInv, <1>2, PTL DEF ModbusSpec

(* After Stop() no thread of the slave is left: the cleanup of every tenth   *)
(* accept forgets only threads that ended, a connection accepted while Stop()*)
(* ran is in clientThreads_ before its accept thread is joined, and nobody   *)
(* is added once the accept threads are.                                     *)
THEOREM NothingLeftCorrect == ModbusSpec => []NothingLeft
<1>1. SlaveIInv => NothingLeft
  BY DEF SlaveIInv, Working, Phases, NothingLeft
<1>. QED  BY <1>1, SlaveInvariance, PTL

-----------------------------------------------------------------------------
(* DataRecorder: the inductive invariant.                                    *)

(* Before the first Start() there is no timer thread; times are numbers, and *)
(* ai_log has a number of rows for every aligned time.                       *)
Recording ==
  /\ starts \in Nat /\ now \in Nat /\ lastSave \in Nat
  /\ again \in BOOLEAN
  /\ samples \in [Slot(Interval)..Slot(MaxNow) -> Nat]
  /\ starts = 0 => timer = "ended" /\ module = "stopped" /\ lastSave = 0

(* The rows end at the aligned time of the last sample, while the clock has  *)
(* only gone forward since lastSaveMs was set.                               *)
Aligned ==
  ~again => /\ lastSave <= now
            /\ \A s \in DOMAIN samples : /\ samples[s] <= 1
                                         /\ s > Slot(lastSave) => samples[s] = 0

(* As long as the recorder has not been started no row has been written.     *)
NoRows == starts = 0 => \A s \in DOMAIN samples : samples[s] = 0

RecorderIInv == Recording /\ Aligned /\ NoRows

-----------------------------------------------------------------------------
(* An interval later is a later aligned time.                                *)
LEMMA SlotGrows ==
  ASSUME NEW a \in Nat, NEW b \in Nat, b - a >= Interval
  PROVE  Slot(a) \in Nat /\ Slot(b) \in Nat /\ Slot(b) > Slot(a)
<1>. DEFINE p == a \div Interval
            q == b \div Interval
<1>i. Interval \in Nat /\ Interval > 0
  BY RecorderAssumption
<1>1. /\ p \in Nat /\ q \in Nat
      /\ a >= Interval * p /\ b < Interval * (q + 1)
  BY <1>i
<1>2. q > p
  <2>. HIDE DEF p, q
  <2>. SUFFICES ASSUME q <= p  PROVE FALSE
    BY <1>1
  <2>1. Interval * (q + 1) <= Interval * (p + 1)
    BY <1>1, <1>i
  <2>2. Interval * (p + 1) = Interval * p + Interval
    BY <1>1, <1>i
  <2>3. b < a + Interval
    BY <1>1, <1>i, <2>1, <2>2
  <2>. QED  BY <1>i, <2>3
<1>. QED  BY <1>1, <1>2 DEF Slot

(* The start.                                                                *)
LEMMA RecorderInitIInv == RecorderInit => RecorderIInv
<1>. SUFFICES ASSUME RecorderInit  PROVE RecorderIInv
  OBVIOUS
<1>1. Recording
  BY RecorderAssumption DEF RecorderInit, Recording
<1>2. \A s \in DOMAIN samples : samples[s] = 0
  BY DEF RecorderInit
<1>3. lastSave <= now
  BY RecorderAssumption DEF RecorderInit
<1>. QED  BY <1>1, <1>2, <1>3 DEF RecorderIInv, Aligned, NoRows

(* A start writes no row: only the first one leaves again FALSE, and there   *)
(* are no rows before it.                                                    *)
LEMMA StartKeepsAligned ==
  ASSUME RecorderIInv, NEW outcome, StartRecorder(outcome)
  PROVE  RecorderIInv'
<1>. USE DEF RecorderIInv
<1>1. /\ starts' = starts + 1 /\ lastSave' = 0 /\ again' = (starts > 0)
      /\ UNCHANGED <<now, samples>>
  BY DEF StartRecorder, ParseConfig
<1>2. Recording'
  BY <1>1 DEF Recording
<1>3. Aligned'
  <2>. SUFFICES ASSUME ~again'  PROVE Aligned'
    BY DEF Aligned
  <2>1. starts = 0
    <3>. SUFFICES ASSUME starts > 0  PROVE FALSE
      BY DEF Recording
    <3>1. again' = TRUE
      BY <1>1
    <3>. QED  BY <3>1
  <2>2. \A s \in DOMAIN samples : samples[s] = 0
    BY <2>1 DEF NoRows
  <2>. QED  BY <1>1, <2>2 DEF Aligned, Recording
<1>4. NoRows'
  BY <1>1 DEF NoRows, Recording
<1>. QED  BY <1>2, <1>3, <1>4

(* A sample is written for an aligned time after the last one.               *)
LEMMA WriteKeepsAligned ==
  ASSUME RecorderIInv, WriteAI
  PROVE  RecorderIInv'
<1>. USE DEF RecorderIInv
<1>1. UNCHANGED <<starts, now, again, module>> /\ timer = "write" /\ timer' = "sweep"
  BY DEF WriteAI, control, limits
<1>0. starts # 0
  BY <1>1 DEF Recording
<1>2. CASE UNCHANGED <<samples, lastSave>>
  BY <1>1, <1>0, <1>2 DEF Recording, Aligned, NoRows
<1>3. CASE /\ Elapsed >= Interval /\ lastSave' = now
           /\ samples' \in {[samples EXCEPT ![Slot(now)] = @ + 1], samples}
  <2>1. Recording'
    <3>1. samples' \in [Slot(Interval)..Slot(MaxNow) -> Nat]
      BY <1>3 DEF Recording
    <3>. QED  BY <1>0, <1>1, <1>3, <3>1 DEF Recording
  <2>2. Aligned'
    <3>. SUFFICES ASSUME ~again  PROVE Aligned'
      BY <1>1 DEF Aligned
    <3>1. lastSave <= now /\ now - lastSave >= Interval
      BY <1>3 DEF Aligned, Elapsed, Recording
    <3>2. Slot(lastSave) \in Nat /\ Slot(now) \in Nat /\ Slot(now) > Slot(lastSave)
      BY <3>1, SlotGrows DEF Recording
    <3>3. ASSUME NEW s \in DOMAIN samples
          PROVE  samples'[s] <= 1 /\ (s > Slot(now) => samples'[s] = 0)
      <4>1. s \in Int /\ samples[s] \in Nat /\ samples[s] <= 1
        BY <3>3 DEF Aligned, Recording, Slot
      <4>2. s > Slot(lastSave) => samples[s] = 0
        BY <3>3 DEF Aligned
      <4>3. CASE samples' = samples
        BY <3>2, <4>1, <4>2, <4>3
      <4>4. CASE samples' = [samples EXCEPT ![Slot(now)] = @ + 1]
        <5>1. CASE s = Slot(now)
          BY <3>2, <3>3, <4>1, <4>2, <4>4, <5>1
        <5>2. CASE s # Slot(now)
          BY <3>2, <3>3, <4>1, <4>2, <4>4, <5>2
        <5>. QED  BY <5>1, <5>2
      <4>. QED  BY <1>3, <4>3, <4>4
    <3>4. DOMAIN samples' = DOMAIN samples
      BY <1>3
    <3>. QED  BY <1>1, <1>3, <3>3, <3>4 DEF Aligned, Recording, Slot
  <2>3. NoRows'
    BY <1>0, <1>1 DEF NoRows
  <2>. QED  BY <2>1, <2>2, <2>3
<1>4. Elapsed \in Int
  BY RecorderAssumption DEF Elapsed, Recording
<1>5. CASE mysql = 0 \/ Elapsed < Interval
  BY <1>2, <1>5 DEF WriteAI
<1>6. CASE mysql # 0 /\ Elapsed >= Interval
  BY <1>3, <1>4, <1>6, RecorderAssumption DEF WriteAI
<1>. QED  BY <1>4, <1>5, <1>6, RecorderAssumption

(* The clock goes forward, or again says that it was set back.               *)
LEMMA ClockKeepsAligned ==
  ASSUME RecorderIInv, Clock \/ ClockSetBack
  PROVE  RecorderIInv'
<1>. USE DEF RecorderIInv
<1>1. UNCHANGED <<starts, timer, module, lastSave, samples>>
  BY DEF Clock, ClockSetBack, control, limits
<1>2. now' \in Nat
  BY RecorderAssumption DEF Recording, Clock, ClockSetBack
<1>3. again' \in BOOLEAN
  BY DEF Recording, Clock, ClockSetBack
<1>4. Recording' /\ NoRows'
  BY <1>1, <1>2, <1>3 DEF Recording, NoRows
<1>5. Aligned'
  <2>1. CASE Clock
    BY <1>1, <2>1 DEF Clock, Aligned, Recording
  <2>2. CASE ClockSetBack
    BY <2>2 DEF ClockSetBack, Aligned
  <2>. QED  BY <2>1, <2>2
<1>. QED  BY <1>4, <1>5

(* Every other step leaves clock and rows alone; the timer thread runs only  *)
(* in a recorder that has been started.                                      *)
LEMMA OthersKeepAligned ==
  ASSUME RecorderIInv,
         \/ RecorderTimer /\ ~WriteAI
         \/ Publisher \/ Publish \/ StopBegins \/ StopEnds \/ ServerFails \/ ServerComesBack
         \/ UNCHANGED recorderVars
  PROVE  RecorderIInv'
<1>. USE DEF RecorderIInv
<1>1. UNCHANGED <<starts, now, lastSave, samples, again>>
  BY DEF RecorderTimer, Tick, Check, Connect, ConnectFails, CloseOld, CreateTables,
         DropOldTables, SkipSweep, Publisher, Lock, Load, Query, Publish, StopBegins, StopEnds,
         ServerFails, ServerComesBack, recorderVars, sampling, limits
<1>2. starts = 0 => UNCHANGED <<timer, module>>
  BY DEF Recording, RecorderTimer, Tick, Check, Connect, ConnectFails, CloseOld, CreateTables,
         DropOldTables, SkipSweep, Publisher, Lock, Load, Query, Publish, StopBegins, StopEnds,
         ServerFails, ServerComesBack, recorderVars, control
<1>. QED  BY <1>1, <1>2 DEF Recording, Aligned, NoRows

-----------------------------------------------------------------------------
(* The inductive invariant of the recorder holds in every reachable state.   *)
THEOREM RecorderInvariance == RecorderSpec => []RecorderIInv
<1>1. RecorderIInv /\ [RecorderNext]_recorderVars => RecorderIInv'
  BY StartKeepsAligned, WriteKeepsAligned, ClockKeepsAligned, OthersKeepAligned
     DEF RecorderNext
<1>. QED  BY RecorderInitIInv, <1>1, PTL DEF RecorderSpec

(* An aligned time has one row of ai_log at most: a sample is due an         *)
(* interval after the last one, which is in a later slot, and the rows end   *)
(* with the slot of the last sample, over failures of the server, lost       *)
(* connections and the stop of the module.                                   *)
THEOREM OnePerSlotCorrect == RecorderSpec => []OnePerSlot
<1>1. RecorderIInv => OnePerSlot
  BY DEF RecorderIInv, Recording, Aligned, OnePerSlot
<1>. QED  BY <1>1, RecorderInvariance, PTL
=============================================================================
