-------------------------- MODULE ModbusTcpMaster --------------------------
(***************************************************************************)
(* The write side of the Modbus TCP master (src/src/modbus_tcp_master.cxx):*)
(* one ChannelThread per channel, each with its own connection, brings DO  *)
(* commands and AO set points of the data manager to the coils and         *)
(* registers of its devices, and switches pulsed outputs back.  doSent_,   *)
(* aoSent_ and pulseQueue_ are shared by the channels.                     *)
(*                                                                         *)
(* pc[c], where the thread of channel c stands:                            *)
(*   "down"     not connected                                              *)
(*   "scan"     WriteDOChanges / WriteAOChanges, points todo[c] to look at *)
(*   "send"     a changed point's frame and its answer                     *)
(*   "record", "reset", "resetSent", "schedule"   after a good answer      *)
(*   "pulses", "pulse"  ProcessPulseQueue, before and under pulseMtx_      *)
(*   "sleep"    between two scans, the next one begins with PollDevice     *)
(*   "ended"    the thread has returned                                    *)
(* A value is a Nat: a DO is 0 (off) or 1, an AO a register value.         *)
(***************************************************************************)
EXTENDS Naturals, Sequences, SequencesExt

CONSTANTS
  Point,         \* the DO and AO points that are mapped to a device
  Channel,       \* the channels
  ChannelOf,     \* ChannelOf[p]: the channel whose thread writes p
  Address,       \* Address[p]: station, function and register of p
  IsAo,          \* IsAo[p]: p is an AO, else a DO
  Invert,        \* Invert[p]: invert=1 of a DO
  Pulsed,        \* Pulsed[p]: pulse_ms > 0
  Faults,        \* what an exchange may end with besides "ok"
  Commanded,     \* Commanded[p]: the values operators command p to
  EarlyCommands, \* commands may come before the channel has connected
  MaxValue,      \* bound: the values of an AO
  MaxCommands,   \* bound: commands to one point
  MaxPulses,     \* bound: entries of pulseQueue_; reached only if there may be
                 \* more commands to pulsed points than that
  MaxReload      \* bound: Stop / Start cycles

Value     == 0 .. MaxValue
Unset     == MaxValue + 1        \* no entry in doSent_ / aoSent_
Addresses == {Address[p] : p \in Point}
Mapped(c) == {p \in Point : ChannelOf[p] = c}
NoChannel == "none"

ASSUME MappingAssumption ==
  /\ Point # {}
  /\ ChannelOf \in [Point -> Channel]
  /\ {IsAo, Invert, Pulsed} \subseteq [Point -> BOOLEAN]
  /\ \A p \in Point : IsAo[p] => ~Invert[p]
  /\ DOMAIN Address = Point
  /\ \A p, q \in Point : p # q => Address[p] # Address[q] \/ ChannelOf[p] # ChannelOf[q]
  /\ NoChannel \notin Channel
  /\ DOMAIN Commanded = Point
  /\ \A p \in Point : Commanded[p] \subseteq (IF IsAo[p] THEN Value ELSE {0, 1})

ASSUME LimitAssumption ==
  /\ Faults \subseteq {"refused", "eof", "error"} /\ EarlyCommands \in BOOLEAN
  /\ MaxValue \in Nat \ {0}
  /\ MaxCommands \in Nat /\ MaxPulses \in Nat /\ MaxReload \in Nat

VARIABLES
  target,     \* masterVal of a DO, value of an AO in the data manager
  sent,       \* doSent_ and aoSent_
  output,     \* output[c][a]: the coil or register behind connection c
  running,    \* running_
  pc, todo,
  cur,        \* the point and the value a thread is writing
  link,       \* link[c]: "up", or "eof" once the device has closed it
  pulseQueue, \* pulseQueue_; due once now >= readyAtMs
  pulseMtx,   \* holder of pulseMtx_
  pos,        \* the index i of ProcessPulseQueue
  asked,      \* history: commands to each point
  confirmed,  \* history: writes a device has confirmed
  reloads

threads == <<pc, todo, cur, link>>
pulses  == <<pulseQueue, pulseMtx, pos>>
history == <<asked, confirmed>>
vars    == <<target, sent, output, running, threads, pulses, history, reloads>>

PC == {"down", "scan", "send", "record", "reset", "resetSent", "schedule",
       "pulses", "pulse", "sleep", "ended"}
PulseEntry == [channel : Channel, address : Addresses, value : Value, due : BOOLEAN]

Goto(c, l) == pc' = [pc EXCEPT ![c] = l]

\* The value to be written for p: invert=1 turns a DO around.
Current(p) == IF Invert[p] THEN 1 - target[p] ELSE target[p]

-----------------------------------------------------------------------------
(* The connection *)

\* Mutant: a reconnect forgets what was sent before it.
ConnectAssigns(c) ==
  /\ pc[c] = "down" /\ running
  /\ sent' = [p \in Point |-> IF p \in Mapped(c) THEN Current(p) ELSE sent[p]]
  /\ link' = [link EXCEPT ![c] = "up"]
  /\ Goto(c, "scan") /\ todo' = [todo EXCEPT ![c] = Mapped(c)]
  /\ UNCHANGED <<target, output, running, cur, pulses, history, reloads>>

\* Mutant: the first connection writes every point.
ConnectUnfilled(c) ==
  /\ pc[c] = "down" /\ running
  /\ link' = [link EXCEPT ![c] = "up"]
  /\ Goto(c, "scan") /\ todo' = [todo EXCEPT ![c] = Mapped(c)]
  /\ UNCHANGED <<target, sent, output, running, cur, pulses, history, reloads>>

\* A connection is made; points never written count as written (emplace).
Connect(c) ==
  /\ pc[c] = "down" /\ running
  /\ sent' = [p \in Point |-> IF p \in Mapped(c) /\ sent[p] = Unset THEN Current(p) ELSE sent[p]]
  /\ link' = [link EXCEPT ![c] = "up"]
  /\ Goto(c, "scan") /\ todo' = [todo EXCEPT ![c] = Mapped(c)]
  /\ UNCHANGED <<target, output, running, cur, pulses, history, reloads>>

\* A frame that writes v to address a on connection c and the answer r:
\* "refused" is an exception code, "eof" a recv of 0 bytes, "error" a
\* socket_error (a timeout is one).  When the answer is missing the device may
\* or may not have obeyed; a station that is not there never does.
Exchange(c, a, v, r) ==
  LET present == \E p \in Mapped(c) : Address[p] = a
      obeyed  == [output EXCEPT ![c][a] = v]
  IN
  /\ IF ~present THEN r \in {"refused", "error"} ELSE r \in {"ok"} \cup Faults
  /\ link[c] = "eof" => r \in {"eof", "error"}
  /\ CASE r = "ok"                                        -> output' = obeyed
       [] r \in {"eof", "error"} /\ present /\ link[c] = "up" -> output' \in {output, obeyed}
       [] OTHER                                           -> output' = output
  /\ link' = [link EXCEPT ![c] = IF r = "eof" THEN "eof" ELSE @]

-----------------------------------------------------------------------------
(* WriteDOChanges and WriteAOChanges *)

\* A point is read and compared with what was sent; the device list is left
\* in the middle when running_ is cleared.
Scan(c) ==
  /\ pc[c] = "scan"
  /\ \E p \in todo[c] :
       /\ todo' = [todo EXCEPT ![c] = @ \ {p}]
       /\ IF sent[p] = Current(p)
          THEN UNCHANGED <<pc, cur>>
          ELSE Goto(c, "send") /\ cur' = [cur EXCEPT ![c] = [point |-> p, value |-> Current(p)]]
  /\ UNCHANGED <<target, sent, output, running, link, pulses, history, reloads>>

EndScan(c) ==
  /\ pc[c] = "scan" /\ (todo[c] = {} \/ ~running)
  /\ Goto(c, "pulses") /\ todo' = [todo EXCEPT ![c] = {}]
  /\ UNCHANGED <<target, sent, output, running, cur, link, pulses, history, reloads>>

Send(c, r) ==
  LET p == cur[c].point IN
  /\ pc[c] = "send"
  /\ Exchange(c, Address[p], cur[c].value, r)
  /\ Goto(c, CASE r = "ok" -> "record" [] r = "error" -> "down" [] OTHER -> "scan")
  /\ confirmed' = [confirmed EXCEPT ![p] = IF r = "ok" /\ @ <= MaxCommands THEN @ + 1 ELSE @]
  /\ UNCHANGED <<target, sent, running, todo, cur, pulses, asked, reloads>>

\* Mutant: before the module kept doSent_, nothing was recorded here.
RecordNothing(c) ==
  /\ pc[c] = "record"
  /\ Goto(c, IF ~IsAo[cur[c].point] /\ cur[c].value = 1 THEN "reset" ELSE "schedule")
  /\ UNCHANGED <<target, sent, output, running, todo, cur, link, pulses, history, reloads>>

Record(c) ==
  /\ pc[c] = "record"
  /\ sent' = [sent EXCEPT ![cur[c].point] = cur[c].value]
  /\ Goto(c, IF ~IsAo[cur[c].point] /\ cur[c].value = 1 THEN "reset" ELSE "schedule")
  /\ UNCHANGED <<target, output, running, todo, cur, link, pulses, history, reloads>>

\* Mutant: the command is left standing in the data manager.
ResetNothing(c) ==
  /\ pc[c] = "reset"
  /\ Goto(c, "resetSent")
  /\ UNCHANGED <<target, sent, output, running, todo, cur, link, pulses, history, reloads>>

\* An executed ON is taken back: SetDoMaster(false), then doSent_ = false.
Reset(c) ==
  /\ pc[c] = "reset"
  /\ target' = [target EXCEPT ![cur[c].point] = 0]
  /\ Goto(c, "resetSent")
  /\ UNCHANGED <<sent, output, running, todo, cur, link, pulses, history, reloads>>

ResetSent(c) ==
  /\ pc[c] = "resetSent"
  /\ sent' = [sent EXCEPT ![cur[c].point] = 0]
  /\ Goto(c, "schedule")
  /\ UNCHANGED <<target, output, running, todo, cur, link, pulses, history, reloads>>

\* Mutant: the value is written once more instead of taken back.
PulseBackSame(p, v) == v

\* Mutant: an AO is treated like a DO.
PulseBackOpposite(p, v) == 1 - v

\* What a pulsed point is set back to: a DO to the opposite, an AO to 0.
PulseBack(p, v) == IF IsAo[p] THEN 0 ELSE 1 - v

Schedule(c) ==
  LET p == cur[c].point IN
  /\ pc[c] = "schedule"
  /\ IF Pulsed[p]
     THEN /\ pulseMtx = NoChannel /\ Len(pulseQueue) < MaxPulses
          /\ pulseQueue' = Append(pulseQueue,
               [channel |-> c, address |-> Address[p], value |-> PulseBack(p, cur[c].value),
                due |-> FALSE])
     ELSE UNCHANGED pulseQueue
  /\ Goto(c, "scan")
  /\ UNCHANGED <<target, sent, output, running, todo, cur, link, pulseMtx, pos, history, reloads>>

-----------------------------------------------------------------------------
(* ProcessPulseQueue *)

\* The empty queue is seen without the mutex.
EnterPulses(c) ==
  /\ pc[c] = "pulses"
  /\ IF pulseQueue = <<>>
     THEN Goto(c, "sleep") /\ UNCHANGED <<pulseMtx, pos>>
     ELSE /\ pulseMtx = NoChannel /\ pulseMtx' = c
          /\ pos' = [pos EXCEPT ![c] = 1]
          /\ Goto(c, "pulse")
  /\ UNCHANGED <<target, sent, output, running, todo, cur, link, pulseQueue, history, reloads>>

InQueue(c) == pc[c] = "pulse" /\ pos[c] <= Len(pulseQueue)

SkipPulse(c) ==
  /\ InQueue(c) /\ ~pulseQueue[pos[c]].due
  /\ pos' = [pos EXCEPT ![c] = @ + 1]
  /\ UNCHANGED <<target, sent, output, running, threads, pulseQueue, pulseMtx, history, reloads>>

\* A due entry goes out on the socket of the thread that found it, whatever
\* channel made it, under pulseMtx_; only an exception keeps it in the queue.
SendPulse(c, r) ==
  LET e == pulseQueue[pos[c]] IN
  /\ InQueue(c) /\ e.due
  /\ Exchange(c, e.address, e.value, r)
  /\ IF r = "error"
     THEN Goto(c, "down") /\ pulseMtx' = NoChannel /\ UNCHANGED pulseQueue
     ELSE pulseQueue' = RemoveAt(pulseQueue, pos[c]) /\ UNCHANGED <<pc, pulseMtx>>
  /\ UNCHANGED <<target, sent, running, todo, cur, pos, history, reloads>>

LeavePulses(c) ==
  /\ pc[c] = "pulse" /\ pos[c] > Len(pulseQueue)
  /\ pulseMtx' = NoChannel
  /\ Goto(c, "sleep")
  /\ UNCHANGED <<target, sent, output, running, todo, cur, link, pulseQueue, pos, history, reloads>>

\* readyAtMs of an entry passes.
PulseDue ==
  /\ \E i \in 1 .. Len(pulseQueue) :
       ~pulseQueue[i].due /\ pulseQueue' = [pulseQueue EXCEPT ![i].due = TRUE]
  /\ UNCHANGED <<target, sent, output, running, threads, pulseMtx, pos, history, reloads>>

-----------------------------------------------------------------------------
(* The rest of ChannelThread, Start and Stop, and the operator *)

\* PollDevice opens the next scan: a socket_error there ends the connection.
NextScan(c) ==
  /\ pc[c] = "sleep" /\ running /\ link[c] = "up"
  /\ Goto(c, "scan") /\ todo' = [todo EXCEPT ![c] = Mapped(c)]
  /\ UNCHANGED <<target, sent, output, running, cur, link, pulses, history, reloads>>

PollFails(c) ==
  /\ pc[c] = "sleep" /\ running /\ (link[c] = "eof" \/ "error" \in Faults)
  /\ Goto(c, "down")
  /\ UNCHANGED <<target, sent, output, running, todo, cur, link, pulses, history, reloads>>

EndThread(c) ==
  /\ pc[c] \in {"down", "sleep"} /\ ~running
  /\ Goto(c, "ended")
  /\ UNCHANGED <<target, sent, output, running, todo, cur, link, pulses, history, reloads>>

\* Stop() clears running_ and joins the threads ...
Stop ==
  /\ running /\ reloads < MaxReload
  /\ running' = FALSE /\ reloads' = reloads + 1
  /\ UNCHANGED <<target, sent, output, threads, pulses, history>>

\* ... then the tables; Start() begins again with new threads.
Restart ==
  /\ ~running /\ \A c \in Channel : pc[c] = "ended"
  /\ running' = TRUE
  /\ sent' = [p \in Point |-> Unset]
  /\ pulseQueue' = <<>>
  /\ pc' = [c \in Channel |-> "down"]
  /\ UNCHANGED <<target, output, todo, cur, link, pulseMtx, pos, history, reloads>>

\* SetDoMaster or SetAo by a slave protocol, PEMP or the debug console.
Command(p, v) ==
  /\ asked[p] < MaxCommands /\ (EarlyCommands \/ sent[p] # Unset)
  /\ v \in Commanded[p]
  /\ target' = [target EXCEPT ![p] = v]
  /\ asked' = [asked EXCEPT ![p] = @ + 1]
  /\ UNCHANGED <<sent, output, running, threads, pulses, confirmed, reloads>>

-----------------------------------------------------------------------------
Init ==
  /\ target = [p \in Point |-> 0]
  /\ sent = [p \in Point |-> Unset]
  /\ output = [c \in Channel |-> [a \in Addresses |-> 0]]
  /\ running = TRUE
  /\ pc = [c \in Channel |-> "down"] /\ todo = [c \in Channel |-> {}]
  /\ cur = [c \in Channel |-> [point |-> CHOOSE p \in Point : TRUE, value |-> 0]]
  /\ link = [c \in Channel |-> "up"]
  /\ pulseQueue = <<>> /\ pulseMtx = NoChannel /\ pos = [c \in Channel |-> 1]
  /\ asked = [p \in Point |-> 0] /\ confirmed = [p \in Point |-> 0]
  /\ reloads = 0

Results == {"ok", "refused", "eof", "error"}

ThreadStep(c) ==
  \/ Connect(c) \/ Scan(c) \/ EndScan(c)
  \/ \E r \in Results : Send(c, r) \/ SendPulse(c, r)
  \/ Record(c) \/ Reset(c) \/ ResetSent(c) \/ Schedule(c)
  \/ EnterPulses(c) \/ SkipPulse(c) \/ LeavePulses(c)
  \/ NextScan(c) \/ PollFails(c) \/ EndThread(c)

Next ==
  \/ \E c \in Channel : ThreadStep(c)
  \/ PulseDue \/ Stop \/ Restart
  \/ \E p \in Point, v \in Value : Command(p, v)

Spec == Init /\ [][Next]_vars

\* The channel threads are scheduled, time passes, a Stop of a reload is
\* followed by its Start, a mutex asked for again and again is got, and a
\* device asked again and again answers in the end.
Fairness ==
  /\ \A c \in Channel : /\ WF_vars(ThreadStep(c))
                        /\ SF_vars(EnterPulses(c)) /\ SF_vars(Schedule(c))
                        /\ SF_vars(Send(c, "ok")) /\ SF_vars(SendPulse(c, "ok"))
                        /\ SF_vars(NextScan(c))
                        /\ WF_vars(EndScan(c))
  /\ WF_vars(PulseDue) /\ WF_vars(Restart)

FairSpec == Spec /\ Fairness
-----------------------------------------------------------------------------
(* Properties *)

PointTypes ==
  /\ target \in [Point -> Value] /\ sent \in [Point -> Value \cup {Unset}]
  /\ output \in [Channel -> [Addresses -> Value]]
  /\ asked \in [Point -> 0 .. MaxCommands]
  /\ confirmed \in [Point -> 0 .. MaxCommands + 1]

ThreadTypes ==
  /\ running \in BOOLEAN /\ reloads \in 0 .. MaxReload
  /\ pc \in [Channel -> PC] /\ todo \in [Channel -> SUBSET Point]
  /\ cur \in [Channel -> [point : Point, value : Value]]
  /\ link \in [Channel -> {"up", "eof"}]

PulseTypes ==
  /\ pulseQueue \in Seq(PulseEntry) /\ pulseMtx \in Channel \cup {NoChannel}
  /\ pos \in [Channel -> Nat]

TypeOK == PointTypes /\ ThreadTypes /\ PulseTypes

\* A frame is built only when the value changes (doSent_, aoSent_): a device
\* confirms no more writes of a point than there were commands to it, over
\* lost connections, retries and reloads.
NoRepeat == \A p \in Point : confirmed[p] <= asked[p]

Out(p) == output[ChannelOf[p]][Address[p]]

\* An ON command is executed and taken back, it is not left standing.
OnConsumed == \A p \in Point : ~IsAo[p] /\ ~Invert[p] => (target[p] = 1 ~> target[p] = 0)

\* Write-back of AO: once set, the register ends with the set point's value.
AoFollows ==
  \A p \in Point : IsAo[p] /\ ~Pulsed[p] => <>[](asked[p] > 0 => Out(p) = target[p])

\* pulse_ms: an output switched on by a pulsed point is switched off again.
PulseEnds == \A p \in Point : Pulsed[p] => (Out(p) # 0 ~> Out(p) = 0)
=============================================================================
