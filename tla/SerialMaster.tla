---------------------------- MODULE SerialMaster ---------------------------
(* A port of a master that polls stations on a serial line, physical or a    *)
(* TCP serial server, one request at a time, through CommIO (comm_io.h):     *)
(*   "rtu"     Modbus RTU (modbus_rtu_master.cxx)                            *)
(*   "dlt645"  DL/T 645 (dlt645_master.cxx)                                  *)
(*   "iec101"  IEC 60870-5-101 (iec101_master.cxx), a read is a GI           *)
(*   "iec103"  IEC 60870-5-103 (iec103_master.cxx)                           *)
(* The stations are this program's RTU slave (modbus_rtu_slave.cxx) and IEC  *)
(* 101 slave (iec101_slave.cxx), or devices of other makers.                 *)
(*                                                                           *)
(* A request is a read or the name of a coil (FC05).  The thread:            *)
(*   "open" -> "loop" -> "wait" (a request is on the line) -> "loop" ... and *)
(*   after a confirmed ON "takeback" -> "loop"; "stopped" by Stop().         *)
(* What comes after the timeout, or is not read to its end, stays on the     *)
(* line and is read as the answer to a later request.                        *)
EXTENDS Naturals, Sequences, FiniteSets, SequencesExt

CONSTANTS
  Protocols,      \* of the ports: "rtu", "dlt645", "iec101", "iec103"
  Reads, Coils,   \* requests of a pass, reads before writes
  Foreign,        \* those that name a station or a coil the slave has not
  MaxLeft,        \* bound on the frames that a poll of IEC 101 or 103 leaves unread
  MaxCommands,    \* bound on the operator's commands
  MaxStops        \* bound on the stops of the module

VARIABLES
  protocol,
  portUp,         \* can the port be opened
  io,             \* CommIO: "none", "open", "dead" (every call fails at once)
  place,          \* where the thread is
  next,           \* index of the next request of the pass
  held,           \* the value that WriteDOChanges writes
  line,           \* frames that are left from exchanges that are over
  shifted,        \* frames have been left
  stored,         \* what the table holds for a read: whose answer it was
  want,           \* DoPoint::masterVal
  sent,           \* doSent_
  owed,           \* an ON that no station has executed
  coil,           \* the coils of the stations
  pulses,         \* pulseQueue_
  comm,           \* DI 1, "communication"
  commands, stops

port == <<protocol, portUp, io>>
thread == <<place, next, held>>
outputs == <<want, sent, owed, coil, pulses>>
bounds == <<commands, stops>>
serialVars == <<port, thread, line, shifted, stored, outputs, comm, bounds>>

Request == Reads \cup Coils
Plan == SetToSeq(Reads) \o (IF protocol = "rtu" THEN SetToSeq(Coils) ELSE <<>>)
None == "none"

SerialInit ==
  /\ protocol \in Protocols /\ portUp \in BOOLEAN /\ io = "none"
  /\ place = "open" /\ next = 1 /\ held = FALSE
  /\ line = <<>> /\ shifted = FALSE
  /\ stored = [r \in Reads |-> None]
  /\ want = [d \in Coils |-> FALSE]
  /\ sent = <<>>
  /\ owed = [d \in Coils |-> FALSE]
  /\ coil = [d \in Coils |-> FALSE]
  /\ pulses = {} /\ comm = FALSE
  /\ commands = 0 /\ stops = 0

-----------------------------------------------------------------------------
(* Opening.  A port that cannot be opened is used all the same: open() says  *)
(* so in its result, which nobody looks at.                                  *)

CommIOOpen == IF portUp THEN "open" ELSE "dead"

Open ==
  /\ place = "open"
  /\ io' = CommIOOpen
  /\ place' = "loop" /\ next' = 1
  /\ line' = <<>>
  /\ IF protocol = "rtu"
       THEN /\ comm' = TRUE
            /\ sent' = sent @@ want       \* emplace: what is known is kept
       ELSE UNCHANGED <<comm, sent>>
  /\ UNCHANGED <<protocol, portUp, held, shifted, stored, want, owed, coil, pulses, bounds>>

-----------------------------------------------------------------------------
(* An exchange of request r: it is lost; executed with no answer, with an    *)
(* answer in time ("ok") or after the timeout ("late"); or refused.          *)

Outcomes == {"lost", "unanswered", "late", "refused", "ok"}

(* The RTU slave answers for any station: what it has not, it refuses. *)
HandleRequest(r, outcome) == IF r \in Foreign /\ outcome # "lost" THEN "refused" ELSE outcome
Executed(outcome) == outcome \in {"unanswered", "late", "ok"}
(* A frame and how many values it carries; a refusal carries none.           *)
Frame(r, values) == [of |-> r, values |-> values]
NoAnswer == Frame(None, 0)

(* The IEC 101 slave confirms a GI, sends its points one in a frame, and     *)
(* terminates it; other stations put several into a frame, and some leave    *)
(* out the confirmation.                                                     *)
SendGIRsp(r) == <<Frame(r, 1), Frame(r, 0)>>
HandleFrame(r) == <<Frame(r, 0)>> \o SendGIRsp(r)

Answer(r, outcome) ==
  IF outcome = "refused" THEN {<<Frame(r, 0)>>}
  ELSE IF protocol = "iec101"
       THEN {HandleFrame(r), <<Frame(r, 0), Frame(r, 2)>>, <<Frame(r, 2)>>}
       ELSE {<<Frame(r, 1)>>}
Arrived(r, outcome) ==
  IF outcome \in {"ok", "refused"} THEN {line \o a : a \in Answer(r, outcome)} ELSE {line}

(* What is read and what is left: DL/T 645, and both IEC masters, read up to *)
(* an end mark ...                                                           *)
Readings(arrived) ==
  IF arrived = <<>> THEN {[frame |-> NoAnswer, rest |-> <<>>]}
  ELSE {[frame |-> Head(arrived), rest |-> Tail(arrived)]}
(* ... which a byte inside of the frame may be taken for: what has been read *)
(* then is no frame, and what follows has no beginning and is skipped.       *)
EndMarkInside(arrived) ==
  IF arrived = <<>> THEN {} ELSE {[frame |-> NoAnswer, rest |-> Tail(arrived)]}
(* IEC 103 reads up to any byte with the value of the mark: what follows it  *)
(* is left, and may look like a frame again;                                 *)
Iec103SendAndRecv(arrived) ==
  IF Len(arrived) \in 1 .. MaxLeft THEN {[frame |-> Head(arrived), rest |-> arrived]} ELSE {}
(* RTU until the line is silent: several answers in one go have no valid CRC. *)
RtuSendAndReceive(arrived) ==
  IF Len(arrived) > 1 THEN {[frame |-> NoAnswer, rest |-> <<>>]} ELSE {}

SendAndReceive(arrived) ==
  Readings(arrived) \cup CASE protocol = "rtu"    -> RtuSendAndReceive(arrived)
                           [] protocol = "iec103" -> Iec103SendAndRecv(arrived)
                           [] OTHER               -> EndMarkInside(arrived)

(* After a GI, IEC 101 asks three times for class 1 data and forgets what it *)
(* reads: up to silence, or up to five bytes that begin as a fixed frame.    *)
SendRecvFixedFrame(frames) ==
  IF protocol = "iec101"
  THEN {rest \in {SubSeq(frames, k, Len(frames)) : k \in 1 .. Len(frames) + 1} : Len(rest) <= MaxLeft}
  ELSE {frames}

(* Mutant: DL/T 645 takes any intact frame, as RTU does. *)
AcceptedAny(r, frame) == frame.values > 0

(* IEC 101 takes LEN for one byte more than it counts: the last byte of a    *)
(* frame, and with it the last value, is lost.                               *)
SendRecvVarFrame(frame) == [frame EXCEPT !.values = IF @ = 0 THEN 0 ELSE @ - 1]

(* It looks for the points of the device it has asked in any frame with      *)
(* values, whoever sent it.                                                  *)
HandleGIResponse(frame) == SendRecvVarFrame(frame).values > 0

(* IEC 103 takes a byte of whatever it gets for the value it has asked for.  *)
Iec103PollDevice(frame) == frame.of # None

(* Mutant: an exception code is taken for a confirmation. *)
AcceptedRefusal(r, frame) ==
  /\ frame.of # None
  /\ protocol = "dlt645" => frame.of = r

(* RTU takes any intact frame; DL/T 645 compares station, control and item. *)
Accepted(r, frame) ==
  CASE protocol = "iec101" -> HandleGIResponse(frame)
    [] protocol = "iec103" -> Iec103PollDevice(frame)
    [] protocol = "rtu"    -> frame.values > 0
    [] protocol = "dlt645" -> frame.values > 0 /\ frame.of = r

(* Request r ends with this outcome and this reading of the line. *)
Exchange(r, outcome, reading) ==
  /\ outcome = HandleRequest(r, outcome)
  /\ \E late \in IF outcome = "late" THEN Answer(r, "ok") ELSE {<<>>} :
       line' \in SendRecvFixedFrame(reading.rest \o late)
  /\ shifted' = (shifted \/ line' # <<>>)

-----------------------------------------------------------------------------
(* A pass: PollDevice, WriteDOChanges, ProcessPulseQueue.                    *)

Pending(r) == r \in Coils => sent[r] # want[r]

Ask ==
  /\ place = "loop" /\ next <= Len(Plan) /\ io = "open" /\ Pending(Plan[next])
  /\ place' = "wait"
  /\ held' = IF Plan[next] \in Coils THEN want[Plan[next]] ELSE FALSE
  /\ UNCHANGED <<port, next, line, shifted, stored, outputs, comm, bounds>>

(* A value that is written already, or a call on a dead port: swallowed.    *)
PassOver ==
  /\ place = "loop" /\ next <= Len(Plan) /\ (io = "dead" \/ ~Pending(Plan[next]))
  /\ next' = next + 1
  /\ UNCHANGED <<port, place, held, line, shifted, stored, outputs, comm, bounds>>

PollDevice(r, outcome, reading) ==
  /\ r \in Reads
  /\ stored' = IF Accepted(r, reading.frame)
                 THEN [stored EXCEPT ![r] = reading.frame.of] ELSE stored
  /\ place' = "loop" /\ next' = next + 1
  /\ UNCHANGED outputs

WriteDOChanges(d, outcome, reading) ==
  /\ d \in Coils
  /\ IF Executed(outcome)
       THEN /\ coil' = [coil EXCEPT ![d] = held]
            /\ owed' = [owed EXCEPT ![d] = @ /\ ~held]
       ELSE UNCHANGED <<coil, owed>>
  /\ IF Accepted(d, reading.frame)
       THEN /\ sent' = [sent EXCEPT ![d] = held]
            /\ pulses' = pulses \cup {[coil |-> d, value |-> ~held]}
       ELSE UNCHANGED <<sent, pulses>>
  /\ IF Accepted(d, reading.frame) /\ held
       THEN place' = "takeback" /\ UNCHANGED next
       ELSE place' = "loop" /\ next' = next + 1
  /\ UNCHANGED <<want, stored>>

Answered(outcome) ==
  /\ place = "wait" /\ io = "open"
  /\ \E arrived \in Arrived(Plan[next], outcome) : \E reading \in SendAndReceive(arrived) :
       /\ Exchange(Plan[next], outcome, reading)
       /\ \/ PollDevice(Plan[next], outcome, reading)
          \/ WriteDOChanges(Plan[next], outcome, reading)
  /\ UNCHANGED <<port, held, comm, bounds>>

(* The port dies under a request. *)
Broken ==
  /\ place = "wait" /\ io = "dead"
  /\ place' = "loop" /\ next' = next + 1
  /\ UNCHANGED <<port, held, line, shifted, stored, outputs, comm, bounds>>

(* The next ON has to be a change again. *)
TakeBack ==
  /\ place = "takeback"
  /\ want' = [want EXCEPT ![Plan[next]] = FALSE]
  /\ sent' = [sent EXCEPT ![Plan[next]] = FALSE]
  /\ place' = "loop" /\ next' = next + 1
  /\ UNCHANGED <<port, held, line, shifted, stored, owed, coil, pulses, comm, bounds>>

(* A pulse that is due: it is dropped whatever comes of it. *)
ProcessPulseQueue(p, outcome) ==
  /\ place = "loop" /\ next = Len(Plan) + 1 /\ p \in pulses
  /\ pulses' = pulses \ {p}
  /\ IF io = "open"
       THEN \E arrived \in Arrived(p.coil, outcome) : \E reading \in SendAndReceive(arrived) :
              /\ Exchange(p.coil, outcome, reading)
              /\ coil' = IF Executed(outcome) THEN [coil EXCEPT ![p.coil] = p.value] ELSE coil
       ELSE outcome = "lost" /\ UNCHANGED <<line, shifted, coil>>
  /\ UNCHANGED <<port, thread, stored, want, sent, owed, comm, bounds>>

(* Nothing in the pass throws, so DI 1 is not touched and the port stays as  *)
(* it is until Stop().                                                       *)
PassEnds ==
  /\ place = "loop" /\ next = Len(Plan) + 1
  /\ next' = 1
  /\ UNCHANGED <<port, place, held, line, shifted, stored, outputs, comm, bounds>>

-----------------------------------------------------------------------------
(* The others: operator, port, module manager.                               *)

SetDoMaster(d, value) ==
  /\ commands < MaxCommands /\ want[d] # value
  /\ commands' = commands + 1
  /\ want' = [want EXCEPT ![d] = value]
  /\ owed' = [owed EXCEPT ![d] = value /\ ~(place \in {"wait", "takeback"} /\ Plan[next] = d)]
  /\ UNCHANGED <<port, thread, line, shifted, stored, sent, coil, pulses, comm, stops>>

PortFails ==
  /\ portUp
  /\ portUp' = FALSE
  /\ io' = IF io = "open" THEN "dead" ELSE io
  /\ UNCHANGED <<protocol, thread, line, shifted, stored, outputs, comm, bounds>>

PortComesBack ==
  /\ ~portUp
  /\ portUp' = TRUE
  /\ UNCHANGED <<protocol, io, thread, line, shifted, stored, outputs, comm, bounds>>

(* running_ is looked at between two devices; Stop() joins and forgets. *)
StopPort ==
  /\ place = "loop" /\ stops < MaxStops
  /\ stops' = stops + 1
  /\ place' = "stopped" /\ io' = "none"
  /\ sent' = <<>> /\ pulses' = {}
  /\ UNCHANGED <<protocol, portUp, next, held, line, shifted, stored, want, owed, coil,
                 comm, commands>>

StartPort ==
  /\ place = "stopped"
  /\ place' = "open"
  /\ UNCHANGED <<port, next, held, line, shifted, stored, outputs, comm, bounds>>

-----------------------------------------------------------------------------
PortThread ==
  \/ Open \/ Ask \/ PassOver \/ \E o \in Outcomes : Answered(o)
  \/ Broken \/ TakeBack \/ PassEnds
  \/ \E p \in pulses, o \in Outcomes : ProcessPulseQueue(p, o)

SerialNext ==
  \/ PortThread
  \/ \E d \in Coils, v \in BOOLEAN : SetDoMaster(d, v)
  \/ PortFails \/ PortComesBack \/ StopPort \/ StartPort

SerialSpec == SerialInit /\ [][SerialNext]_serialVars

-----------------------------------------------------------------------------
(* A value of one meter or block is never shown as another's: always with   *)
(* DL/T 645, which compares station and item (DLT-3); with the others, which *)
(* compare nothing, until something has been left on the line.               *)
Attribution ==
  \A r \in Reads : stored[r] \in {None, r} \/ (protocol # "dlt645" /\ shifted)

(* masterVal of an ON is taken back only after a station has executed it,    *)
(* as long as nothing was left on the line to be read in its place; except   *)
(* an ON given anew while the exchange of an earlier one is under way.       *)
TakenBack == \A d \in Coils : owed[d] /\ ~shifted => want[d]
=============================================================================
