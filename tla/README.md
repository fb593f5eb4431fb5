# Formal models of PMPC

PMPC is a protocol gateway for substations (C++17, Windows first, POSIX too).
One process collects points (DI, AI, DO, AO) from field devices, keeps them in
one table, serves them to control centres over several protocols, brings the
commands of the control centres back to the devices, and may run as one half of
a redundant pair.  This directory holds TLA+ models of its core and of most
of its protocols, the TLC runs that check them, and proofs of the safety
properties of every modelled component but CDT and the IEC 104 master, whose runs check
liveness.  Paths are relative to the repository; `redundancy.cxx` stands
for `src/redundancy.cxx`, `pmpc.h` for `include/pmpc.h`, `说明书.md` is the manual.

## 1. Inventory

| component | code | state | operations | talks to |
|---|---|---|---|---|
| redundancy manager | redundancy.cxx | role, peer's role and priority, missed heartbeats, three sockets, sync channel | HeartbeatLoop, ListenLoop, CheckFailover, SetRole, RequestRoleChange, Start, Stop | the peer by TCP, the module manager by the collect callback |
| module manager | module_manager.cxx, main.cxx | modules, their files' time stamps, mgrMtx_ | LoadConfig, StartAll, StopAll, Start/Stop/ReloadModule, WatchLoop | every module |
| point table and event bus | pmpc_data_mgr.cxx, event_bus.h | points, DO pulse queue, handlers | Set*, CheckAllPointChange, Publish, Subscribe, Unsubscribe, LoadConfig | all protocols |
| Modbus TCP master | modbus_tcp_master.cxx | doSent_, aoSent_, pulse queue, a connection per channel | PollDevice, WriteDOChanges, WriteAOChanges, ProcessPulseQueue | devices, point table |
| Modbus TCP slave | modbus_tcp_slave.cxx | listeners, client threads and their done flags, maps from addresses to points | accept loops, client threads, HandleRequest, LoadConfig, Start, Stop | masters, point table |
| Modbus RTU master and slave | modbus_rtu_*.cxx | doSent_, aoSent_, pulse queue; a serial line or server | PortThread, PollDevice, Write*Changes; HandleRequest | serial lines, point table |
| DL/T 645 master | dlt645_master.cxx | a serial line per channel | ChannelThread, PollDevice | meters, point table |
| IEC 104 slave | iec104_slave.cxx | connections with their sequence numbers, sendMtx | accept loops, client threads, uploads of changes, TimerThread, Stop | control centres, event bus, point table |
| IEC 104 master | iec104_master.cxx | per channel: endpoint, sequence numbers, ages | ChannelThread | stations, point table |
| PEMP server, SOE queue | pemp_server.cxx, soe_queue.cxx | connections with their upload state, queue of SOE events | accept loop, client handlers, start, stop | masters, event bus, point table |
| data recorder | data_recorder.cxx | MySQL connection, points with lastSaveMs | event handlers, TimerThread, Start, Stop | event bus, MySQL |
| CDT master and slave | cdt_*.cxx | frame buffers | cyclic frames, ParseFrame | serial lines, point table |
| debug console | debug_console.cxx | sessions | commands: role, start, stop, reload, set | all of the above |
| IEC 101 master and slave, IEC 103 master | iec101_*.cxx, iec103_master.cxx | frame count bit; a serial line per channel | ChannelThread, PollDevice; HandleFrame, SendGIRsp | stations, point table |
| packet logger, sockets, serial ports, INI reader, string helpers | the rest | buffers | pure I/O and formatting | — |

What is hard here: every module has threads of its own and most calls cross
them (role change → callback → module manager → another module's threads);
values are published after the lock is released; two machines decide on their
roles from messages that are already old; connections break between a request
and its answer, and answers come after their question was given up; queues and
connections are shared by threads that serve different peers; modules are
stopped and reloaded while their threads wait for sockets; byte orders, blocks
and 16-bit addresses must fit together at both ends of a line.

What makes each part correct:

* redundancy: never two Masters unless the operator makes them, and then not for
  long; one Master and one Standby in the end; collectors and sync channel match
  the role; a decision uses the peer's configured priority; takeover on failure;
* module manager: collectors follow the role; a bad file changes nothing, a good
  one is loaded; shutdown comes back and leaves nothing behind;
* Modbus masters: a command is executed once, an ON is taken back, a set point
  arrives, a pulse ends; a point is given its own value;
* Modbus slave: what it shows is what a master reads; no thread outlives Stop();
* DL/T 645, IEC 101, IEC 103: the value of one station is not shown as another's;
* IEC 104: numbers without gaps, a control centre knows the value of a point, a
  dead station is given up, a reachable one is found, Stop() comes back;
* PEMP/SOE: an event is delivered at most once, lost only with a connection, in
  order; one upload per answer; threads do not pile up; stop comes back;
* point table: every change reaches every subscriber, pulses have their length
  and end;
* data recorder: the connection comes back, samples do not repeat, no query on a
  closed connection; CDT: what is sent is received.

## 2. Plan

Done: `Redundancy` with `RedundancyProofs`, `ModuleManager`, `ModbusTcpMaster`,
`PempServer` with `SOEQueue` against the abstract `SoeDelivery`, `RemoteData`,
`Iec104Slave`, `Iec104Master`, `ModbusTcpSlave`, `SerialMaster`,
`ModbusRegisters`, `DataRecorder`, `Cdt`; and the proof modules
`RedundancyProofs`, `ModuleManagerProofs`, `ModbusTcpMasterProofs`,
`PempServerProofs`, `RemoteDataProofs`, `Iec104SlaveProofs`, `ServerProofs`
(ModbusTcpSlave and DataRecorder), `MasterProofs` (SerialMaster and
ModbusRegisters), see section 5.

Next theorems: `OneAtATime` for several devices, as a bound on frames
instead of uploads; the action properties behind the liveness properties, for
instance that nothing but a connection's loss takes an event from a batch.  `Cdt`
(bit operators) stays with TLC.

Next models: the way of a command, from PEMP 06H or IEC 104 through the point
table to the Modbus master and back, as the composition of the modules there are;
console sessions.

## 3. Modules

Every module's header lists its program counters.  A step of a model is the code
between two points where another thread can interfere: a mutex taken or given
back, an access to an atomic or to a table under its own lock, a blocking call.

**Redundancy** (redundancy.cxx, both machines).  A machine has three threads
that may be in `SetRole`: HeartbeatLoop ("send"), ListenLoop ("listen") and the
console.  `CheckFailover` decides outside `roleMtx_`, `SetRole` takes it and
writes `role_`, `FinishSetRole` switches the sync channel and the collectors and
gives it back.  `HeartbeatLoop` is `ConnectAndSend`, `SendHeartbeat` and
`SendFails`; `ListenLoop` is `Accept`, `ReceiveHeartbeat`, `PeerClosed`,
`PeerSilent` (Windows) and `TimeoutDrops` (POSIX, where the receive timeout has
another code and is taken for an error).  A connection is a sequence of frames
and its end; the listener holds the served one first.  `Crash` may happen at any
step, with a FIN or without.  `Stop` is three steps, `Start` one; a machine in `Unbound` could not bind
heartbeat_port, which Start reports and goes on without ListenLoop.  Left out: the
parser's rejection of bad frames, the data on the sync channel.  Time is not
counted: a silence may last long enough whenever no frame is waiting.

**ModuleManager** (module_manager.cxx, main.cxx, the commands of
debug_console.cxx).  Four threads walk through the same calls; `at`, `op` and
`on` say where each is, in which call and about which module.  `running` is the
flag of the wrapper, `alive` that of the object inside: they differ for a moment
in every start and stop, which is what double starts and double joins come from.
A Start may fail (`Failing`: a port that cannot be bound, no channels), at start-up,
after a reload or in a command, and is only reported.  `Crash` is the
`std::system_error` of a second join, or a thread inside the manager while its
modules are freed, and ends the process.  The console has one session; `session`
says whether it has stopped or reloaded its own console, whose Stop detaches it
(debug_console.cxx:158-168), or returns at once when another thread is in Stop.
A missing file has the time stamp 0.  A module's own work is not modelled here,
only that it must be joined.

**ModbusTcpMaster** (modbus_tcp_master.cxx, write side).  One thread per channel.
`Scan`, `Send`, `Record`, `Reset`, `ResetSent`, `Schedule` are the body of
WriteDOChanges and WriteAOChanges for one point, `EnterPulses` to `LeavePulses`
ProcessPulseQueue.  `Exchange` is BuildAndSend, the device and RecvFrame: an
answer, an exception code, an end of file or an exception, and in the last two
cases the device may have obeyed.  A pulse's time is a flag `due`.  The points of
a channel are looked at in any order (the code's order is that of the INI file).

**ModbusRegisters** (both Modbus masters' PollDevice and dispatch, both slaves'
FC01 to FC04).  The slave's table, what it answers to a block (`HandleFCReadRegs`,
`HandleFC01`), what the master makes of the answer (`DispatchFC01or02`,
`DispatchFC03or04`, `ParseValue`).  `toRead` are the points that PollDevice has
still to ask for; `ReadBlock` takes the next block of the lowest function from
them (`Block`).  A register is the set of its bits, and an AI value the function
from weights to bytes, so a byte order is a permutation and a wrong one cannot
cancel out.  A step reads a block or changes the slave's table between two blocks.
`Loaded` are the points that LoadConfig of the RTU slave keeps: it drops registers at
address 0, and coils whose address and point are both 0.  `Readable` says which
configurations the masters read right.

**ModbusTcpSlave** (modbus_tcp_slave.cxx, the server).  Listeners with their
accept threads, client threads, `entries` for clientThreads_ with its done flags,
`LoadConfig` and `Start` by the module manager, `Stop` in four steps with the
mutex it holds while it joins.  Registers are in ModbusRegisters; a request is
good or malformed.

**SerialMaster** (modbus_rtu_master.cxx, dlt645_master.cxx, iec101_master.cxx,
iec103_master.cxx, comm_io.h, and modbus_rtu_slave.cxx and iec101_slave.cxx as the
other end).  One port, whose `protocol` is one of the four; a pass asks for every
read and, with RTU, writes every coil that changed.  An exchange ends with an
answer in time, late, refused, none, or a request that is lost.  A frame is whose
it is and how many values it carries.  `line` holds what came too late or was not
read to its end, `shifted` that there has been such a thing.  `SendAndReceive` is
what each master reads of the line: DL/T 645 and the IEC masters up to an end
mark, which a byte inside a frame may be taken for (`EndMarkInside`; after that IEC
103 may find another beginning in the same frame), RTU up to silence.  `Accepted` is
what they compare: RTU nothing but the check sum, DL/T 645 station, control code
and item, the IEC masters nothing.  A GI of IEC 101 is answered by several frames
(`HandleFrame`, `SendGIRsp`); the master looks at the first and drains the line
with three requests for class 1 data (`SendRecvFixedFrame`).

**Iec104Slave** (iec104_slave.cxx).  Connections with their handler threads;
`todo` is what HandleFrame has still to send for a request.  Every sender takes a
number and writes a frame in two steps under `sendMtx`: handlers, the thread that
publishes a change, the timer thread.  The uploads work on a snapshot of
clients_.  `AnswerThrows` is the exception that leaves HandleFrame and ends the
process.  What commands set in the point table is left out.

**Iec104Master** (iec104_master.cxx).  One channel thread with two endpoints;
ages of the last frame, the TESTFR and the GI are counted in passes of the loop;
a station is alive, silent or gone, and a network may be down.

**DataRecorder** (data_recorder.cxx).  The timer thread (reconnection, tables,
samples, dropping of old tables), a thread that publishes a change, Start and
Stop, and a MySQL server that fails and comes back.  A connection is a number:
`mysql` names the one in use, `closed` and `broken` what has become of others.

**Cdt** (cdt_slave.cxx, cdt_master.cxx).  BuildAndSend byte by byte, PortThread
and ParseFrame byte by byte, with AdvanceSyncHeader as it is; a line that may
corrupt or lose a byte.

**PempServer, SOEQueue, SoeDelivery** (pemp_server.cxx, soe_queue.cxx).  The
handler of the event bus, start and stop, the accept loop with the cleanup of
finished threads, and a client handler per connection with its uploads.  Time is
counted in receive timeouts (500 ms).  SOEQueue's methods are atomic in the code
(one mutex), so they are operators.  `SoeDelivery` is the promise: `pending`,
`delivered`, `dropped` and three actions.  `PempServer` implements it with
`pending` mapped to the events inside a handler, in the queue, in the hands of
do_upload_soe or on a connection.  Left out: requests that only answer (status,
telemetry, history), remote control and clock.

**RemoteData** (pmpc_data_mgr.cxx, event_bus.h, the swap in
pmpc_config_reader.cxx).  Writers and the main loop.  A Set call is the write
under devMtx, the copy of the handlers, each call of a handler, and for a DO
that goes to 1 the reading of the clock and the entry in the queue.  A reading of
the clock is kept as its age, so the clock needs no bound; ages beyond `AgeCap`
are as good as `AgeCap`.  The handlers are those of one type of event, for each has
a list of its own; `Heard` are the points of that type.  Values are booleans.  SetDoSlave has no caller in the
program, the queue of AO changes no reader, lastVal is only printed: they are
left out.  main.cxx sets the pulse to a year so that the Modbus master's own
pulses take over; the model keeps the mechanism, which other users of the table
and the tests rely on.

`MC*` modules give the constants of the runs.  `MCComponents`, `MCServers` and
`MCCollection` put several components side by side that do not meet: the variable
`part` says whose behaviour it is, the others rest in their first state, and the
states are the sum of the components', not the product.  `MCComponents` extends
ModuleManager, SerialMaster, PempServer and ModbusRegisters, `MCServers`
Iec104Slave, ModbusTcpSlave and DataRecorder, `MCCollection` ModuleManager, so that
the safety properties are checked under their own names, which the theorems state.
Every other component (the PEMP server and the IEC 104 master of `MCServers`, the
Modbus master of `MCCollection`) is an INSTANCE with constants of its own;
a property of it, and liveness, is restated there (`PempStopReturns`,
`RecorderRecovers`, ...).  Nothing is
claimed about the components together.  `Rest` lets a component that has been
stopped, or has used up its bounds, stay as it is.

## 4. Runs

Every property has a mutant of the code (a definition named in PROJECT.json)
under which its run fails.

| run | question | bounds |
|---|---|---|
| RedundancySafety | do role, sync channel, collectors and the peer's priority stay consistent | machines a (Windows) and b (POSIX), 1 command, 1 Stop/Start, limit 2 |
| RedundancyLive | is there ever more than one Master, does it heal, does the pair settle | 1 crash, 1 command, limit 3 |
| RedundancyFailover | does the Standby take over (it does not) | 1 crash |
| ModbusSafety | commands are executed once | 2 channels, 3 points, 1 command each, all faults, 1 reload |
| ModbusPulseChannel | does a pulse end with two channels (it does not) | 2 channels |
| PempOrder | types, order, one upload per answer, bounded threads | 3 slots for one connection at a time, 2 events, 1 restart |
| RemoteData | events and pulses | 2 writers, a DO point switched on and off, another point, 2 subscribers, 2 pulses under way, readings used a tick late, 1 clock set back, 1 reload |
| Components | manager: types, collectors and role, complete shutdown | 2 collectors, console, redundancy; the console's Start may fail; commands about a collector or, in other behaviours (`part` "console"), about the console itself; 1 save of a watched file |
| | PEMP: at most once, no silent loss | 2 handlers, 2 events, frames of 1 |
| | serial port: values and commands of the right station | 4 protocols, 3 reads, 1 coil, 2 commands, any answer late, lost or refused, 1 frame left by an IEC poll, 1 stop |
| | registers: what is read is what was there | 2 DI, 2 AI, blocks of 3, all byte orders but GHEFCDAB, 1 change during a poll |
| Servers | PEMP: events are uploaded, stop comes back | 1 master, 1 event, 1 restart |
| | IEC 104 slave: numbers, values, Stop | 1 connection, 1 request of any kind, 2 changes, 1 cycle, numbers modulo 4 |
| | IEC 104 master: dead stations, endpoints | 1 or 2 endpoints, numbers modulo 8, T3 of 2 passes |
| | Modbus slave: no thread left, Stop | 2 listeners, 2 clients, 2 requests, 2 loadings and starts |
| | recorder: connection, samples | clock from 2 to 3, interval 2, 1 failure, 2 starts, 1 change |
| Collection | manager: hot reload, shutdown comes back | 1 collector, whose Start may fail, redundancy; 2 saves of any content, or none |
| | Modbus master: commands, set points and pulses get through | 1 channel, DO and AO, 2 commands each |
| RecorderHandle | is a query's connection left alone (it is not) | as in Servers, clock to 4 |
| CdtReceives | is a frame ever received (it is not) | 1 frame of one kind, 1 fault |

What bounds leave out.  One connection and one frame under way (`MaxConn`,
`MaxFrames`) already give every reordering that matters between the two
directions: frames are overtaken only by decisions, and a decision needs one
frame.  Two collectors show a callback interrupted between them.  Two events
with a frame of one make a rest that goes back to the queue.  Three thread slots
are one more than may be occupied (`MaxLive` + `CleanupPeriod` - 1).  A change of
the table between two blocks is one change: a second one adds only values that
the first has not excluded.  Two layouts of a kind differ in where a block ends,
so two points of each kind and blocks of three reach every case of `Block`.  A
handler, the publisher and the timer are all the threads that can send on one
connection of the IEC 104 slave; numbers modulo 4 go round within a GI.  Two
clients and two listeners with `CleanupPeriod` 2 reach an accept that cleans up
while the other client's thread runs.  The constants that stand for times
(`AckTicks`, `Threshold`, `DoPulseMs`, `T3`, `Interval`) are the smallest at which
before, at and after can be told apart.

The conditions under which a property is stated are part of what it says:

* `NeverDualMaster` and `PairSettles` have no console command (`Unforced`,
  `Undisturbed`), and both machines of the run are Windows with a limit above the
  number of crashes plus one; `DualMasterHeals` has no crash;
* `CollectorsFollowRole` speaks of the collectors that nobody reloads or
  commands and whose Start does not fail, and the run assumes that
  startup_delay_ms outlasts StartAll;
* `ShutdownComplete` speaks of programs in which no session has stopped or reloaded
  its own console, and the operator names no `redundancy`;
* `KeepsOldConfig`: every watched module has a good configuration, those whose Start
  does not fail (not in `Failing`) run with it; nobody but the watch thread stops them;
* Collection: files are saved while the watch thread sleeps, with time stamps
  far enough apart to be told apart;
* OnConsumed and NoRepeat: no inverted point; Collection: connections are
  lost, writes are not refused;
* `OrderedDelivery`, `ThreadsBounded`, `OneAtATime`: one connection at a time, one
  device; the master only answers while an upload is unanswered;
* `SoeUploaded`: upload intervals of 3 s (the default is 5 s); `PempStopReturns`:
  nobody stalls;
* `AloneKnown`: points with one writer; `PulseWhole` admits three ways in which a
  pulse is cut short: by the entry of an earlier pulse of its point, which an OFF
  leaves in the queue; by a reading of the clock that is newer than main's (an ON
  queued late, a clock set back); after a reload; `PulseEnds`: no reload;
* `ReadBack`: layouts in which the masters read right (`Readable`, which TLC
  evaluates on the layouts of the run; section 6): no coil or bit is used twice, the
  RTU slave keeps every point, and FC03 and FC04 points of a TCP device share one map in the slave, so their
  addresses differ, too;
* `Attribution` and `TakenBack`: but for DL/T 645, until something was left on the line;
  `TakenBack` leaves out an ON given during the exchange of an earlier one;
* `TellsTruth`: no change between the building of a GI frame and its sending, no
  upload under way;
  `Iec104StopReturns`: or the process has ended (`AnswerThrows`);
* `Reconnects`: one configured endpoint stays reachable; `ModbusStopReturns`: every
  client closes sooner or later; `RecorderRecovers`: the server stays up;
* `OnePerSlot`: no reload, no clock set back.

Section 6 says what happens without them.

### Fairness

Weak fairness of a thread's steps: the operating system schedules every thread.
Strong fairness where a thread asks for a mutex again and again (`Lock`,
`EnterPulses`, `Schedule`: a std::mutex is not fair, but its holders here sleep
or wait for devices between two locks), for a device that is asked again and again and
answers at last (`Send`, `SendPulse` with "ok"), and for the clock of
RemoteData, which another thread may hold up for a moment.  A TCP write to a dead
peer fails in the end.  A manager that a reload has stopped is started again.
accept() comes back once its listener is closed, as the code relies on (on POSIX
close() alone does not wake it).  None for operators, commands, role changes,
saves, crashes, reboots, masters that connect, send or read after a stall,
stations, networks, the MySQL server, clients of the Modbus slave.

In `MCServers` and `MCCollection` the fairness of a component is that of its
module, restated over its own variables and for the behaviours that are its, so
that the others, which rest, owe nothing.

## 5. Proofs

TLC finds out for a few machines, points and events; the eight `*Proofs` modules
prove for every value of the constants that the named ASSUMEs allow.  25 results
are listed in PROJECT.json.  Each has the same argument: an inductive invariant,
checked with TLC first, one lemma per action or group of actions, temporal
induction in the last step.

| module | theorem | says | holds if |
|---|---|---|---|
| RedundancyProofs | TypeCorrect, EffectsCorrect, PriorityCorrect | TypeOK, EffectsFollowRole, PriorityKnown | — |
| | NeverDualMasterCorrect | NeverDualMaster | `Patient`, one machine at most wins a tie |
| ModuleManagerProofs | TypeCorrect | TypeOK | — |
| | FollowRoleCorrect | CollectorsFollowRole, of collectors whose Start does not fail | startup_delay_ms outlasts StartAll |
| | ShutdownCorrect | ShutdownComplete, unless a session stopped or reloaded its own console | the operator names no `redundancy` |
| | KeepsOldConfigCorrect | KeepsOldConfig: a good configuration, and running unless the Start may fail | files are saved while WatchLoop sleeps; only the watch thread stops watched modules |
| ModbusTcpMasterProofs | TypeCorrect | TypeOK | — |
| | NoRepeatCorrect | NoRepeat | no inverted point |
| PempServerProofs | TypeCorrect, ThreadsCorrect | PempTypeOK, ThreadsBounded | — |
| | OneAtATimeCorrect | OneAtATime | one device, a master that only answers |
| | DeliveryCorrect | Delivery: PempServer implements SoeDelivery | no limit of the queue, `FrameFits` |
| | OrderCorrect | OrderedDelivery | the same, and one connection at a time |
| RemoteDataProofs | TypeCorrect, KnownCorrect | TypeOK, AloneKnown | — |
| | PulseWholeCorrect | PulseWhole, with the three exceptions that it names | — |
| ServerProofs | NothingLeftCorrect | NothingLeft | — |
| | OnePerSlotCorrect | OnePerSlot | — |
| Iec104SlaveProofs | InSequenceCorrect | InSequence | — |
| | TellsTruthCorrect | TellsTruth | the frames of the GI fit into 249 bytes |
| MasterProofs | AttributionCorrect | Attribution | — |
| | TakenBackCorrect | TakenBack | a finite number of requests |
| | ReadBackCorrect | ReadBack | `Readable` |

The conditions of the last column are hypotheses of the theorems.  None is there
for the prover's sake but the finite sets of TakenBackCorrect; the runs of
section 4 meet each, and without it the code does something else, which TLC shows
(the same list as in sections 4 and 6).

**Redundancy.**  `EffectsFollowRole` is not inductive: it says nothing while a
thread is inside SetRole, and nothing keeps a second thread out.  `MutexHeld` adds
that a thread is at "switch" exactly when it holds `roleMtx_`; `SwitchesToRole`
that role_ is then the role it switches to, or Idle, which is what the unlocked
write of Start() can make of it; `DownIsReset` that a dead machine has no role and
no thread, so that Boot, which starts the collectors, meets a machine that is
Idle.  `PriorityKnown` needs `LinkInv`: every frame on the way to a machine carries
the configured priority of its peer, a connection open for sending is the last one
of the peer's listener and has no end yet, and a listener that reads has a
connection.

`NeverDualMaster` then follows from `ElectInv`.  A machine becomes Master because
it outranks its peer, and then it decides with the peer's own priority, or because
missedHeartbeats_ has reached the limit.  `Losses` is what that counter may come
to before the next heartbeat resets it: what it is, a broken connection or a
thread that has met one, and one silence.  It stays at or below one plus the
crashes so far.  So with a limit above that the outranked machine never decides on
Master.  The bound is sharp: with two crashes and a limit of three TLC finds two
Masters (a peer that is up again has not been heard of yet), and so it does with
one crash and a Master under POSIX, whose receive timeout closes the connection,
which its peer counts each time.

**ModuleManager.**  `ControlInv` says what each thread may be about at each place:
the calls on the stack (`op`), the module (`on`), and that WatchLoop is only about
watched modules, the console about `Targets`, the callback about collectors.
`FollowInv` follows the callback through its loop: the collectors before its
place are as it wants them, and the two flags of a collector differ only while the
callback joins its threads.  `ShutdownInv`: while redundancy manager or console
are stopped, their own threads are outside of the manager
(`Sound`), and StopAll has been at them before the destructors are (`Stopped`).
It is claimed as long as `session` is "attached": a session that stops its own
console is in the manager while the console is stopped.  It is false with a console
`start redundancy` in the middle of StartAll, see section 6.  `KeepInv`: the Stop and the Start of a reload follow only when the
file was found good, and then it still is (`FoundGood`); a module whose Start works
(`Reliable`) runs but between the two (`Kept`).

**ModbusTcpMaster.**  `Credit` counts: what a device has confirmed and what the
commands so far can still cause (`Owed`, by the place of the thread) is never more
than was commanded.  That needs `Filled`, that a channel that has been connected
has an entry in doSent_ or aoSent_ for each of its points, and `OwnPoint`, that a
thread writes points of its own channel only.

**PempServer.**  The refinement mapping of `Delivery` is stated in PempServer:
pending are the events in a handler, in g_soeQueue, in a batch or on a connection.
`DeliveryInv` says that these places are disjoint, that a batch is in no hands but
those of do_upload_soe, and that nothing is anywhere before it was published; each
step then maps to Publish, Deliver or Drop of SoeDelivery or to a stutter.
`OrderInv` orders the places: on a connection before in a batch, there before in
the queue, there before in the handler; PushFrontBatch keeps that because with one
connection (`Solo`) what goes back is older than what is there.  `FrameFits` is
the one hypothesis about behaviour: g_soeQueue never holds more than 5461 events;
beyond that LEN overflows (section 6).

**RemoteData.**  `AloneKnown` needs `Told`: a subscriber that does not know the
value of a point is still on the list of the one writer that is telling it, though
the list is a copy and subscribers leave meanwhile.  `PulseWhole` needs that a
point at 1 has its own pulse under way (`PulseTime`): a thread that carries it, an
entry of the queue or of main that is not older than the 1 of its point (`Fresh`).
So when the entry that main uses is the last of its point, it is that one.

**ModbusTcpSlave.**  A running client thread is in clientThreads_ (`Working`), and
a stopped slave has neither sockets nor entries (`Phases`).

**DataRecorder.**  The age of a sample is counted from lastSaveMs, the row is
written under the aligned time, and the two are not the same.  `Aligned` ties them:
no aligned time after that of lastSaveMs has a row, and none has two.  A sample is
due an interval later, which is a later aligned time for every interval
(`SlotGrows`).  A later Start(), which sets lastSaveMs to 0, and a clock set
back set `again`; the first Start() clears it, which `NoRows` makes sound.

**Iec104Slave.**  sNr is the number after the last one written, or after the one
that the only thread in a send has taken (`Exclusive`, `Numbered`).  `TellsTruth`
needs `Underway`: a control centre that was told another value, and is in no GI,
is on the list of the collector's thread, which has the new one; and
`ToldBeforeEnd`, that the frame with the DI point leaves before the end of the GI.

**SerialMaster.**  As long as nothing was left on the line, it is empty between
two exchanges (`LineClean`), so the frame that is read is the answer to the
request (`OwnAnswer`).  DL/T 645 needs none of it: it compares.

**ModbusRegisters.**  Whatever the configuration, a block holds what it asks for
(`Spans`), a coil and a register in the answer are those of the point
(`PointsApart`), and every byte order that the slave writes is undone by the master
(`OrdersAgree`, `NumberReadBack`); the slave has every point (`AllLoaded`).  `PollIInv` adds the order of the poll:
what has been read is of a lower function than what is left, or of lower addresses.
Without it `ReadBack` is not inductive: a serial master gives the coils of an answer
to every DI point at that offset, whatever its function, so a later block may
overwrite what an earlier one has read.  `Readable` keeps FC01 coils below FC02
coils for that reason, and the last byte of coils below the end of the address
space, where offsets wrap round.

The proofs changed the models where they were wrong or could not be reasoned
about: `AcceptMaster` of ModbusTcpSlave had overlapping cases, and TLC took the
first; `disturbed` of Iec104Slave, the exception of TellsTruth, was a whole GI and
is now the time between building and sending of a frame; Unsubscribe and the count
of due pulses of RemoteData are now what the code's calls do to the lists;
ModbusRegisters computed all blocks of a poll at once, by recursion, and now takes
one after the other from what is left, as PollDevice does.

Every safety property that a passing run checks is a theorem, the refinement of
SoeDelivery included.  Only model-checked are the liveness properties (they rest on
fairness and ENABLED, out of the prover's reach) and `Cdt`, which computes with
bits and is run for one counterexample.

## 6. Known disagreements and accepted behaviour

Four are runs that fail on purpose (PROJECT.json, findings):

* **No failover** (RedundancyFailover).  A missed heartbeat is counted when
  CheckFailover is called with a dead peer, which happens once per silence; with
  missed_heartbeat_limit above 1 the Standby never takes over.
* **Pulse on the wrong channel** (ModbusPulseChannel).  The end of a pulse goes
  out on the socket of whichever channel's thread finds it due.
* **A query on a closed connection** (RecorderHandle).  TimerThread exchanges and
  closes the MySQL connection outside mysqlMtx_, under which a subscriber's query
  has loaded it; DropOldTables and DisconnectMySQL are outside it, too.
* **CDT receives nothing** (CdtReceives).  PortThread moves its position only up
  to the sixth sync byte.

The models show more, each reached by relaxing a condition of section 4:

* after a reboot of the Master both machines may be Standby for good;
  auto_failback is read and never used; with equal priorities the tie-break has
  different inputs on both sides (redundancy.cxx:418-424 says so); Start succeeds
  when heartbeat_port cannot be bound, and the machine never hears its peer;
* a receive timeout under POSIX is a would_block, which ListenLoop takes for an
  error: it closes the connection, and the peer counts that as a missed heartbeat
  each time.  If the Master's own heartbeats are late meanwhile, the Standby takes
  over beside it.  So it does after crashes and reboots of the Master that no
  heartbeat came between; and with equal priorities two local names that both sort
  before the peer's address make both machines Master from the start;
* a machine that loses power sends no FIN: the listener of its peer keeps the
  dead connection and never accepts the new one.  An operator who then makes both
  Master has two Masters for good;
* `stop redundancy` on the console holds mgrMtx_ and joins a thread that may wait
  for it in the collect callback: a deadlock, shutdown included;
* a session that stops or reloads its own console is detached and joined by nobody:
  it may still be in the Stop of the console, or in the Start of its reload, when the
  modules are freed.  If another thread is in that Stop already, the session goes on
  to start and stop modules, and collectors it starts are left running;
* `start redundancy` on the console in the middle of StartAll: the wrapper's flag
  is not set yet, so the manager is started twice, running ends up false with the
  threads running, StopAll skips it and the destructors meet a thread that may be
  inside the manager;
* a reload by the watch thread and one by the console, or a role change, may
  stop the same module at once and join twice;
* a role taken before StartAll has registered the callback does not reach the
  collectors; a file that turns bad between its two readings, or a Start that fails after
  a reload, leaves its module stopped, though ReloadModule has dropped a configuration
  that worked; a save between loading and time stamp is never loaded;
* an inverted DO is written ON for ever, because the command taken back is again
  a change; a refused end of a pulse is not repeated; a command given before the
  first connection counts as sent;
* two writers of a point may be told to a subscriber in the wrong order; a DO that is
  switched off and on within doPulseMs_ has two entries in the queue, and the first
  ends its second pulse early; a clock
  set back (or a thread held up between clock and queue) makes a pulse look
  overdue and cuts it short; a rolled-back reload of the point table drops the
  pulses and the outputs stay on;
* DI and AI intervals of 4 ticks or less (2 s) with slow answers starve the SOE
  upload; any request counts as an answer; an upload of several devices is several
  frames for one answer; a master that does not read blocks stop(); the limit of
  the SOE queue counts events that are put back twice (the server sets none); more
  than 5461 events overflow LEN;
* Modbus TCP: GHEFCDAB of the slave is not the inverse of the master's; a coil at
  address 65535 is never asked for, because 0xFFFF marks "no address"; registers
  of a block that ends at 65536 are not shown; an AI point that begins before the
  block is left out; FC03 and FC04 share one map; a bad quantity of FC01 to FC04
  is not answered; the transaction id restarts with every poll;
* the Modbus slave: a bind that fails gives the accept threads the address filters
  of other listeners, a reload adds to the binds there are, an error of accept()
  ends its thread for good, an idle client holds Stop() up;
* Modbus RTU: a late answer is taken for the answer to the next request; AI points
  are one register, high byte first, whatever their type; coils are given to every
  DI point at that address, of any function; pulses of one port go out on
  another's line; DI 1 ("communication") is not reset when the port fails; the
  slave answers for other stations with exception 02, and drops register points at
  address 0 (modbus_rtu_slave.cxx:100, 106, 116, 122), which then read as 0.  DL/T 645 leaves a late
  answer on the line, and each later answer comes one question too late, is
  refused, and so on until one is lost;
* IEC 101: the master takes LEN for one byte more than it counts, so the last byte
  of a frame is lost, and with it the last point: the slave sends one point in a
  frame, so nothing of it is ever stored.  Only the first frame of the answer to a
  GI is looked at, and that is the confirmation.  The fixed frames of the master
  have one byte of address, those of the slave two.  The master compares neither
  link address nor common address.  Its frame count bit is one for all channels
  and stations (iec101_master.cxx:128-129 wants it to alternate): with two
  stations on a line each sees the same bit in every GI.  The slave executes a
  command for any station and confirms it whether it was executed or not;
* IEC 103: a value is the last byte of any frame that is not 00 or FF, of a refusal
  too (TODO 103-2), and a frame ends at the first byte 16;
* IEC 104: the U frame constants are written low byte first, so their code comes last
  (00 00 00 07): the slave takes the STARTDT of its own master for an I frame
  without ASDU and ignores it, and a standard one (07 00 00 00) for a U frame that
  it does not know; it confirms neither; a send that fails in HandleFrame ends the
  process (iec104_slave.cxx:368); the master's window `sendSeq - recvSeq` is the
  difference of two independent numbers, and more than 12 unanswered sends stop GI
  and clock; the slave has no k, w, t1 to t3; its GI is asked for with common
  address 0xFFFF, which the slave has no device for; a frame of more than 60 DI
  points is longer than 249 bytes and not sent (with more than 120 points only the
  last frame may be short enough); the first frame after STARTDT is
  swallowed whatever it is; with retry_count 0 the master never connects;
* the recorder: a failed insert still counts as saved; a reload saves a sample of
  the same aligned time again and keeps points that the file no longer has; a
  clock set back makes every tick due; rt_status is not refreshed after a
  reconnection;
* CDT: station and count share one byte; a YX frame is read as YC; the check sum
  is never looked at.

## 7. Not modelled

* IEC 101 and 103: configuration, the frame count bit, the remote control of the
  IEC 101 slave (no master of this program sends one), the raw value of IEC 103.
* Packet logger: every method is one step under one mutex.
* Debug console: more than one session, login, telnet negotiation, automatic changes;
  its commands are modelled with the modules they act on.
* The slave of IEC 104 sends without a timeout: a control centre that does not read
  would hold sendMtx, and with it uploads and Stop; its connections here take what
  they are sent or break.
* PEMP remote control (06H) and clock, the PEMP frame codec, the contents of the
  frames; the write requests of the Modbus slaves; AO in the RTU master (as DO,
  without the taking back); what commands of IEC 104 set in the point table.
* Sockets, serial ports, INI reader, strings and logging (I/O and formatting
  without shared state; callers see results, exceptions and timeouts, which the
  models have), `pmpc_threads.cxx` (not in the build).
* Scale and offset of analog values, BCD, CRC: computations without state.
