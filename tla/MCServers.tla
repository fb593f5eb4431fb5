------------------------------ MODULE MCServers ------------------------------
(* Five components that do not meet, for TLC: a behaviour is one of the      *)
(* component named by part, and the others rest in their first state.        *)
(*   "pemp"     the PEMP server, with uploads of DI, AI and SOE, and stop()  *)
(*   "iec104"   the IEC 104 slave with one control centre                    *)
(*   "channel"  a channel of the IEC 104 master with one or two endpoints    *)
(*   "modbus"   the Modbus TCP slave with two listeners and two clients      *)
(*   "recorder" the data recorder                                            *)
(* DiCount = 60 in Servers.cfg is the most DI points whose answer to a GI     *)
(* fits into a frame (MaxAsdu): with more, that frame is not sent.           *)
EXTENDS Iec104Slave, ModbusTcpSlave, DataRecorder

CONSTANTS s1, c1

(* Two listeners of the Modbus slave, the second for one address only.       *)
MCFiles == {<<[port |-> 502, ip |-> ""], [port |-> 503, ip |-> "x"]>>}
MCFrom  == [m \in Master |-> IF m = "m1" THEN "x" ELSE "y"]

VARIABLES
  pempPhase, subscribed, accepting, accepts, restarts, published, handling, events,
  pc, active, waitingAck, ackAge, diAge, aiAge, batch, link, flight, taken,
  delivered, dropped, unanswered

pempVars == <<pempPhase, subscribed, accepting, accepts, restarts, published, handling, events,
              pc, active, waitingAck, ackAge, diAge, aiAge, batch, link, flight, taken,
              delivered, dropped, unanswered>>

iecVars == vars

VARIABLES
  channelAt, currentEp, tried, retryLeft, epUp, station, sendSeq, recvSeq, silence, testAge, giAge

channelVars == <<channelAt, currentEp, tried, retryLeft, epUp, station, sendSeq, recvSeq, silence,
                 testAge, giAge>>

VARIABLE part

serverVars == <<part, pempVars, iecVars, channelVars, modbusVars, recorderVars>>

-----------------------------------------------------------------------------
(* Uploads of DI and AI every 3 s; by default every 5 s.                     *)
Pemp == INSTANCE PempServer WITH
  Source <- {s1}, MaxSeq <- 1, Client <- {c1}, MaxLive <- 1, CleanupPeriod <- 1,
  NumDevices <- 1, DiInterval <- 6, AiInterval <- 6, AckTicks <- 1, MaxSize <- 0,
  CountLimit <- 2, LenLimit <- 2, Frames <- {"start", "stop"}, Quiet <- FALSE,
  Faults <- {"cut"}, MaxRestart <- 1

Channel == INSTANCE Iec104Master WITH
  at <- channelAt, up <- epUp, Fallback <- TRUE, RetryCount <- 2, SeqModulus <- 8,
  KWindow <- 2, T3 <- 2, TestLimit <- 1, GiTicks <- 2

-----------------------------------------------------------------------------
In(p) == part = p
ServersInit ==
  /\ part \in {"pemp", "iec104", "channel", "modbus", "recorder"}
  /\ Pemp!PempInit /\ Init /\ Channel!Init /\ ModbusInit
  /\ RecorderInit /\ (up \/ In("recorder")) /\ (epUp[1] = "yes" \/ In("channel"))

(* What has been stopped, or has used up its bounds, rests. *)
Rest == part \in {"iec104", "modbus", "recorder"} /\ UNCHANGED serverVars

ServersNext ==
  \/ /\ In("pemp") /\ Pemp!PempNext
     /\ UNCHANGED <<part, iecVars, channelVars, modbusVars, recorderVars>>
  \/ /\ In("iec104") /\ Next
     /\ UNCHANGED <<part, pempVars, channelVars, modbusVars, recorderVars>>
  \/ /\ In("channel") /\ Channel!Next
     /\ UNCHANGED <<part, pempVars, iecVars, modbusVars, recorderVars>>
  \/ /\ In("modbus") /\ ModbusNext
     /\ UNCHANGED <<part, pempVars, iecVars, channelVars, recorderVars>>
  \/ /\ In("recorder") /\ RecorderNext
     /\ UNCHANGED <<part, pempVars, iecVars, channelVars, modbusVars>>
  \/ Rest

(* The fairness of each component, stated for the behaviours that are its.   *)
Fairness ==
  /\ WF_pempVars(In("pemp") /\ Pemp!Server)
  /\ WF_pempVars(In("pemp") /\ Pemp!Handle(s1))
  /\ WF_pempVars(In("pemp") /\ Pemp!Handler(c1))
  /\ WF_pempVars(In("pemp") /\ Pemp!Read(c1))
  /\ WF_iecVars(In("iec104") /\ StopStep)
  /\ WF_iecVars(In("iec104") /\ Handle(c1))
  /\ \A u \in Uploader : WF_iecVars(In("iec104") /\ Upload(u))
  /\ WF_channelVars(In("channel") /\ Channel!ChannelThread)
  /\ WF_modbusVars(In("modbus") /\ GoOnStopping)
  /\ \A m \in Master : WF_modbusVars(In("modbus") /\ Serve(m))
  /\ \A i \in {1, 2} : WF_modbusVars(In("modbus") /\ AcceptThread(i))
  /\ WF_recorderVars(In("recorder") /\ RecorderTimer)
  /\ WF_recorderVars(In("recorder") /\ Publisher)
  /\ WF_recorderVars(In("recorder") /\ StopEnds)

ServersSpec == ServersInit /\ [][ServersNext]_serverVars /\ Fairness

-----------------------------------------------------------------------------
(* SOE is uploaded sooner or later to a master that goes on reading.         *)
SoeUploaded == In("pemp") => Pemp!SoeUploaded

(* Fix L6: stop() of the PEMP server joins its threads and comes back.       *)
PempStopReturns == In("pemp") => Pemp!PempStops

(* Stop() of the IEC 104 slave comes back, or the process was ended.         *)
Iec104StopReturns == In("iec104") => StopReturns

(* An IEC 104 station that is silent or gone is given up (TESTFR, T3).       *)
DeadPeerNoticed == In("channel") => Channel!DeadPeerNoticed

(* The channel finds the endpoint that stays reachable (standby_ip, fallback). *)
Reconnects == In("channel") => Channel!Reconnects

(* Stop() of the Modbus slave comes back once its clients have gone.         *)
ModbusStopReturns == In("modbus") => StopJoinsAll

(* The recorder gets its connection back when the server does (TimerThread). *)
RecorderRecovers == In("recorder") => Recovers
=============================================================================
