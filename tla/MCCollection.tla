---------------------------- MODULE MCCollection -----------------------------
(* The module manager and the write side of the Modbus TCP master, which do  *)
(* not meet here, for TLC: a behaviour is one of the component named by part, *)
(* and the other rests in its first state.                                   *)
EXTENDS ModuleManager, TLC

CONSTANTS do1, ao1, k1, adr1, adr2

VARIABLES
  target, sent, output, scanning, pc, todo, cur, link, pulseQueue, pulseMtx, pos, asked,
  confirmed, reloads

writerVars == <<target, sent, output, scanning, pc, todo, cur, link, pulseQueue, pulseMtx,
                pos, asked, confirmed, reloads>>

VARIABLE part

(* A coil with a pulse and a register on one channel.                        *)
Writer == INSTANCE ModbusTcpMaster WITH
  running <- scanning,
  Point <- {do1, ao1}, Channel <- {k1}, ChannelOf <- [p \in {do1, ao1} |-> k1],
  Address <- (do1 :> adr1) @@ (ao1 :> adr2), IsAo <- (do1 :> FALSE) @@ (ao1 :> TRUE),
  Invert <- [p \in {do1, ao1} |-> FALSE], Pulsed <- (do1 :> TRUE) @@ (ao1 :> FALSE),
  Commanded <- (do1 :> {1}) @@ (ao1 :> {1, 2}), Faults <- {"error"},
  EarlyCommands <- FALSE, MaxValue <- 2, MaxCommands <- 2, MaxPulses <- 2, MaxReload <- 0

In(p) == part = p

InitOne == part \in {"manager", "writer"} /\ Init /\ Writer!Init

NextOne ==
  \/ In("manager") /\ Next /\ UNCHANGED <<part, writerVars>>
  \/ In("writer") /\ Writer!Next /\ UNCHANGED <<part, vars>>

(* The fairness of each component, stated for the behaviours that are its.   *)
(* Of the manager's threads only that of the role asks for mgrMtx_ when the  *)
(* operator types nothing (Targets = {}).                                    *)
FairnessOne ==
  /\ \A t \in Thread : WF_vars(In("manager") /\ phase # "crashed" /\ CallStep(t))
  /\ SF_vars(In("manager") /\ phase # "crashed" /\ Lock("role"))
  /\ WF_vars(In("manager") /\ phase # "crashed" /\ MainStep)
  /\ WF_vars(In("manager") /\ phase # "crashed" /\ CollectCallback)
  /\ WF_vars(In("manager") /\ phase # "crashed" /\ WatchEnd)
  /\ \A i \in Module : WF_vars(In("manager") /\ phase # "crashed" /\ WatchScan(i))
  /\ WF_writerVars(In("writer") /\ Writer!ThreadStep(k1))
  /\ SF_writerVars(In("writer") /\ Writer!EnterPulses(k1))
  /\ SF_writerVars(In("writer") /\ Writer!Schedule(k1))
  /\ SF_writerVars(In("writer") /\ Writer!Send(k1, "ok"))
  /\ SF_writerVars(In("writer") /\ Writer!SendPulse(k1, "ok"))
  /\ SF_writerVars(In("writer") /\ Writer!NextScan(k1))
  /\ WF_writerVars(In("writer") /\ Writer!EndScan(k1))
  /\ WF_writerVars(In("writer") /\ Writer!PulseDue)
  /\ WF_writerVars(In("writer") /\ Writer!Restart)

FairSpecOne == InitOne /\ [][NextOne]_<<part, vars, writerVars>> /\ FairnessOne

(* An ON command is executed and taken back (WriteDOChanges). *)
OnConsumed == Writer!OnConsumed

(* A register ends with the value of its set point (WriteAOChanges). *)
AoFollows == Writer!AoFollows

(* An output switched on by a pulsed point is switched off again (pulse_ms). *)
PulseEnds == Writer!PulseEnds
=============================================================================
