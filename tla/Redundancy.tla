----------------------------- MODULE Redundancy -----------------------------
(***************************************************************************)
(* The dual-machine redundancy manager (src/src/redundancy.cxx) running on *)
(* the machines of one redundant pair, with the TCP heartbeat connections  *)
(* between them.                                                           *)
(*                                                                         *)
(* Every manager has a HeartbeatLoop thread that owns the outgoing socket, *)
(* a ListenLoop thread that serves one incoming connection at a time, and  *)
(* may be called by the debug console.  Each of the three can reach        *)
(* SetRole; pc[n][t] is where thread t of machine n stands on the way:     *)
(*   "loop"    not inside CheckFailover or SetRole                         *)
(*   "check"   about to run CheckFailover                                  *)
(*   "apply"   has decided on decided[n][t], waits for roleMtx_            *)
(*   "switch"  holds roleMtx_, role_ is written, sync channel and          *)
(*             collectors are not switched yet                             *)
(***************************************************************************)
EXTENDS Naturals, Sequences

CONSTANTS
  Node,            \* the two machines
  Peer,            \* Peer[n]: the machine peer_ip of n points to
  Priority,        \* Priority[n]: "priority" of redundancy.ini, as uint16
  WinsTie,         \* WinsTie[n]: local_name of n sorts before its peer_ip
  MissedLimit,     \* missed_heartbeat_limit
  RecvTimeoutCode, \* RecvTimeoutCode[n]: what socket::recv of n throws when
                   \* SO_RCVTIMEO expires, a matter of its platform
  Unbound,         \* machines that cannot bind heartbeat_port: Start is content
                   \* with that, and there is no ListenLoop
  MaxConn,         \* bound: connections a listener holds (served + backlog)
  MaxFrames,       \* bound: heartbeats in flight on one connection
  MaxCrash,        \* bound: crashes in one behaviour
  MaxConsole,      \* bound: "role" commands in one behaviour
  MaxReload        \* bound: Stop/Start cycles of the manager

MaxUint16 == 65535
Uint16    == 0 .. MaxUint16    \* what a heartbeat frame carries as priority

Role    == {"Idle", "Standby", "Master"}
Thread  == {"send", "listen", "console"}
NoThread == "none"

ASSUME PairAssumption ==
  /\ Node # {} /\ Peer \in [Node -> Node]
  /\ \A n \in Node : Peer[n] # n /\ Peer[Peer[n]] = n

ASSUME ConfigAssumption ==
  /\ Priority \in [Node -> Uint16]
  /\ WinsTie \in [Node -> BOOLEAN]
  /\ MissedLimit \in Nat \ {0}
  /\ RecvTimeoutCode \in [Node -> {"timeout", "would_block"}]
  /\ Unbound \subseteq Node

ASSUME BoundAssumption ==
  /\ MaxConn \in Nat \ {0} /\ MaxFrames \in Nat \ {0}
  /\ MaxCrash \in Nat /\ MaxConsole \in Nat /\ MaxReload \in Nat

VARIABLES
  proc,         \* life of the manager, see ProcState
  role,         \* role_
  peerAlive,    \* peerAlive_
  peerRole,     \* peerRole_
  peerPriority, \* peerPriority_
  missed,       \* missedHeartbeats_, saturated at MissedLimit
  pc,           \* position of each thread, see above
  decided,      \* the role a thread is about to hand to SetRole
  roleMtx,      \* holder of roleMtx_
  sync,         \* what syncChannel_ runs: "off", "master" or "standby"
  collecting,   \* whether the collector modules were last started
  hbSend,       \* hbSendSock_: "closed", "open", "broken" (peer end is gone)
  inbound,      \* connections of a listener, the served one first
  reading,      \* ListenLoop is inside its receive loop
  budget        \* what is left of the bounds on the environment

local   == <<role, peerAlive, peerRole, peerPriority, missed>>
threads == <<pc, decided, roleMtx>>
effects == <<sync, collecting>>
net     == <<hbSend, inbound, reading>>
vars    == <<proc, local, threads, effects, net, budget>>

\* "starting" is Start() before startupCompleteTime_; "stopping" is Stop()
\* up to the close of the sockets and of the sync channel, "joining" its wait
\* for the two threads; a "down" machine has no process at all.
ProcState == {"down", "starting", "up", "stopping", "joining", "stopped"}
Running(n) == proc[n] \in {"starting", "up"}     \* running_

Heartbeat == [role : Role, priority : Uint16]
Conn      == [frames : Seq(Heartbeat), eof : BOOLEAN]

-----------------------------------------------------------------------------
(* Role decision *)

\* The higher priority wins, equal priorities are broken by the names.
Outranks(localPri, peerPri, tie) == localPri > peerPri \/ (localPri = peerPri /\ tie)

\* Mutant: start-up negotiation ignores the priorities.
DecideRoleIgnoresPriority(r, pr, alive, miss, localPri, peerPri, tie) ==
  CASE ~alive /\ miss >= MissedLimit /\ r # "Master" -> "Master"
    [] alive /\ r = "Idle"                           -> IF pr = "Master" THEN "Standby" ELSE "Master"
    [] OTHER                                         -> r

\* Mutant: a Master that hears another Master stays.
DecideRoleKeepsMaster(r, pr, alive, miss, localPri, peerPri, tie) ==
  IF r = "Master" \/ ~alive THEN r
  ELSE IF pr # "Master" /\ Outranks(localPri, peerPri, tie) THEN "Master" ELSE "Standby"

\* Mutant: any Idle machine becomes the Standby of an alive peer.
DecideRoleTimid(r, pr, alive, miss, localPri, peerPri, tie) ==
  IF alive /\ r = "Idle" THEN "Standby" ELSE r

DecideRole(r, pr, alive, miss, localPri, peerPri, tie) ==
  LET wins == Outranks(localPri, peerPri, tie) IN
  CASE ~alive /\ miss >= MissedLimit /\ r # "Master"       -> "Master"
    [] alive /\ r = "Idle" /\ pr # "Master" /\ wins         -> "Master"
    [] alive /\ r = "Idle" /\ ~(pr # "Master" /\ wins)      -> "Standby"
    [] alive /\ r = "Master" /\ pr = "Master" /\ ~wins      -> "Standby"
    [] OTHER                                                -> r

\* missedHeartbeats_++ ; only its comparison with the limit is ever read.
Bump(m) == IF m < MissedLimit THEN m + 1 ELSE m

CheckFailover(n, t) ==
  LET miss == IF peerAlive[n] THEN missed[n] ELSE Bump(missed[n])
      next == DecideRole(role[n], peerRole[n], peerAlive[n], miss,
                         Priority[n], peerPriority[n], WinsTie[n])
  IN
  /\ pc[n][t] = "check"
  /\ IF proc[n] = "up"
     THEN /\ missed' = [missed EXCEPT ![n] = miss]
          /\ pc' = [pc EXCEPT ![n][t] = IF next # role[n] THEN "apply" ELSE "loop"]
          /\ decided' = [decided EXCEPT ![n][t] = IF next # role[n] THEN next ELSE "Idle"]
     ELSE /\ pc' = [pc EXCEPT ![n][t] = "loop"]
          /\ UNCHANGED <<missed, decided>>
  /\ UNCHANGED <<proc, role, peerAlive, peerRole, peerPriority, roleMtx, effects, net, budget>>

\* Mutant: SetRole before fix C5, role_ written without the mutex.
SetRoleUnlocked(n, t) ==
  /\ pc[n][t] = "apply"
  /\ pc' = [pc EXCEPT ![n][t] = IF role[n] = decided[n][t] THEN "loop" ELSE "switch"]
  /\ role' = [role EXCEPT ![n] = decided[n][t]]
  /\ decided' = [decided EXCEPT ![n][t] = IF role[n] = @ THEN "Idle" ELSE @]
  /\ UNCHANGED <<proc, peerAlive, peerRole, peerPriority, missed, roleMtx, effects, net, budget>>

\* SetRole up to the write of role_: the mutex is taken, an equal role returns.
SetRole(n, t) ==
  /\ pc[n][t] = "apply"
  /\ roleMtx[n] = NoThread
  /\ IF role[n] = decided[n][t]
     THEN /\ pc' = [pc EXCEPT ![n][t] = "loop"]
          /\ decided' = [decided EXCEPT ![n][t] = "Idle"]
          /\ UNCHANGED <<role, roleMtx>>
     ELSE /\ pc' = [pc EXCEPT ![n][t] = "switch"]
          /\ role' = [role EXCEPT ![n] = decided[n][t]]
          /\ roleMtx' = [roleMtx EXCEPT ![n] = t]
          /\ UNCHANGED decided
  /\ UNCHANGED <<proc, peerAlive, peerRole, peerPriority, missed, effects, net, budget>>

\* What syncChannel_ may run after Stop and StartMaster / StartStandby: the
\* bind of the master's port can fail and leaves it off.
SyncOutcome(r) ==
  CASE r = "Master"  -> {"master", "off"}
    [] r = "Standby" -> {"standby"}
    [] OTHER         -> {"off"}

\* The rest of SetRole: syncChannel_ is switched, then collectCb_ runs.
FinishSetRole(n, t) ==
  /\ pc[n][t] = "switch"
  /\ \E s \in SyncOutcome(decided[n][t]) : sync' = [sync EXCEPT ![n] = s]
  /\ collecting' = [collecting EXCEPT ![n] = (decided[n][t] = "Master")]
  /\ pc' = [pc EXCEPT ![n][t] = "loop"]
  /\ decided' = [decided EXCEPT ![n][t] = "Idle"]
  /\ roleMtx' = [roleMtx EXCEPT ![n] = NoThread]
  /\ UNCHANGED <<proc, local, net, budget>>

\* RequestRoleChange: the console's "role" command, whether the manager runs
\* or not.
RequestRoleChange(n, r) ==
  /\ proc[n] # "down" /\ pc[n]["console"] = "loop"
  /\ budget.console > 0
  /\ budget' = [budget EXCEPT !.console = @ - 1]
  /\ pc' = [pc EXCEPT ![n]["console"] = "apply"]
  /\ decided' = [decided EXCEPT ![n]["console"] = r]
  /\ UNCHANGED <<proc, local, roleMtx, effects, net>>

-----------------------------------------------------------------------------
(* HeartbeatLoop *)

\* Mutant: the priority leaves the machine without its cast to uint16.
FrameUncast(n) == [role |-> role[n], priority |-> Priority[n] + 65536]

\* Mutant: before fix C4 the frame carried no priority.
FrameWithoutPriority(n) == [role |-> role[n], priority |-> 0]

Frame(n) == [role |-> role[n], priority |-> Priority[n]]

\* One iteration with a closed socket: connect, then send the first frame.
ConnectAndSend(n) ==
  /\ proc[n] = "up" /\ pc[n]["send"] = "loop" /\ hbSend[n] = "closed"
  /\ Running(Peer[n]) /\ Peer[n] \notin Unbound /\ Len(inbound[Peer[n]]) < MaxConn
  /\ hbSend' = [hbSend EXCEPT ![n] = "open"]
  /\ inbound' = [inbound EXCEPT ![Peer[n]] =
                   Append(@, [frames |-> <<Frame(n)>>, eof |-> FALSE])]
  /\ UNCHANGED <<proc, local, threads, effects, reading, budget>>

\* One iteration with an open socket.
SendHeartbeat(n) ==
  LET last == Len(inbound[Peer[n]]) IN
  /\ proc[n] = "up" /\ pc[n]["send"] = "loop" /\ hbSend[n] = "open"
  /\ Len(inbound[Peer[n]][last].frames) < MaxFrames
  /\ inbound' = [inbound EXCEPT ![Peer[n]][last].frames = Append(@, Frame(n))]
  /\ UNCHANGED <<proc, local, threads, effects, hbSend, reading, budget>>

\* The send throws: the socket is closed and CheckFailover is called, both
\* under hbMtx_.  TCP may accept (and lose) any number of frames before.
SendFails(n) ==
  /\ proc[n] = "up" /\ pc[n]["send"] = "loop" /\ hbSend[n] = "broken"
  /\ hbSend' = [hbSend EXCEPT ![n] = "closed"]
  /\ peerAlive' = [peerAlive EXCEPT ![n] = FALSE]
  /\ pc' = [pc EXCEPT ![n]["send"] = "check"]
  /\ UNCHANGED <<proc, role, peerRole, peerPriority, missed, decided, roleMtx,
                 effects, inbound, reading, budget>>

-----------------------------------------------------------------------------
(* ListenLoop *)

Listening(n) == Running(n) /\ pc[n]["listen"] = "loop"

Accept(n) ==
  /\ Listening(n) /\ ~reading[n] /\ inbound[n] # <<>>
  /\ reading' = [reading EXCEPT ![n] = TRUE]
  /\ UNCHANGED <<proc, local, threads, effects, hbSend, inbound, budget>>

\* A complete frame: the fields are stored, then CheckFailover is called.
ReceiveHeartbeat(n) ==
  LET hb == Head(Head(inbound[n]).frames) IN
  /\ Listening(n) /\ reading[n] /\ Head(inbound[n]).frames # <<>>
  /\ inbound' = [inbound EXCEPT ![n][1].frames = Tail(@)]
  /\ missed' = [missed EXCEPT ![n] = 0]
  /\ peerRole' = [peerRole EXCEPT ![n] = hb.role]
  /\ peerPriority' = [peerPriority EXCEPT ![n] = hb.priority]
  /\ peerAlive' = [peerAlive EXCEPT ![n] = TRUE]
  /\ pc' = [pc EXCEPT ![n]["listen"] = "check"]
  /\ UNCHANGED <<proc, role, decided, roleMtx, effects, hbSend, reading, budget>>

Drained(n) == reading[n] /\ Head(inbound[n]).frames = <<>>

\* The served connection is closed and the next accept is entered.
DropServed(n) ==
  /\ inbound' = [inbound EXCEPT ![n] = Tail(@)]
  /\ reading' = [reading EXCEPT ![n] = FALSE]

\* recv returned 0: peerAlive_ is left as it is.
PeerClosed(n) ==
  /\ Listening(n) /\ Drained(n) /\ Head(inbound[n]).eof
  /\ DropServed(n)
  /\ UNCHANGED <<proc, local, threads, effects, hbSend, budget>>

\* SO_RCVTIMEO expired, reported as socket_errc::timeout (Windows) and the
\* silence has lasted missedHeartbeatLimit_ intervals: the first time, the
\* peer is marked offline and CheckFailover called; later times do nothing.
PeerSilent(n) ==
  /\ RecvTimeoutCode[n] = "timeout"
  /\ Listening(n) /\ Drained(n) /\ ~Head(inbound[n]).eof
  /\ peerAlive[n]
  /\ peerAlive' = [peerAlive EXCEPT ![n] = FALSE]
  /\ pc' = [pc EXCEPT ![n]["listen"] = "check"]
  /\ UNCHANGED <<proc, role, peerRole, peerPriority, missed, decided, roleMtx,
                 effects, net, budget>>

\* The same expiry reported as would_block (POSIX): not a timeout for
\* ListenLoop, which closes the connection under the peer.
TimeoutDrops(n) ==
  /\ RecvTimeoutCode[n] = "would_block"
  /\ Listening(n) /\ Drained(n) /\ ~Head(inbound[n]).eof
  /\ DropServed(n)
  /\ hbSend' = [hbSend EXCEPT ![Peer[n]] =
                  IF @ = "open" /\ Len(inbound[n]) = 1 THEN "broken" ELSE @]
  /\ UNCHANGED <<proc, local, threads, effects, budget>>

-----------------------------------------------------------------------------
(* Start, Stop and the machines themselves *)

\* The far ends of machine n's sockets once n's side is gone.  A machine that
\* loses power sends no FIN: its peer keeps a connection nobody writes to.
Hangup(n, fin) ==
  /\ inbound' = [m \in Node |->
       IF m = n THEN <<>>
       ELSE IF m = Peer[n] /\ hbSend[n] = "open" /\ fin
            THEN [inbound[m] EXCEPT ![Len(inbound[m])].eof = TRUE]
            ELSE inbound[m]]
  /\ hbSend' = [m \in Node |->
       IF m = n THEN "closed"
       ELSE IF m = Peer[n] /\ hbSend[m] = "open" THEN "broken" ELSE hbSend[m]]
  /\ reading' = [reading EXCEPT ![n] = FALSE]

\* A process starts: StartAll starts the collectors and then this manager.
Boot(n) ==
  /\ proc[n] = "down"
  /\ proc' = [proc EXCEPT ![n] = "starting"]
  /\ collecting' = [collecting EXCEPT ![n] = TRUE]
  /\ UNCHANGED <<local, threads, sync, net, budget>>

StartupDone(n) ==
  /\ proc[n] = "starting"
  /\ proc' = [proc EXCEPT ![n] = "up"]
  /\ UNCHANGED <<local, threads, effects, net, budget>>

\* The process ends at any point; nothing of it is kept.
Crash(n, fin) ==
  /\ proc[n] # "down" /\ budget.crash > 0
  /\ budget' = [budget EXCEPT !.crash = @ - 1]
  /\ proc' = [proc EXCEPT ![n] = "down"]
  /\ role' = [role EXCEPT ![n] = "Idle"]
  /\ peerAlive' = [peerAlive EXCEPT ![n] = FALSE]
  /\ peerRole' = [peerRole EXCEPT ![n] = "Idle"]
  /\ peerPriority' = [peerPriority EXCEPT ![n] = 0]
  /\ missed' = [missed EXCEPT ![n] = 0]
  /\ pc' = [pc EXCEPT ![n] = [t \in Thread |-> "loop"]]
  /\ decided' = [decided EXCEPT ![n] = [t \in Thread |-> "Idle"]]
  /\ roleMtx' = [roleMtx EXCEPT ![n] = NoThread]
  /\ sync' = [sync EXCEPT ![n] = "off"]
  /\ collecting' = [collecting EXCEPT ![n] = FALSE]
  /\ Hangup(n, fin)

\* Stop(), first statement: running_ = false.
StopRequest(n) ==
  /\ Running(n) /\ budget.reload > 0
  /\ budget' = [budget EXCEPT !.reload = @ - 1]
  /\ proc' = [proc EXCEPT ![n] = "stopping"]
  /\ UNCHANGED <<local, threads, effects, net>>

\* Stop() has hbMtx_, closes the sockets and stops the sync channel without
\* roleMtx_; role_ keeps its value.
StopClose(n) ==
  /\ proc[n] = "stopping" /\ pc[n]["send"] = "loop"
  /\ proc' = [proc EXCEPT ![n] = "joining"]
  /\ sync' = [sync EXCEPT ![n] = "off"]
  /\ Hangup(n, TRUE)
  /\ UNCHANGED <<local, threads, collecting, budget>>

\* Stop() joins the two threads.
StopJoin(n) ==
  /\ proc[n] = "joining"
  /\ pc[n]["send"] = "loop" /\ pc[n]["listen"] = "loop"
  /\ proc' = [proc EXCEPT ![n] = "stopped"]
  /\ UNCHANGED <<local, threads, effects, net, budget>>

\* Start() of a stopped manager: the role is reset without roleMtx_, the
\* peer's last role and priority stay, nothing is done about the collectors.
Restart(n) ==
  /\ proc[n] = "stopped"
  /\ proc' = [proc EXCEPT ![n] = "starting"]
  /\ role' = [role EXCEPT ![n] = "Idle"]
  /\ peerAlive' = [peerAlive EXCEPT ![n] = FALSE]
  /\ missed' = [missed EXCEPT ![n] = 0]
  /\ UNCHANGED <<peerRole, peerPriority, threads, effects, net, budget>>

-----------------------------------------------------------------------------
Init ==
  /\ proc = [n \in Node |-> "down"]
  /\ role = [n \in Node |-> "Idle"]
  /\ peerAlive = [n \in Node |-> FALSE]
  /\ peerRole = [n \in Node |-> "Idle"]
  /\ peerPriority = [n \in Node |-> 0]
  /\ missed = [n \in Node |-> 0]
  /\ pc = [n \in Node |-> [t \in Thread |-> "loop"]]
  /\ decided = [n \in Node |-> [t \in Thread |-> "Idle"]]
  /\ roleMtx = [n \in Node |-> NoThread]
  /\ sync = [n \in Node |-> "off"]
  /\ collecting = [n \in Node |-> FALSE]
  /\ hbSend = [n \in Node |-> "closed"]
  /\ inbound = [n \in Node |-> <<>>]
  /\ reading = [n \in Node |-> FALSE]
  /\ budget = [crash |-> MaxCrash, console |-> MaxConsole, reload |-> MaxReload]

RoleStep(n) == \E t \in Thread : CheckFailover(n, t) \/ SetRole(n, t) \/ FinishSetRole(n, t)
SendStep(n) == ConnectAndSend(n) \/ SendHeartbeat(n) \/ SendFails(n)
ListenStep(n) == Accept(n) \/ ReceiveHeartbeat(n) \/ PeerClosed(n) \/ PeerSilent(n) \/ TimeoutDrops(n)
LifeStep(n) == Boot(n) \/ StartupDone(n) \/ StopClose(n) \/ StopJoin(n) \/ Restart(n)
Environment(n) ==
  \/ \E fin \in BOOLEAN : Crash(n, fin)
  \/ StopRequest(n)
  \/ \E r \in Role : RequestRoleChange(n, r)

Next == \E n \in Node : RoleStep(n) \/ SendStep(n) \/ ListenStep(n) \/ LifeStep(n) \/ Environment(n)

Spec == Init /\ [][Next]_vars

\* The threads of a running process are scheduled; a TCP write to a dead peer
\* fails in the end; a manager being stopped is started again by the reload
\* that stopped it.  Machines need not boot and the operator need not type.
Fairness ==
  \A n \in Node :
    /\ \A t \in Thread : /\ WF_vars(CheckFailover(n, t))
                         /\ WF_vars(SetRole(n, t))
                         /\ WF_vars(FinishSetRole(n, t))
    /\ WF_vars(ConnectAndSend(n)) /\ WF_vars(SendHeartbeat(n)) /\ WF_vars(SendFails(n))
    /\ WF_vars(Accept(n)) /\ WF_vars(ReceiveHeartbeat(n))
    /\ WF_vars(PeerClosed(n)) /\ WF_vars(PeerSilent(n)) /\ WF_vars(TimeoutDrops(n))
    /\ WF_vars(StartupDone(n)) /\ WF_vars(StopClose(n)) /\ WF_vars(StopJoin(n)) /\ WF_vars(Restart(n))

FairSpec == Spec /\ Fairness
-----------------------------------------------------------------------------
(* Properties *)

LifeTypes ==
  /\ proc \in [Node -> ProcState]
  /\ budget \in [crash : 0 .. MaxCrash, console : 0 .. MaxConsole, reload : 0 .. MaxReload]

RoleTypes ==
  /\ role \in [Node -> Role] /\ peerRole \in [Node -> Role]
  /\ peerAlive \in [Node -> BOOLEAN]
  /\ peerPriority \in [Node -> Uint16]
  /\ missed \in [Node -> 0 .. MissedLimit]

ThreadTypes ==
  /\ pc \in [Node -> [Thread -> {"loop", "check", "apply", "switch"}]]
  /\ decided \in [Node -> [Thread -> Role]]
  /\ roleMtx \in [Node -> Thread \cup {NoThread}]

EffectTypes ==
  /\ sync \in [Node -> {"off", "master", "standby"}]
  /\ collecting \in [Node -> BOOLEAN]

NetTypes ==
  /\ hbSend \in [Node -> {"closed", "open", "broken"}]
  /\ inbound \in [Node -> Seq(Conn)]
  /\ reading \in [Node -> BOOLEAN]

TypeOK == LifeTypes /\ RoleTypes /\ ThreadTypes /\ EffectTypes /\ NetTypes

\* SetRole is serialised (redundancy.h, fix C5): whenever no thread is inside
\* it, a running Master has its collectors started and no standby receiver,
\* and a running Standby has them stopped and only the receiver.
EffectsFollowRole ==
  \A n \in Node :
    Running(n) /\ roleMtx[n] = NoThread /\ role[n] # "Idle"
      => sync[n] \in SyncOutcome(role[n]) /\ collecting[n] = (role[n] = "Master")

\* No crash, no console command and no reload so far.
Undisturbed == budget = [crash |-> MaxCrash, console |-> MaxConsole, reload |-> MaxReload]
Unforced    == budget.console = MaxConsole /\ budget.reload = MaxReload

DualMaster == \A n \in Node : role[n] = "Master"

\* Start-up negotiation, heartbeat loss below the limit and a crash never make
\* both machines Master (DecideRole's rules for Idle, fix RD-1); only the
\* operator's "role" command can.
NeverDualMaster == Unforced => ~DualMaster

\* Decisions are taken with the peer's configured priority (fix C4): a peer
\* marked alive has told it.
PriorityKnown ==
  \A n \in Node : peerAlive[n] => peerPriority[n] = Priority[Peer[n]]

AllUp == \A n \in Node : proc[n] = "up"
OneMaster == \E n \in Node : role[n] = "Master" /\ role[Peer[n]] = "Standby"

\* Two Masters of different priority hear each other and one steps down, if no
\* crash has left the listener of one with a connection nobody writes to.
DualMasterHeals == ~<>[](DualMaster /\ AllUp /\ budget.crash = MaxCrash)

\* A pair whose machines both stay up, undisturbed, ends with one Master and
\* one Standby.
PairSettles == <>[](AllUp /\ Undisturbed) => <>[]OneMaster

\* The documented failover: a Standby whose peer stays away becomes Master.
FailoverHappens ==
  \A n \in Node :
    (role[n] = "Standby" /\ proc[n] = "up" /\ proc[Peer[n]] = "down")
      ~> (role[n] = "Master" \/ proc[n] # "up" \/ proc[Peer[n]] # "down")
=============================================================================
