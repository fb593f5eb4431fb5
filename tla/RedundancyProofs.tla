-------------------------- MODULE RedundancyProofs --------------------------
(***************************************************************************)
(* Safety of Redundancy for every pair of machines, every configuration    *)
(* and every bound: types, the effects of a role change under the mutex,   *)
(* and the priority a decision is taken with.                              *)
(***************************************************************************)
EXTENDS Redundancy, SequenceTheorems, TLAPS

\* The inductive invariant behind EffectsFollowRole and PriorityKnown.
MutexHeld == \A n \in Node, t \in Thread : pc[n][t] = "switch" <=> roleMtx[n] = t

SwitchesToRole ==
  \A n \in Node, t \in Thread :
    pc[n][t] = "switch" => role[n] \in {decided[n][t], "Idle"}

DownIsReset ==
  \A n \in Node : proc[n] = "down" =>
    role[n] = "Idle" /\ \A t \in Thread : pc[n][t] = "loop"

HonestConn(n) ==
  [frames : Seq([role : Role, priority : {Priority[Peer[n]]}]), eof : BOOLEAN]

LinkInv ==
  \A n \in Node :
    /\ inbound[n] \in Seq(HonestConn(n))
    /\ reading[n] => inbound[n] # <<>>
    /\ hbSend[Peer[n]] = "open" => inbound[n] # <<>> /\ ~inbound[n][Len(inbound[n])].eof

IInv == TypeOK /\ MutexHeld /\ SwitchesToRole /\ DownIsReset /\ LinkInv
        /\ EffectsFollowRole /\ PriorityKnown

-----------------------------------------------------------------------------
(* Lemmas about the operators of the model *)

\* DecideRole only answers with a role.
LEMMA DecideRoleType ==
  ASSUME NEW r \in Role, NEW pr, NEW alive, NEW miss, NEW localPri, NEW peerPri, NEW tie
  PROVE  DecideRole(r, pr, alive, miss, localPri, peerPri, tie) \in Role
  BY DEF DecideRole, Role


\* The priority that is not known yet.
LEMMA ZeroIsUint16 == 0 \in Uint16
  BY DEF Uint16, MaxUint16

\* Replacing an element keeps a sequence's set, its length and the others.
LEMMA ExceptConn ==
  ASSUME NEW S, NEW s \in Seq(S), NEW i \in 1 .. Len(s), NEW e \in S
  PROVE  /\ [s EXCEPT ![i] = e] \in Seq(S)
         /\ Len([s EXCEPT ![i] = e]) = Len(s)
         /\ \A j \in 1 .. Len(s) : j # i => [s EXCEPT ![i] = e][j] = s[j]
         /\ [s EXCEPT ![i] = e][i] = e
  BY ExceptSeq

\* A connection that carries honest frames is a connection.
LEMMA HonestIsTyped ==
  ASSUME NEW n \in Node
  PROVE  Seq(HonestConn(n)) \subseteq Seq(Conn)
<1>1. Priority[Peer[n]] \in Uint16
  BY ConfigAssumption, PairAssumption
<1>2. [role : Role, priority : {Priority[Peer[n]]}] \subseteq Heartbeat
  BY <1>1 DEF Heartbeat
<1>3. \A s \in Seq([role : Role, priority : {Priority[Peer[n]]}]) : s \in Seq(Heartbeat)
  BY <1>2, SeqMonotonic
<1>4. HonestConn(n) \subseteq Conn
  BY <1>3 DEF HonestConn, Conn
<1>5. \A s \in Seq(HonestConn(n)) : s \in Seq(Conn)
  BY <1>4, SeqMonotonic
<1>. QED  BY <1>5

\* Appending to a sequence of S.
LEMMA AppendTyped ==
  ASSUME NEW S, NEW s \in Seq(S), NEW e \in S
  PROVE  /\ Append(s, e) \in Seq(S) /\ Append(s, e) # <<>>
         /\ Len(Append(s, e)) = Len(s) + 1
         /\ Append(s, e)[Len(s) + 1] = e
  BY AppendProperties

-----------------------------------------------------------------------------
(* The initial states *)

\* Two machines at rest.
LEMMA InitIInv ==
  ASSUME Init
  PROVE  IInv
<1>1. TypeOK
  BY ZeroIsUint16, ConfigAssumption, BoundAssumption DEF Init, TypeOK, LifeTypes, RoleTypes, ThreadTypes, EffectTypes, NetTypes,
     Role, Thread, ProcState
<1>2. MutexHeld /\ SwitchesToRole /\ DownIsReset
  BY DEF Init, MutexHeld, SwitchesToRole, DownIsReset, Thread, NoThread
<1>3. LinkInv
  BY EmptySeq, PairAssumption DEF Init, LinkInv
<1>4. EffectsFollowRole /\ PriorityKnown
  BY DEF Init, EffectsFollowRole, PriorityKnown, Running
<1>. QED  BY <1>1, <1>2, <1>3, <1>4 DEF IInv

-----------------------------------------------------------------------------
(* The mutex: what a step does to roleMtx_, role_ and the threads' positions *)

\* Every step keeps roleMtx_ with the thread that switches, the switched role
\* in role_ (or Idle, after a restart), and a powered-off machine empty.
LEMMA MutexStep ==
  ASSUME IInv, [Next]_vars
  PROVE  (MutexHeld /\ SwitchesToRole /\ DownIsReset)'
<1>. USE DEF MutexHeld, SwitchesToRole, DownIsReset
<1>t. /\ pc \in [Node -> [Thread -> {"loop", "check", "apply", "switch"}]]
      /\ decided \in [Node -> [Thread -> Role]]
      /\ roleMtx \in [Node -> Thread \cup {NoThread}]
      /\ role \in [Node -> Role] /\ proc \in [Node -> ProcState]
      /\ MutexHeld /\ SwitchesToRole /\ DownIsReset
      /\ NoThread \notin Thread
  BY DEF IInv, TypeOK, LifeTypes, RoleTypes, ThreadTypes, EffectTypes, NoThread, Thread
<1>1. ASSUME NEW n \in Node, NEW t \in Thread, CheckFailover(n, t)
      PROVE  (MutexHeld /\ SwitchesToRole /\ DownIsReset)'
  <2>1. PICK v \in {"apply", "loop"} : pc' = [pc EXCEPT ![n][t] = v]
    BY <1>1 DEF CheckFailover
  <2>2. pc[n][t] = "check" /\ UNCHANGED <<proc, role, roleMtx>>
    BY <1>1 DEF CheckFailover
  <2>3. \A m \in Node, u \in Thread : pc[m][u] = "switch" => decided'[m][u] = decided[m][u]
    <3>1. UNCHANGED decided \/ \E d : decided' = [decided EXCEPT ![n][t] = d]
      BY <1>1 DEF CheckFailover
    <3>2. ASSUME NEW d, decided' = [decided EXCEPT ![n][t] = d],
                 NEW m \in Node, NEW u \in Thread, pc[m][u] = "switch"
          PROVE  decided'[m][u] = decided[m][u]
      <4>1. m # n \/ u # t
        BY <2>2, <3>2
      <4>. QED  BY <1>t, <3>2, <4>1
    <3>. QED  BY <3>1, <3>2
  <2>4. proc[n] # "down"
    BY <1>t, <2>2
  <2>. QED  BY <1>t, <2>1, <2>2, <2>3, <2>4
<1>2. ASSUME NEW n \in Node, NEW t \in Thread, SetRole(n, t)
      PROVE  (MutexHeld /\ SwitchesToRole /\ DownIsReset)'
  <2>1. CASE role[n] = decided[n][t]
    <3>1. /\ pc' = [pc EXCEPT ![n][t] = "loop"] /\ pc[n][t] = "apply"
          /\ decided' = [decided EXCEPT ![n][t] = "Idle"]
          /\ UNCHANGED <<proc, role, roleMtx>>
      BY <1>2, <2>1 DEF SetRole
    <3>. QED  BY <1>t, <3>1
  <2>2. CASE role[n] # decided[n][t]
    <3>1. /\ pc' = [pc EXCEPT ![n][t] = "switch"]
          /\ role' = [role EXCEPT ![n] = decided[n][t]]
          /\ roleMtx' = [roleMtx EXCEPT ![n] = t]
          /\ UNCHANGED <<proc, decided>>
          /\ pc[n][t] = "apply" /\ roleMtx[n] = NoThread
      BY <1>2, <2>2 DEF SetRole
    <3>2. \A u \in Thread : pc[n][u] # "switch"
      BY <1>t, <3>1
    <3>3. proc[n] # "down"
      BY <1>t, <3>1
    <3>. QED  BY <1>t, <3>1, <3>2, <3>3
  <2>. QED  BY <2>1, <2>2
<1>3. ASSUME NEW n \in Node, NEW t \in Thread, FinishSetRole(n, t)
      PROVE  (MutexHeld /\ SwitchesToRole /\ DownIsReset)'
  BY <1>t, <1>3 DEF FinishSetRole, local
<1>4. ASSUME NEW n \in Node, ConnectAndSend(n) \/ SendHeartbeat(n) \/ Accept(n) \/ PeerClosed(n) \/ TimeoutDrops(n)
      PROVE  (MutexHeld /\ SwitchesToRole /\ DownIsReset)'
  BY <1>t, <1>4 DEF ConnectAndSend, SendHeartbeat, Accept, PeerClosed, TimeoutDrops, local, threads
<1>5. ASSUME NEW n \in Node, SendFails(n)
      PROVE  (MutexHeld /\ SwitchesToRole /\ DownIsReset)'
  BY <1>t, <1>5 DEF SendFails
<1>6. ASSUME NEW n \in Node, ReceiveHeartbeat(n) \/ PeerSilent(n)
      PROVE  (MutexHeld /\ SwitchesToRole /\ DownIsReset)'
  <2>1. /\ pc' = [pc EXCEPT ![n]["listen"] = "check"] /\ pc[n]["listen"] = "loop"
        /\ proc[n] # "down" /\ UNCHANGED <<proc, role, decided, roleMtx>>
    BY <1>6 DEF ReceiveHeartbeat, PeerSilent, Listening, Running
  <2>. QED  BY <1>t, <2>1 DEF Thread
<1>7. ASSUME NEW n \in Node, Boot(n) \/ StartupDone(n) \/ StopClose(n) \/ StopJoin(n) \/ StopRequest(n)
      PROVE  (MutexHeld /\ SwitchesToRole /\ DownIsReset)'
  <2>1. /\ UNCHANGED threads /\ UNCHANGED role
        /\ \E s \in ProcState \ {"down"} : proc' = [proc EXCEPT ![n] = s]
    BY <1>7 DEF Boot, StartupDone, StopClose, StopJoin, StopRequest, local, ProcState
  <2>. QED  BY <1>t, <2>1 DEF threads
<1>8. ASSUME NEW n \in Node, Restart(n)
      PROVE  (MutexHeld /\ SwitchesToRole /\ DownIsReset)'
  BY <1>t, <1>8 DEF Restart, threads
<1>9. ASSUME NEW n \in Node, NEW fin, Crash(n, fin)
      PROVE  (MutexHeld /\ SwitchesToRole /\ DownIsReset)'
  BY <1>t, <1>9 DEF Crash
<1>10. ASSUME NEW n \in Node, NEW r \in Role, RequestRoleChange(n, r)
      PROVE  (MutexHeld /\ SwitchesToRole /\ DownIsReset)'
  BY <1>t, <1>10 DEF RequestRoleChange, local
<1>11. CASE UNCHANGED vars
  BY <1>t, <1>11 DEF vars, local, threads
<1>. QED
  BY <1>1, <1>2, <1>3, <1>4, <1>5, <1>6, <1>7, <1>8, <1>9, <1>10, <1>11
  DEF Next, RoleStep, SendStep, ListenStep, LifeStep, Environment

-----------------------------------------------------------------------------
(* The effects of a role *)

\* No step leaves a running machine outside SetRole with effects that do not
\* fit its role.
LEMMA EffectsStep ==
  ASSUME IInv, [Next]_vars
  PROVE  EffectsFollowRole'
<1>. USE DEF EffectsFollowRole
<1>t. /\ pc \in [Node -> [Thread -> {"loop", "check", "apply", "switch"}]]
      /\ decided \in [Node -> [Thread -> Role]]
      /\ roleMtx \in [Node -> Thread \cup {NoThread}]
      /\ role \in [Node -> Role] /\ proc \in [Node -> ProcState]
      /\ sync \in [Node -> {"off", "master", "standby"}]
      /\ collecting \in [Node -> BOOLEAN]
      /\ NoThread \notin Thread
      /\ EffectsFollowRole /\ SwitchesToRole /\ DownIsReset
  BY DEF IInv, TypeOK, LifeTypes, RoleTypes, ThreadTypes, EffectTypes, NoThread, Thread
<1>1. CASE UNCHANGED <<role, roleMtx, sync, collecting>> /\ \A n \in Node : Running(n)' => Running(n)
  BY <1>t, <1>1 DEF Running
<1>2. ASSUME NEW n \in Node, NEW t \in Thread, SetRole(n, t)
      PROVE  EffectsFollowRole'
  <2>1. CASE role[n] = decided[n][t]
    BY <1>1, <1>2, <2>1 DEF SetRole, effects, Running
  <2>2. CASE role[n] # decided[n][t]
    <3>1. /\ role' = [role EXCEPT ![n] = decided[n][t]] /\ roleMtx' = [roleMtx EXCEPT ![n] = t]
          /\ UNCHANGED <<proc, sync, collecting>>
      BY <1>2, <2>2 DEF SetRole, effects
    <3>. QED  BY <1>t, <3>1 DEF Running
  <2>. QED  BY <2>1, <2>2
<1>3. ASSUME NEW n \in Node, NEW t \in Thread, FinishSetRole(n, t)
      PROVE  EffectsFollowRole'
  <2>1. PICK s \in SyncOutcome(decided[n][t]) : sync' = [sync EXCEPT ![n] = s]
    BY <1>3 DEF FinishSetRole
  <2>2. /\ collecting' = [collecting EXCEPT ![n] = (decided[n][t] = "Master")]
        /\ roleMtx' = [roleMtx EXCEPT ![n] = NoThread]
        /\ UNCHANGED <<proc, role>> /\ pc[n][t] = "switch"
    BY <1>3 DEF FinishSetRole, local
  <2>3. role[n] \in {decided[n][t], "Idle"}
    BY <1>t, <2>2 DEF SwitchesToRole
  <2>4. role[n] # "Idle" => sync'[n] \in SyncOutcome(role[n])
                            /\ collecting'[n] = (role[n] = "Master")
    BY <1>t, <2>1, <2>2, <2>3
  <2>5. \A m \in Node : m # n => sync'[m] = sync[m] /\ collecting'[m] = collecting[m]
                                  /\ roleMtx'[m] = roleMtx[m]
    BY <1>t, <2>1, <2>2
  <2>. QED  BY <1>t, <2>2, <2>4, <2>5 DEF Running
<1>4. ASSUME NEW n \in Node, Boot(n) \/ Restart(n) \/ (\E fin : Crash(n, fin))
      PROVE  EffectsFollowRole'
  <2>1. role'[n] = "Idle"
    BY <1>t, <1>4 DEF Boot, Restart, Crash, DownIsReset, local
  <2>2. \A m \in Node : m # n =>
          /\ role'[m] = role[m] /\ roleMtx'[m] = roleMtx[m] /\ proc'[m] = proc[m]
          /\ sync'[m] = sync[m] /\ collecting'[m] = collecting[m]
    BY <1>t, <1>4 DEF Boot, Restart, Crash, local, threads, effects
  <2>. QED  BY <1>t, <2>1, <2>2 DEF Running
<1>5. ASSUME NEW n \in Node, StopClose(n)
      PROVE  EffectsFollowRole'
  <2>1. /\ proc' = [proc EXCEPT ![n] = "joining"] /\ sync' = [sync EXCEPT ![n] = "off"]
        /\ UNCHANGED <<role, roleMtx, collecting>>
    BY <1>5 DEF StopClose, local, threads
  <2>. QED  BY <1>t, <2>1 DEF Running
<1>6. ASSUME NEW n \in Node, StartupDone(n) \/ StopJoin(n) \/ StopRequest(n)
      PROVE  EffectsFollowRole'
  <2>1. UNCHANGED <<role, roleMtx, sync, collecting>>
    BY <1>6 DEF StartupDone, StopJoin, StopRequest, local, threads, effects
  <2>2. \A m \in Node : Running(m)' => Running(m)
    BY <1>t, <1>6 DEF StartupDone, StopJoin, StopRequest, Running
  <2>. QED  BY <1>1, <2>1, <2>2
<1>7. ASSUME NEW n \in Node,
             \/ \E t \in Thread : CheckFailover(n, t)
             \/ SendStep(n) \/ ListenStep(n) \/ \E r \in Role : RequestRoleChange(n, r)
      PROVE  EffectsFollowRole'
  <2>1. UNCHANGED <<proc, role, roleMtx, sync, collecting>>
    BY <1>7 DEF CheckFailover, SendStep, ConnectAndSend, SendHeartbeat, SendFails, ListenStep,
                Accept, ReceiveHeartbeat, PeerClosed, PeerSilent, TimeoutDrops,
                RequestRoleChange, local, threads, effects
  <2>. QED  BY <1>1, <2>1 DEF Running
<1>8. CASE UNCHANGED vars
  BY <1>1, <1>8 DEF vars, local, threads, effects, Running
<1>. QED
  BY <1>2, <1>3, <1>4, <1>5, <1>6, <1>7, <1>8 DEF Next, RoleStep, LifeStep, Environment

-----------------------------------------------------------------------------
(* The connections *)

LinkOK(n) ==
  /\ inbound[n] \in Seq(HonestConn(n))
  /\ reading[n] => inbound[n] # <<>>
  /\ hbSend[Peer[n]] = "open" => inbound[n] # <<>> /\ ~inbound[n][Len(inbound[n])].eof

\* What closing machine n's sockets does to both directions.
LEMMA HangupLink ==
  ASSUME LinkInv, NEW n \in Node, NEW fin \in BOOLEAN, Hangup(n, fin),
         reading \in [Node -> BOOLEAN]
  PROVE  LinkInv'
<1>. SUFFICES ASSUME NEW m \in Node PROVE LinkOK(m)'
  BY DEF LinkInv, LinkOK
<1>0. LinkOK(m) /\ Peer[m] \in Node /\ Peer[Peer[m]] = m /\ Peer[m] # m
  BY PairAssumption DEF LinkInv, LinkOK
<1>1. CASE m = n
  <2>1. inbound'[m] = <<>> /\ ~reading'[m] /\ hbSend'[Peer[m]] # "open"
    BY <1>0, <1>1, PairAssumption DEF Hangup
  <2>. QED  BY <2>1, EmptySeq DEF LinkOK
<1>2. CASE m = Peer[n] /\ hbSend[n] = "open" /\ fin
  <2>1. Peer[m] = n /\ m # n /\ inbound[m] # <<>> /\ inbound[m] \in Seq(HonestConn(m))
    BY <1>0, <1>2, PairAssumption DEF LinkOK
  <2>2. /\ inbound'[m] = [inbound[m] EXCEPT ![Len(inbound[m])].eof = TRUE]
        /\ hbSend'[n] = "closed" /\ reading'[m] = reading[m]
    BY <1>2, <2>1 DEF Hangup
  <2>3. Len(inbound[m]) \in 1 .. Len(inbound[m])
    BY <2>1
  <2>4. inbound[m][Len(inbound[m])] \in HonestConn(m)
    BY <2>1, <2>3, ElementOfSeq
  <2>5. [inbound[m][Len(inbound[m])] EXCEPT !.eof = TRUE] \in HonestConn(m)
    BY <2>4 DEF HonestConn
  <2>6. inbound'[m] = [inbound[m] EXCEPT ![Len(inbound[m])] =
                         [inbound[m][Len(inbound[m])] EXCEPT !.eof = TRUE]]
    BY <2>2
  <2>7. inbound'[m] \in Seq(HonestConn(m)) /\ Len(inbound'[m]) = Len(inbound[m])
    BY <2>1, <2>3, <2>5, <2>6, ExceptConn
  <2>8. inbound'[m] # <<>>
    BY <2>1, <2>3, <2>7
  <2>. QED  BY <1>0, <2>1, <2>2, <2>7, <2>8 DEF LinkOK
<1>3. CASE m # n /\ ~(m = Peer[n] /\ hbSend[n] = "open" /\ fin)
  <2>1. inbound'[m] = inbound[m] /\ reading'[m] = reading[m]
        /\ (hbSend'[Peer[m]] = "open" => hbSend[Peer[m]] = "open")
    BY <1>0, <1>3 DEF Hangup
  <2>. QED  BY <1>0, <2>1 DEF LinkOK, HonestConn
<1>. QED  BY <1>1, <1>2, <1>3

\* A step that only takes the served connection off the queue.
LEMMA DropLink ==
  ASSUME LinkInv, NEW n \in Node, DropServed(n), reading[n],
         reading \in [Node -> BOOLEAN], inbound \in [Node -> Seq(Conn)],
         \A m \in Node : hbSend'[m] = "open" => hbSend[m] = "open",
         hbSend'[Peer[n]] = "open" => Len(inbound[n]) # 1
  PROVE  LinkInv'
<1>. SUFFICES ASSUME NEW m \in Node PROVE LinkOK(m)'
  BY DEF LinkInv, LinkOK
<1>0. LinkOK(m) /\ LinkOK(n) /\ Peer[m] \in Node
  BY PairAssumption DEF LinkInv, LinkOK
<1>1. CASE m = n
  <2>1. inbound'[n] = Tail(inbound[n]) /\ ~reading'[n]
    BY DEF DropServed
  <2>2. inbound[n] \in Seq(HonestConn(n)) /\ inbound[n] # <<>>
    BY <1>0 DEF LinkOK
  <2>3. /\ inbound'[n] \in Seq(HonestConn(n)) /\ Len(inbound'[n]) = Len(inbound[n]) - 1
        /\ \A i \in 1 .. Len(inbound'[n]) : inbound'[n][i] = inbound[n][i + 1]
    BY <2>1, <2>2, HeadTailProperties
  <2>4. ASSUME hbSend'[Peer[n]] = "open"
        PROVE  inbound'[n] # <<>> /\ ~inbound'[n][Len(inbound'[n])].eof
    <3>1. ~inbound[n][Len(inbound[n])].eof /\ Len(inbound[n]) # 1 /\ Len(inbound[n]) \in Nat \ {0}
      BY <1>0, <1>1, <2>2, <2>4, EmptySeq DEF LinkOK
    <3>a. ASSUME NEW k \in Nat \ {0, 1}, NEW j, j = k - 1
          PROVE  j \in 1 .. j /\ j + 1 = k
      BY <3>a
    <3>b. Len(inbound[n]) \in Nat \ {0, 1} /\ Len(inbound'[n]) = Len(inbound[n]) - 1
      BY <2>3, <3>1
    <3>2. Len(inbound'[n]) \in 1 .. Len(inbound'[n]) /\ Len(inbound'[n]) + 1 = Len(inbound[n])
      BY <3>a, <3>b
    <3>3. inbound'[n][Len(inbound'[n])] = inbound[n][Len(inbound[n])]
      BY <2>3, <3>2
    <3>. QED  BY <3>1, <3>2, <3>3
  <2>. QED  BY <1>1, <2>1, <2>3, <2>4 DEF LinkOK, HonestConn
<1>2. CASE m # n
  <2>1. inbound'[m] = inbound[m] /\ reading'[m] = reading[m]
    BY <1>2 DEF DropServed
  <2>. QED  BY <1>0, <2>1 DEF LinkOK, HonestConn
<1>. QED  BY <1>1, <1>2

\* The frames a machine sends and the connections it opens are honest.
LEMMA FrameHonest ==
  ASSUME TypeOK, NEW n \in Node
  PROVE  /\ Frame(n) \in [role : Role, priority : {Priority[Peer[Peer[n]]]}]
         /\ [frames |-> <<Frame(n)>>, eof |-> FALSE] \in HonestConn(Peer[n])
<1>1. Frame(n) \in [role : Role, priority : {Priority[Peer[Peer[n]]]}]
  BY PairAssumption DEF Frame, TypeOK, RoleTypes
<1>2. <<Frame(n)>> \in Seq([role : Role, priority : {Priority[Peer[Peer[n]]]}])
  BY <1>1
<1>. QED  BY <1>1, <1>2 DEF HonestConn

\* A new connection carries no frame.
LEMMA ConnectLink ==
  ASSUME LinkInv, TypeOK, NEW n \in Node, ConnectAndSend(n)
  PROVE  LinkInv'
<1>. SUFFICES ASSUME NEW m \in Node PROVE LinkOK(m)'
  BY DEF LinkInv, LinkOK
<1>0. LinkOK(m) /\ Peer[n] \in Node /\ Peer[Peer[n]] = n /\ (Peer[m] = n => m = Peer[n])
  BY PairAssumption DEF LinkInv, LinkOK
<1>. DEFINE c == [frames |-> <<Frame(n)>>, eof |-> FALSE]
<1>a. /\ hbSend' = [hbSend EXCEPT ![n] = "open"] /\ reading' = reading
      /\ inbound' = [inbound EXCEPT ![Peer[n]] = Append(@, c)]
      /\ inbound \in [Node -> Seq(Conn)] /\ hbSend \in [Node -> {"closed", "open", "broken"}]
  BY DEF ConnectAndSend, TypeOK, NetTypes
<1>1. CASE m = Peer[n]
  <2>1. inbound[m] \in Seq(HonestConn(m)) /\ c \in HonestConn(m) /\ ~c.eof
    BY <1>0, <1>1, FrameHonest DEF LinkOK
  <2>2. inbound'[m] = Append(inbound[m], c)
    BY <1>0, <1>1, <1>a
  <2>. HIDE DEF c
  <2>3. /\ inbound'[m] \in Seq(HonestConn(m)) /\ inbound'[m] # <<>>
        /\ inbound'[m][Len(inbound'[m])] = c
    BY <2>1, <2>2, AppendTyped
  <2>. QED  BY <2>1, <2>3 DEF LinkOK, HonestConn
<1>2. CASE m # Peer[n]
  <2>1. inbound'[m] = inbound[m] /\ reading'[m] = reading[m] /\ hbSend'[Peer[m]] = hbSend[Peer[m]]
    BY <1>0, <1>2, <1>a, PairAssumption
  <2>. QED  BY <1>0, <2>1 DEF LinkOK, HonestConn
<1>. QED  BY <1>1, <1>2

\* Replacing one connection by an honest one that is no more at its end.
LEMMA FramesLink ==
  ASSUME LinkInv, NEW k \in Node, NEW i \in 1 .. Len(inbound[k]),
         NEW c \in HonestConn(k), c.eof = inbound[k][i].eof,
         inbound'[k] = [inbound[k] EXCEPT ![i] = c],
         \A m \in Node \ {k} : inbound'[m] = inbound[m],
         reading' = reading, hbSend' = hbSend
  PROVE  LinkInv'
<1>. SUFFICES ASSUME NEW m \in Node PROVE LinkOK(m)'
  BY DEF LinkInv, LinkOK
<1>0. LinkOK(m)
  BY DEF LinkInv, LinkOK
<1>1. CASE m = k
  <2>1. inbound[k] \in Seq(HonestConn(k))
    BY <1>0, <1>1 DEF LinkOK
  <2>2. /\ inbound'[k] \in Seq(HonestConn(k)) /\ Len(inbound'[k]) = Len(inbound[k])
        /\ \A j \in 1 .. Len(inbound[k]) : j # i => inbound'[k][j] = inbound[k][j]
        /\ inbound'[k][i] = c
    BY <2>1, ExceptConn
  <2>3. \A j \in 1 .. Len(inbound[k]) : inbound'[k][j].eof = inbound[k][j].eof
    BY <2>2
  <2>4. inbound[k] # <<>> /\ inbound'[k] # <<>> /\ Len(inbound[k]) \in 1 .. Len(inbound[k])
    BY <2>1, <2>2, EmptySeq
  <2>5. inbound'[k][Len(inbound'[k])].eof = inbound[k][Len(inbound[k])].eof
    BY <2>2, <2>3, <2>4
  <2>. QED  BY <1>0, <1>1, <2>2, <2>4, <2>5 DEF LinkOK, HonestConn
<1>2. CASE m # k
  BY <1>0, <1>2 DEF LinkOK, HonestConn
<1>. QED  BY <1>1, <1>2

\* Every step keeps the connections honest and their ends consistent.
LEMMA LinkStep ==
  ASSUME IInv, [Next]_vars
  PROVE  LinkInv'
<1>t. /\ inbound \in [Node -> Seq(Conn)] /\ hbSend \in [Node -> {"closed", "open", "broken"}]
      /\ reading \in [Node -> BOOLEAN] /\ LinkInv /\ TypeOK
  BY DEF IInv, TypeOK, NetTypes
<1>0. CASE UNCHANGED net
  BY <1>0, <1>t DEF net, LinkInv, HonestConn
<1>1. ASSUME NEW n \in Node, ConnectAndSend(n)
      PROVE  LinkInv'
  BY <1>1, <1>t, ConnectLink
<1>2. ASSUME NEW n \in Node, SendHeartbeat(n)
      PROVE  LinkInv'
  <2>. DEFINE k == Peer[n]
              last == Len(inbound[k])
              c == [inbound[k][last] EXCEPT !.frames = Append(@, Frame(n))]
  <2>1. k \in Node /\ Peer[k] = n
    BY PairAssumption
  <2>2. inbound[k] # <<>> /\ inbound[k] \in Seq(HonestConn(k))
    BY <1>2, <1>t, <2>1 DEF SendHeartbeat, LinkInv
  <2>3. last \in 1 .. last
    BY <2>2, EmptySeq
  <2>4. inbound[k][last] \in HonestConn(k)
    BY <2>2, <2>3, ElementOfSeq
  <2>5. Append(inbound[k][last].frames, Frame(n)) \in Seq([role : Role, priority : {Priority[Peer[k]]}])
    BY <1>t, <2>4, FrameHonest, AppendTyped DEF HonestConn
  <2>6. c \in HonestConn(k) /\ c.eof = inbound[k][last].eof
    BY <2>4, <2>5 DEF HonestConn
  <2>7. /\ inbound'[k] = [inbound[k] EXCEPT ![last] = c]
        /\ \A m \in Node \ {k} : inbound'[m] = inbound[m]
        /\ reading' = reading /\ hbSend' = hbSend
    BY <1>2, <1>t, <2>1 DEF SendHeartbeat
  <2>. HIDE DEF c, last, k
  <2>8. last \in 1 .. Len(inbound[k])
    BY <2>3 DEF last
  <2>. QED  BY <1>t, <2>1, <2>6, <2>7, <2>8, FramesLink
<1>3. ASSUME NEW n \in Node, ReceiveHeartbeat(n)
      PROVE  LinkInv'
  <2>. DEFINE c == [inbound[n][1] EXCEPT !.frames = Tail(@)]
  <2>1. inbound[n] # <<>> /\ inbound[n] \in Seq(HonestConn(n))
    BY <1>3, <1>t DEF ReceiveHeartbeat, LinkInv
  <2>2. 1 \in 1 .. Len(inbound[n])
    BY <2>1, EmptySeq
  <2>3. inbound[n][1] \in HonestConn(n) /\ inbound[n][1].frames # <<>>
    BY <1>3, <2>1, <2>2, ElementOfSeq DEF ReceiveHeartbeat
  <2>4. Tail(inbound[n][1].frames) \in Seq([role : Role, priority : {Priority[Peer[n]]}])
    BY <2>3, HeadTailProperties DEF HonestConn
  <2>5. c \in HonestConn(n) /\ c.eof = inbound[n][1].eof
    BY <2>3, <2>4 DEF HonestConn
  <2>6. /\ inbound'[n] = [inbound[n] EXCEPT ![1] = c]
        /\ \A m \in Node \ {n} : inbound'[m] = inbound[m]
        /\ reading' = reading /\ hbSend' = hbSend
    BY <1>3, <1>t DEF ReceiveHeartbeat
  <2>. HIDE DEF c
  <2>. QED  BY <1>t, <2>2, <2>5, <2>6, FramesLink
<1>4. ASSUME NEW n \in Node, SendFails(n)
      PROVE  LinkInv'
  BY <1>4, <1>t, PairAssumption DEF SendFails, LinkInv, HonestConn
<1>5. ASSUME NEW n \in Node, Accept(n)
      PROVE  LinkInv'
  BY <1>5, <1>t DEF Accept, LinkInv, HonestConn
<1>6. ASSUME NEW n \in Node, PeerClosed(n)
      PROVE  LinkInv'
  <2>1. DropServed(n) /\ reading[n] /\ hbSend' = hbSend /\ Head(inbound[n]).eof
    BY <1>6 DEF PeerClosed, Drained
  <2>2. inbound[n] # <<>> /\ inbound[n] \in Seq(HonestConn(n))
    BY <1>t, <2>1 DEF LinkInv
  <2>3. hbSend[Peer[n]] = "open" => Len(inbound[n]) # 1
    BY <1>t, <2>1, <2>2 DEF LinkInv
  <2>. QED  BY <1>t, <2>1, <2>3, DropLink
<1>7. ASSUME NEW n \in Node, TimeoutDrops(n)
      PROVE  LinkInv'
  <2>1. /\ DropServed(n) /\ reading[n]
        /\ hbSend' = [hbSend EXCEPT ![Peer[n]] =
                        IF @ = "open" /\ Len(inbound[n]) = 1 THEN "broken" ELSE @]
    BY <1>7 DEF TimeoutDrops, Drained
  <2>2. /\ \A m \in Node : hbSend'[m] = "open" => hbSend[m] = "open"
        /\ hbSend'[Peer[n]] = "open" => Len(inbound[n]) # 1
    BY <1>t, <2>1, PairAssumption
  <2>. QED  BY <1>t, <2>1, <2>2, DropLink
<1>8. ASSUME NEW n \in Node, StopClose(n) \/ \E fin \in BOOLEAN : Crash(n, fin)
      PROVE  LinkInv'
  <2>1. PICK fin \in BOOLEAN : Hangup(n, fin)
    BY <1>8 DEF StopClose, Crash
  <2>. QED  BY <1>t, <2>1, HangupLink
<1>9. ASSUME NEW n \in Node,
             \/ RoleStep(n) \/ PeerSilent(n) \/ StopRequest(n)
             \/ Boot(n) \/ StartupDone(n) \/ StopJoin(n) \/ Restart(n)
             \/ \E r \in Role : RequestRoleChange(n, r)
      PROVE  LinkInv'
  BY <1>0, <1>9 DEF RoleStep, CheckFailover, SetRole, FinishSetRole, PeerSilent, StopRequest,
                    Boot, StartupDone, StopJoin, Restart, RequestRoleChange
<1>10. CASE UNCHANGED vars
  BY <1>0, <1>10 DEF vars
<1>. QED
  BY <1>1, <1>2, <1>3, <1>4, <1>5, <1>6, <1>7, <1>8, <1>9, <1>10
  DEF Next, SendStep, ListenStep, LifeStep, Environment

-----------------------------------------------------------------------------
(* Types, and the priority a machine decides with *)

\* The frame ListenLoop stores is a typed one with the peer's own priority.
LEMMA HeadHonest ==
  ASSUME LinkInv, NEW n \in Node, reading[n], Head(inbound[n]).frames # <<>>
  PROVE  Head(Head(inbound[n]).frames) \in [role : Role, priority : {Priority[Peer[n]]}]
<1>1. Head(inbound[n]) \in HonestConn(n)
  BY HeadTailProperties DEF LinkInv
<1>. QED  BY <1>1, HeadTailProperties DEF HonestConn

\* Life and limits keep their types ...
LEMMA LifeTypeStep ==
  ASSUME LifeTypes, [Next]_vars
  PROVE  LifeTypes'
<1>. USE DEF LifeTypes
<1>1. ASSUME UNCHANGED <<proc, budget>>
      PROVE  LifeTypes'
  BY <1>1
<1>2. ASSUME NEW n \in Node, RoleStep(n) \/ SendStep(n) \/ ListenStep(n)
      PROVE  UNCHANGED <<proc, budget>>
  BY <1>2 DEF RoleStep, CheckFailover, SetRole, FinishSetRole, SendStep, ConnectAndSend,
              SendHeartbeat, SendFails, ListenStep, Accept, ReceiveHeartbeat, PeerClosed,
              PeerSilent, TimeoutDrops
<1>3. ASSUME NEW n \in Node, LifeStep(n)
      PROVE  LifeTypes'
  <2>1. budget' = budget /\ \E v \in ProcState : proc' = [proc EXCEPT ![n] = v]
    BY <1>3 DEF LifeStep, Boot, StartupDone, StopClose, StopJoin, Restart, ProcState
  <2>. QED  BY <2>1
<1>4. ASSUME NEW n \in Node, NEW fin \in BOOLEAN, Crash(n, fin)
      PROVE  LifeTypes'
  BY <1>4, BoundAssumption DEF Crash, ProcState
<1>5. ASSUME NEW n \in Node, StopRequest(n) \/ \E r \in Role : RequestRoleChange(n, r)
      PROVE  LifeTypes'
  BY <1>5, BoundAssumption DEF StopRequest, RequestRoleChange, ProcState
<1>6. CASE UNCHANGED vars
  BY <1>1, <1>6 DEF vars
<1>. QED  BY <1>1, <1>2, <1>3, <1>4, <1>5, <1>6 DEF Next, Environment

\* ... roles and decisions ...
LEMMA RoleTypeStep ==
  ASSUME RoleTypes, ThreadTypes, LinkInv, [Next]_vars
  PROVE  RoleTypes'
<1>. USE DEF RoleTypes
<1>t. "Idle" \in Role /\ 0 \in Uint16 /\ 0 \in 0 .. MissedLimit
  BY ZeroIsUint16, ConfigAssumption DEF Role
<1>1. ASSUME UNCHANGED local
      PROVE  RoleTypes'
  BY <1>1 DEF local
<1>2. ASSUME NEW n \in Node, NEW t \in Thread, CheckFailover(n, t)
      PROVE  RoleTypes'
  <2>1. Bump(missed[n]) \in 0 .. MissedLimit /\ missed[n] \in 0 .. MissedLimit
    BY ConfigAssumption DEF Bump
  <2>2. /\ UNCHANGED <<role, peerAlive, peerRole, peerPriority>>
        /\ UNCHANGED missed \/ \E v \in {missed[n], Bump(missed[n])} : missed' = [missed EXCEPT ![n] = v]
    BY <1>2 DEF CheckFailover
  <2>. QED  BY <2>1, <2>2
<1>3. ASSUME NEW n \in Node, NEW t \in Thread, SetRole(n, t)
      PROVE  RoleTypes'
  <2>1. /\ UNCHANGED <<peerAlive, peerRole, peerPriority, missed>>
        /\ UNCHANGED role \/ role' = [role EXCEPT ![n] = decided[n][t]]
    BY <1>3 DEF SetRole
  <2>2. decided[n][t] \in Role
    BY DEF ThreadTypes
  <2>. QED  BY <2>1, <2>2
<1>4. ASSUME NEW n \in Node, ReceiveHeartbeat(n)
      PROVE  RoleTypes'
  <2>. DEFINE hb == Head(Head(inbound[n]).frames)
  <2>1. hb \in [role : Role, priority : {Priority[Peer[n]]}]
    BY <1>4, HeadHonest DEF ReceiveHeartbeat
  <2>2. hb.role \in Role /\ hb.priority \in Uint16
    BY <2>1, PairAssumption, ConfigAssumption
  <2>3. /\ missed' = [missed EXCEPT ![n] = 0] /\ UNCHANGED role
        /\ peerRole' = [peerRole EXCEPT ![n] = hb.role]
        /\ peerPriority' = [peerPriority EXCEPT ![n] = hb.priority]
        /\ peerAlive' = [peerAlive EXCEPT ![n] = TRUE]
    BY <1>4 DEF ReceiveHeartbeat
  <2>. HIDE DEF hb
  <2>. QED  BY <1>t, <2>2, <2>3
<1>5. ASSUME NEW n \in Node, SendFails(n) \/ PeerSilent(n) \/ Restart(n) \/ \E fin : Crash(n, fin)
      PROVE  RoleTypes'
  <2>1. /\ UNCHANGED role \/ role' = [role EXCEPT ![n] = "Idle"]
        /\ peerAlive' = [peerAlive EXCEPT ![n] = FALSE]
        /\ UNCHANGED peerRole \/ peerRole' = [peerRole EXCEPT ![n] = "Idle"]
        /\ UNCHANGED peerPriority \/ peerPriority' = [peerPriority EXCEPT ![n] = 0]
        /\ UNCHANGED missed \/ missed' = [missed EXCEPT ![n] = 0]
    BY <1>5 DEF SendFails, PeerSilent, Restart, Crash
  <2>2. role' \in [Node -> Role] /\ peerRole' \in [Node -> Role]
    BY <1>t, <2>1
  <2>3. peerPriority' \in [Node -> Uint16] /\ missed' \in [Node -> 0 .. MissedLimit]
    BY <1>t, <2>1
  <2>4. peerAlive' \in [Node -> BOOLEAN]
    BY <2>1
  <2>. QED  BY <2>2, <2>3, <2>4
<1>6. ASSUME NEW n \in Node,
             \/ \E t \in Thread : FinishSetRole(n, t)
             \/ ConnectAndSend(n) \/ SendHeartbeat(n) \/ Accept(n) \/ PeerClosed(n) \/ TimeoutDrops(n)
             \/ Boot(n) \/ StartupDone(n) \/ StopClose(n) \/ StopJoin(n) \/ StopRequest(n)
             \/ \E r \in Role : RequestRoleChange(n, r)
      PROVE  UNCHANGED local
  BY <1>6 DEF FinishSetRole, ConnectAndSend, SendHeartbeat, Accept, PeerClosed, TimeoutDrops,
              Boot, StartupDone, StopClose, StopJoin, StopRequest, RequestRoleChange
<1>7. CASE UNCHANGED vars
  BY <1>1, <1>7 DEF vars
<1>. QED
  BY <1>1, <1>2, <1>3, <1>4, <1>5, <1>6, <1>7
  DEF Next, RoleStep, SendStep, ListenStep, LifeStep, Environment

\* ... the places of the threads ...
LEMMA ThreadTypeStep ==
  ASSUME RoleTypes, ThreadTypes, [Next]_vars
  PROVE  ThreadTypes'
<1>. USE DEF ThreadTypes
<1>t. "Idle" \in Role /\ "send" \in Thread /\ "listen" \in Thread /\ "console" \in Thread
  BY DEF Role, Thread
<1>d. ASSUME decided' = decided \/ \E n \in Node, t \in Thread, r \in Role :
                                     decided' = [decided EXCEPT ![n][t] = r]
      PROVE  decided' \in [Node -> [Thread -> Role]]
  <2>1. CASE decided' = decided
    BY <2>1
  <2>2. ASSUME NEW n \in Node, NEW t \in Thread, NEW r \in Role,
               decided' = [decided EXCEPT ![n][t] = r]
        PROVE  decided' \in [Node -> [Thread -> Role]]
    BY <2>2
  <2>. QED  BY <1>d, <2>1, <2>2
<1>1. ASSUME UNCHANGED threads
      PROVE  ThreadTypes'
  BY <1>1 DEF threads
<1>2. ASSUME NEW n \in Node, NEW t \in Thread, CheckFailover(n, t)
      PROVE  ThreadTypes'
  <2>. DEFINE next(m) == DecideRole(role[n], peerRole[n], peerAlive[n], m,
                                    Priority[n], peerPriority[n], WinsTie[n])
  <2>1. \A m : next(m) \in Role
    BY DecideRoleType DEF RoleTypes
  <2>2. \E v \in {"loop", "apply"} : pc' = [pc EXCEPT ![n][t] = v]
    BY <1>2 DEF CheckFailover
  <2>3. roleMtx' = roleMtx
        /\ (decided' = decided \/ \E m : \E d \in {next(m), "Idle"} : decided' = [decided EXCEPT ![n][t] = d])
    BY <1>2 DEF CheckFailover
  <2>. HIDE DEF next
  <2>4. decided' \in [Node -> [Thread -> Role]]
    <3>1. decided' = decided \/ \E d \in Role : decided' = [decided EXCEPT ![n][t] = d]
      BY <1>t, <2>1, <2>3
    <3>. QED  BY <1>d, <3>1
  <2>5. pc' \in [Node -> [Thread -> {"loop", "check", "apply", "switch"}]]
    BY <2>2
  <2>. QED  BY <2>3, <2>4, <2>5
<1>3. ASSUME NEW n \in Node, NEW t \in Thread, SetRole(n, t) \/ FinishSetRole(n, t)
      PROVE  ThreadTypes'
  <2>1. /\ \E v \in {"loop", "switch"} : pc' = [pc EXCEPT ![n][t] = v]
        /\ decided' = decided \/ decided' = [decided EXCEPT ![n][t] = "Idle"]
        /\ roleMtx' = roleMtx \/ \E v \in {t, NoThread} : roleMtx' = [roleMtx EXCEPT ![n] = v]
    BY <1>3 DEF SetRole, FinishSetRole
  <2>2. pc' \in [Node -> [Thread -> {"loop", "check", "apply", "switch"}]]
    BY <2>1
  <2>3. decided' \in [Node -> [Thread -> Role]]
    <3>1. decided' = decided \/ \E d \in Role : decided' = [decided EXCEPT ![n][t] = d]
      BY <1>t, <2>1
    <3>. QED  BY <1>d, <3>1
  <2>4. roleMtx' \in [Node -> Thread \cup {NoThread}]
    BY <2>1
  <2>. QED  BY <2>2, <2>3, <2>4
<1>4. ASSUME NEW n \in Node,
             \/ SendFails(n) \/ ReceiveHeartbeat(n) \/ PeerSilent(n)
             \/ \E r \in Role : RequestRoleChange(n, r)
      PROVE  ThreadTypes'
  <2>1. /\ \E t \in Thread, v \in {"check", "apply"} : pc' = [pc EXCEPT ![n][t] = v]
        /\ decided' = decided \/ \E t \in Thread, r \in Role : decided' = [decided EXCEPT ![n][t] = r]
        /\ roleMtx' = roleMtx
    BY <1>t, <1>4 DEF SendFails, ReceiveHeartbeat, PeerSilent, RequestRoleChange
  <2>2. pc' \in [Node -> [Thread -> {"loop", "check", "apply", "switch"}]]
    BY <2>1
  <2>3. decided' \in [Node -> [Thread -> Role]]
    BY <1>d, <2>1
  <2>. QED  BY <2>1, <2>2, <2>3
<1>5. ASSUME NEW n \in Node, NEW fin, Crash(n, fin)
      PROVE  ThreadTypes'
  BY <1>t, <1>5 DEF Crash
<1>6. ASSUME NEW n \in Node,
             \/ ConnectAndSend(n) \/ SendHeartbeat(n) \/ Accept(n) \/ PeerClosed(n) \/ TimeoutDrops(n)
             \/ LifeStep(n) \/ StopRequest(n)
      PROVE  UNCHANGED threads
  BY <1>6 DEF ConnectAndSend, SendHeartbeat, Accept, PeerClosed, TimeoutDrops, LifeStep,
              Boot, StartupDone, StopClose, StopJoin, Restart, StopRequest
<1>7. CASE UNCHANGED vars
  BY <1>1, <1>7 DEF vars
<1>. QED
  BY <1>1, <1>2, <1>3, <1>4, <1>5, <1>6, <1>7
  DEF Next, RoleStep, SendStep, ListenStep, Environment

\* ... sync channel and collectors.
LEMMA EffectTypeStep ==
  ASSUME EffectTypes, [Next]_vars
  PROVE  EffectTypes'
<1>. USE DEF EffectTypes
<1>1. ASSUME UNCHANGED effects
      PROVE  EffectTypes'
  BY <1>1 DEF effects
<1>2. ASSUME NEW n \in Node, NEW t \in Thread, FinishSetRole(n, t)
      PROVE  EffectTypes'
  <2>1. \A r : SyncOutcome(r) \subseteq {"off", "master", "standby"}
    BY DEF SyncOutcome
  <2>. QED  BY <1>2, <2>1 DEF FinishSetRole
<1>3. ASSUME NEW n \in Node, Boot(n) \/ StopClose(n) \/ \E fin : Crash(n, fin)
      PROVE  EffectTypes'
  BY <1>3 DEF Boot, StopClose, Crash
<1>4. ASSUME NEW n \in Node,
             \/ \E t \in Thread : CheckFailover(n, t) \/ SetRole(n, t)
             \/ SendStep(n) \/ ListenStep(n) \/ StartupDone(n) \/ StopJoin(n) \/ Restart(n)
             \/ StopRequest(n) \/ \E r \in Role : RequestRoleChange(n, r)
      PROVE  UNCHANGED effects
  BY <1>4 DEF CheckFailover, SetRole, SendStep, ConnectAndSend, SendHeartbeat, SendFails,
              ListenStep, Accept, ReceiveHeartbeat, PeerClosed, PeerSilent, TimeoutDrops,
              StartupDone, StopJoin, Restart, StopRequest, RequestRoleChange
<1>5. CASE UNCHANGED vars
  BY <1>1, <1>5 DEF vars
<1>. QED
  BY <1>1, <1>2, <1>3, <1>4, <1>5 DEF Next, RoleStep, LifeStep, Environment

\* The connections' types, with what LinkInv' says of the frames.
LEMMA NetTypeStep ==
  ASSUME NetTypes, LinkInv', [Next]_vars
  PROVE  NetTypes'
<1>1. \A n \in Node : inbound'[n] \in Seq(Conn)
  BY HonestIsTyped DEF LinkInv, HonestConn
<1>. DEFINE NetFrame == inbound' = [n \in Node |-> inbound'[n]] /\ reading' \in [Node -> BOOLEAN]
                        /\ hbSend' \in [Node -> {"closed", "open", "broken"}]
<1>2. NetFrame
  <2>. USE DEF NetTypes
  <2>1. ASSUME NEW n \in Node, RoleStep(n)
        PROVE  UNCHANGED net
    BY <2>1 DEF RoleStep, CheckFailover, SetRole, FinishSetRole
  <2>2. ASSUME NEW n \in Node, Boot(n) \/ StartupDone(n) \/ StopJoin(n) \/ Restart(n) \/ PeerSilent(n)
               \/ StopRequest(n) \/ \E r \in Role : RequestRoleChange(n, r)
        PROVE  UNCHANGED net
    BY <2>2 DEF Boot, StartupDone, StopJoin, Restart, PeerSilent, StopRequest, RequestRoleChange
  <2>3. ASSUME NEW n \in Node, ConnectAndSend(n) \/ SendHeartbeat(n) \/ SendFails(n) \/ Accept(n)
               \/ ReceiveHeartbeat(n) \/ PeerClosed(n) \/ TimeoutDrops(n)
        PROVE  /\ \E k \in Node : \E s : inbound' = inbound \/ inbound' = [inbound EXCEPT ![k] = s]
               /\ \E b \in BOOLEAN : reading' = reading \/ reading' = [reading EXCEPT ![n] = b]
               /\ \E k \in Node, v \in {"closed", "open", "broken"} :
                    hbSend' = hbSend \/ hbSend' = [hbSend EXCEPT ![k] = v]
    <3>1. Peer[n] \in Node
      BY PairAssumption
    <3>. QED  BY <2>3, <3>1 DEF ConnectAndSend, SendHeartbeat, SendFails, Accept,
                  ReceiveHeartbeat, PeerClosed, TimeoutDrops, DropServed
  <2>4. ASSUME NEW n \in Node, StopClose(n) \/ \E fin \in BOOLEAN : Crash(n, fin)
        PROVE  \E fin \in BOOLEAN : Hangup(n, fin)
    BY <2>4 DEF StopClose, Crash
  <2>5. ASSUME NEW n \in Node, NEW fin \in BOOLEAN, Hangup(n, fin)
        PROVE  NetFrame
    BY <2>5 DEF Hangup
  <2>6. ASSUME UNCHANGED net
        PROVE  NetFrame
    BY <2>6 DEF net
  <2>7. ASSUME NEW n \in Node, ConnectAndSend(n) \/ SendHeartbeat(n) \/ SendFails(n) \/ Accept(n)
               \/ ReceiveHeartbeat(n) \/ PeerClosed(n) \/ TimeoutDrops(n)
        PROVE  NetFrame
    BY <2>3, <2>7
  <2>8. CASE UNCHANGED vars
    BY <2>6, <2>8 DEF vars
  <2>. QED
    BY <2>1, <2>2, <2>4, <2>5, <2>6, <2>7, <2>8 DEF Next, SendStep, ListenStep, LifeStep, Environment
<1>. QED  BY <1>1, <1>2 DEF NetTypes

\* Whatever makes a peer alive has told its priority.
LEMMA PriorityStep ==
  ASSUME IInv, [Next]_vars
  PROVE  PriorityKnown'
<1>. USE DEF PriorityKnown
<1>t. /\ peerAlive \in [Node -> BOOLEAN] /\ peerPriority \in [Node -> Uint16]
      /\ PriorityKnown /\ LinkInv
  BY DEF IInv, TypeOK, RoleTypes
<1>1. ASSUME UNCHANGED peerPriority,
             UNCHANGED peerAlive \/ \E n \in Node : peerAlive' = [peerAlive EXCEPT ![n] = FALSE]
      PROVE  PriorityKnown'
  BY <1>1, <1>t
<1>2. ASSUME NEW n \in Node, ReceiveHeartbeat(n)
      PROVE  PriorityKnown'
  <2>. DEFINE hb == Head(Head(inbound[n]).frames)
  <2>1. hb \in [role : Role, priority : {Priority[Peer[n]]}]
    BY <1>2, <1>t, HeadHonest DEF ReceiveHeartbeat
  <2>2. hb.priority = Priority[Peer[n]]
    BY <2>1
  <2>3. /\ peerPriority' = [peerPriority EXCEPT ![n] = hb.priority]
        /\ peerAlive' = [peerAlive EXCEPT ![n] = TRUE]
    BY <1>2 DEF ReceiveHeartbeat
  <2>. HIDE DEF hb
  <2>. QED  BY <1>t, <2>2, <2>3
<1>3. ASSUME NEW n \in Node, NEW fin, Crash(n, fin)
      PROVE  PriorityKnown'
  BY <1>3, <1>t DEF Crash
<1>4. ASSUME NEW n \in Node, SendFails(n) \/ PeerSilent(n) \/ Restart(n)
      PROVE  PriorityKnown'
  <2>1. UNCHANGED peerPriority /\ peerAlive' = [peerAlive EXCEPT ![n] = FALSE]
    BY <1>4 DEF SendFails, PeerSilent, Restart
  <2>. QED  BY <1>1, <2>1
<1>5. ASSUME NEW n \in Node,
             \/ RoleStep(n) \/ ConnectAndSend(n) \/ SendHeartbeat(n) \/ Accept(n) \/ PeerClosed(n)
             \/ TimeoutDrops(n) \/ Boot(n) \/ StartupDone(n) \/ StopClose(n) \/ StopJoin(n)
             \/ StopRequest(n) \/ \E r \in Role : RequestRoleChange(n, r)
      PROVE  UNCHANGED <<peerPriority, peerAlive>>
  BY <1>5 DEF RoleStep, CheckFailover, SetRole, FinishSetRole, ConnectAndSend, SendHeartbeat,
              Accept, PeerClosed, TimeoutDrops, Boot, StartupDone, StopClose, StopJoin,
              StopRequest, RequestRoleChange, local
<1>6. CASE UNCHANGED vars
  BY <1>1, <1>6 DEF vars, local
<1>. QED
  BY <1>1, <1>2, <1>3, <1>4, <1>5, <1>6 DEF Next, SendStep, ListenStep, LifeStep, Environment

-----------------------------------------------------------------------------
(* The theorems *)

\* IInv is an invariant of every behaviour of the specification.
THEOREM Invariance == Spec => []IInv
<1>1. Init => IInv
  BY InitIInv
<1>2. IInv /\ [Next]_vars => IInv'
  <2>. SUFFICES ASSUME IInv, [Next]_vars PROVE IInv'
    OBVIOUS
  <2>1. LinkInv'
    BY LinkStep
  <2>2. TypeOK'
    BY <2>1, LifeTypeStep, RoleTypeStep, ThreadTypeStep, EffectTypeStep, NetTypeStep
    DEF IInv, TypeOK
  <2>. QED  BY <2>1, <2>2, MutexStep, EffectsStep, PriorityStep DEF IInv
<1>. QED  BY <1>1, <1>2, PTL DEF Spec

\* Types are kept by every manager, thread and connection.
THEOREM TypeCorrect == Spec => []TypeOK
  BY Invariance, PTL DEF IInv

\* Outside SetRole, the sync channel and the collectors of a running machine
\* are those of its role, whichever threads raced into SetRole, and whatever
\* was stopped and restarted meanwhile.
THEOREM EffectsCorrect == Spec => []EffectsFollowRole
  BY Invariance, PTL DEF IInv

\* A machine decides about an alive peer with the peer's configured priority.
THEOREM PriorityCorrect == Spec => []PriorityKnown
  BY Invariance, PTL DEF IInv

-----------------------------------------------------------------------------
(* No second Master *)

\* The machine that DecideRole lets win when both are Idle or both are Master.
Outranking(n) == Outranks(Priority[n], Priority[Peer[n]], WinsTie[n])

Count(p) == IF p THEN 1 ELSE 0

\* What missedHeartbeats_ of n may come to before a heartbeat resets it: a
\* connection that is broken is counted by SendFails once, and a silence only
\* after a heartbeat that made the peer alive.
Losses(n) ==
  missed[n] + Count(pc[n]["send"] = "check") + Count(hbSend[n] = "broken")
            + Count(peerAlive[n] \/ pc[n]["listen"] = "check")

\* Each crash breaks one connection of its peer, so the limit is not reached,
\* and only the machine that outranks its peer is on the way to Master.
ElectOK(n) ==
  /\ proc[n] \in {"down", "starting", "up"} /\ pc[n]["console"] = "loop"
  /\ pc[n]["send"] # "loop" => hbSend[n] = "closed"
  /\ hbSend[n] = "broken" \/ pc[n]["send"] = "check" => budget.crash < MaxCrash
  /\ Losses(n) <= 1 + (MaxCrash - budget.crash)
  /\ ~Outranking(n) => role[n] # "Master" /\ \A t \in Thread : decided[n][t] # "Master"

ElectInv == Unforced => \A n \in Node : ElectOK(n)

\* What SO_RCVTIMEO looks like on Windows, and a limit that one silence and the
\* crashes of the peer do not reach.
Patient == /\ \A n \in Node : RecvTimeoutCode[n] = "timeout"
           /\ MissedLimit > MaxCrash + 1

\* The bounds on the operator never grow back.
LEMMA UnforcedBefore ==
  ASSUME LifeTypes, [Next]_vars, Unforced'
  PROVE  /\ Unforced /\ budget' \in [crash : 0 .. MaxCrash, console : 0 .. MaxConsole, reload : 0 .. MaxReload]
         /\ \A n \in Node : ~StopRequest(n) /\ \A r \in Role : ~RequestRoleChange(n, r)
         /\ budget'.crash <= budget.crash
<1>1. budget \in [crash : 0 .. MaxCrash, console : 0 .. MaxConsole, reload : 0 .. MaxReload]
  BY DEF LifeTypes
<1>2. ASSUME NEW n \in Node, StopRequest(n) \/ \E r \in Role : RequestRoleChange(n, r)
      PROVE  FALSE
  <2>1. CASE StopRequest(n)
    <3>1. budget'.reload = budget.reload - 1 /\ budget'.reload = MaxReload
      BY <1>1, <2>1 DEF StopRequest, Unforced
    <3>. QED  BY <1>1, <3>1, BoundAssumption
  <2>2. CASE \E r \in Role : RequestRoleChange(n, r)
    <3>1. budget'.console = budget.console - 1 /\ budget'.console = MaxConsole
      BY <1>1, <2>2 DEF RequestRoleChange, Unforced
    <3>. QED  BY <1>1, <3>1, BoundAssumption
  <2>. QED  BY <1>2, <2>1, <2>2
<1>3. \/ budget' = budget
      \/ budget.crash > 0 /\ budget' = [budget EXCEPT !.crash = @ - 1]
  <2>1. ASSUME NEW n \in Node, RoleStep(n) \/ SendStep(n) \/ ListenStep(n) \/ LifeStep(n)
        PROVE  budget' = budget
    BY <2>1 DEF RoleStep, CheckFailover, SetRole, FinishSetRole, SendStep, ConnectAndSend,
                SendHeartbeat, SendFails, ListenStep, Accept, ReceiveHeartbeat, PeerClosed,
                PeerSilent, TimeoutDrops, LifeStep, Boot, StartupDone, StopClose, StopJoin, Restart
  <2>2. ASSUME NEW n \in Node, NEW fin \in BOOLEAN, Crash(n, fin)
        PROVE  budget.crash > 0 /\ budget' = [budget EXCEPT !.crash = @ - 1]
    BY <2>2 DEF Crash
  <2>. QED  BY <1>2, <2>1, <2>2 DEF Next, Environment, vars
<1>. QED  BY <1>1, <1>2, <1>3, BoundAssumption DEF Unforced

\* A decision of a machine that does not outrank its peer is never Master: the
\* limit is not reached, and the priority it compares with is the peer's own.
LEMMA DecisionFollowsRank ==
  ASSUME IInv, Unforced, Patient, NEW n \in Node, NEW t \in Thread, ElectOK(n), CheckFailover(n, t)
  PROVE  /\ t \in {"send", "listen"}
         /\ Losses(n)' <= Losses(n)
         /\ ~Outranking(n) => \A u \in Thread : decided'[n][u] # "Master"
<1>. DEFINE miss == IF peerAlive[n] THEN missed[n] ELSE Bump(missed[n])
            next == DecideRole(role[n], peerRole[n], peerAlive[n], miss,
                               Priority[n], peerPriority[n], WinsTie[n])
<1>t. /\ pc \in [Node -> [Thread -> {"loop", "check", "apply", "switch"}]]
      /\ decided \in [Node -> [Thread -> Role]] /\ peerAlive \in [Node -> BOOLEAN]
      /\ missed \in [Node -> 0 .. MissedLimit]
      /\ budget.crash \in 0 .. MaxCrash
  BY DEF IInv, TypeOK, LifeTypes, RoleTypes, ThreadTypes
<1>1. t \in {"send", "listen"} /\ pc[n][t] = "check"
  BY DEF CheckFailover, ElectOK, Thread
<1>2. ~peerAlive[n] => missed[n] + 1 < MissedLimit
  <2>1. ASSUME ~peerAlive[n]
        PROVE  missed[n] + 1 <= Losses(n)
    <3>1. Count(pc[n]["send"] = "check") \in {0, 1} /\ Count(hbSend[n] = "broken") \in {0, 1}
          /\ Count(peerAlive[n] \/ pc[n]["listen"] = "check") \in {0, 1}
      BY DEF Count
    <3>2. Count(pc[n]["send"] = "check") = 1 \/ Count(peerAlive[n] \/ pc[n]["listen"] = "check") = 1
      BY <1>1 DEF Count
    <3>. QED  BY <1>t, <3>1, <3>2 DEF Losses
  <2>2. Losses(n) <= 1 + (MaxCrash - budget.crash) /\ Losses(n) \in Nat
    BY <1>t DEF ElectOK, Losses, Count
  <2>. QED  BY <1>t, <2>1, <2>2, BoundAssumption, ConfigAssumption DEF Patient
<1>3. ~peerAlive[n] => miss = missed[n] + 1 /\ miss < MissedLimit
  BY <1>t, <1>2, ConfigAssumption DEF Bump
<1>b. peerAlive[n] => miss = missed[n]
  OBVIOUS
<1>4. ASSUME ~Outranking(n)
      PROVE  next # "Master"
  <2>1. role[n] # "Master"
    BY <1>4 DEF ElectOK
  <2>2. CASE peerAlive[n]
    <3>1. ~Outranks(Priority[n], peerPriority[n], WinsTie[n])
      BY <1>4, <2>2 DEF IInv, PriorityKnown, Outranking
    <3>. QED  BY <2>1, <2>2, <3>1 DEF DecideRole
  <2>3. CASE ~peerAlive[n]
    <3>1. ~(miss >= MissedLimit)
      BY <1>t, <1>3, <2>3, ConfigAssumption
    <3>. HIDE DEF miss
    <3>. QED  BY <2>1, <2>3, <3>1 DEF DecideRole
  <2>. QED  BY <2>2, <2>3, <1>t
<1>5. /\ \E v \in {"loop", "apply"} : pc' = [pc EXCEPT ![n][t] = v]
      /\ decided' = decided \/ \E d \in {next, "Idle"} : decided' = [decided EXCEPT ![n][t] = d]
      /\ missed' = missed \/ missed' = [missed EXCEPT ![n] = miss]
      /\ UNCHANGED <<peerAlive, hbSend>>
  BY DEF CheckFailover, net
<1>. HIDE DEF miss, next
<1>6. ~Outranking(n) => \A u \in Thread : decided'[n][u] # "Master"
  BY <1>t, <1>4, <1>5 DEF ElectOK
<1>7. Losses(n)' <= Losses(n)
  <2>1. \/ pc'[n]["send"] = pc[n]["send"] /\ pc[n]["listen"] = "check" /\ pc'[n]["listen"] # "check"
        \/ pc'[n]["listen"] = pc[n]["listen"] /\ pc[n]["send"] = "check" /\ pc'[n]["send"] # "check"
    BY <1>t, <1>1, <1>5 DEF Thread
  <2>2. peerAlive'[n] = peerAlive[n] /\ hbSend'[n] = hbSend[n]
    BY <1>5
  <2>3. missed[n] \in Nat /\ missed'[n] \in {missed[n], miss}
    BY <1>t, <1>5
  <2>4. missed'[n] = missed[n] \/ (~peerAlive[n] /\ missed'[n] = missed[n] + 1)
    <3>1. CASE peerAlive[n]
      BY <1>b, <2>3, <3>1
    <3>2. CASE ~peerAlive[n]
      BY <1>3, <2>3, <3>2
    <3>. QED  BY <3>1, <3>2
  <2>. QED  BY <2>1, <2>2, <2>3, <2>4 DEF Losses, Count
<1>. QED  BY <1>1, <1>6, <1>7

\* What closing the sockets of machine k means for the count of its peer.
LEMMA CrashLosses ==
  ASSUME IInv, NEW n \in Node, ElectOK(n), NEW k \in Node, NEW fin \in BOOLEAN, Crash(k, fin)
  PROVE  ElectOK(n)'
<1>t. /\ pc \in [Node -> [Thread -> {"loop", "check", "apply", "switch"}]]
      /\ decided \in [Node -> [Thread -> Role]] /\ peerAlive \in [Node -> BOOLEAN]
      /\ missed \in [Node -> 0 .. MissedLimit] /\ role \in [Node -> Role]
      /\ hbSend \in [Node -> {"closed", "open", "broken"}] /\ proc \in [Node -> ProcState]
      /\ budget \in [crash : 0 .. MaxCrash, console : 0 .. MaxConsole, reload : 0 .. MaxReload]
  BY DEF IInv, TypeOK, LifeTypes, RoleTypes, ThreadTypes, NetTypes
<1>1. budget'.crash = budget.crash - 1 /\ budget.crash \in 1 .. MaxCrash /\ budget'.crash < MaxCrash
  BY <1>t, BoundAssumption DEF Crash
<1>2. CASE n = k
  <2>1. /\ missed'[n] = 0 /\ peerAlive'[n] = FALSE /\ hbSend'[n] = "closed"
        /\ pc'[n] = [t \in Thread |-> "loop"] /\ decided'[n] = [t \in Thread |-> "Idle"]
        /\ role'[n] = "Idle" /\ proc'[n] = "down"
    BY <1>t, <1>2 DEF Crash, Hangup
  <2>2. Losses(n)' = 0
    BY <2>1 DEF Losses, Count, Thread
  <2>3. Losses(n)' <= 1 + (MaxCrash - budget'.crash)
    BY <1>1, <2>2, BoundAssumption
  <2>. QED  BY <1>1, <2>1, <2>3 DEF ElectOK, Outranking, Thread
<1>3. CASE n # k
  <2>1. /\ missed'[n] = missed[n] /\ peerAlive'[n] = peerAlive[n] /\ pc'[n] = pc[n]
        /\ decided'[n] = decided[n] /\ role'[n] = role[n] /\ proc'[n] = proc[n]
    BY <1>t, <1>3 DEF Crash
  <2>2. \/ hbSend'[n] = hbSend[n]
        \/ hbSend[n] = "open" /\ hbSend'[n] = "broken"
    BY <1>t, <1>3 DEF Crash, Hangup
  <2>3. Losses(n)' <= Losses(n) + 1
    BY <1>t, <2>1, <2>2 DEF Losses, Count
  <2>4. Losses(n) \in Nat /\ Losses(n)' \in Nat
    BY <1>t, <2>1 DEF Losses, Count
  <2>5. Losses(n)' <= 1 + (MaxCrash - budget'.crash)
    BY <1>1, <2>3, <2>4, BoundAssumption DEF ElectOK
  <2>. QED  BY <1>1, <2>1, <2>2, <2>5 DEF ElectOK, Outranking
<1>. QED  BY <1>2, <1>3

\* A step that leaves the count, the bounds and the decisions of n alone.
LEMMA ElectKept ==
  ASSUME NEW n \in Node, ElectOK(n), Losses(n)' <= Losses(n), Losses(n) \in Nat, Losses(n)' \in Nat,
         budget' = budget, budget.crash \in 0 .. MaxCrash, MaxCrash \in Nat,
         proc'[n] \in {"down", "starting", "up"}, pc'[n]["console"] = "loop",
         pc'[n]["send"] # "loop" => hbSend'[n] = "closed",
         hbSend'[n] = "broken" \/ pc'[n]["send"] = "check"
           => hbSend[n] = "broken" \/ pc[n]["send"] = "check",
         ~Outranking(n) => role'[n] # "Master" /\ \A t \in Thread : decided'[n][t] # "Master"
  PROVE  ElectOK(n)'
<1>1. Losses(n)' <= 1 + (MaxCrash - budget'.crash)
  BY DEF ElectOK
<1>2. hbSend'[n] = "broken" \/ pc'[n]["send"] = "check" => budget'.crash < MaxCrash
  BY DEF ElectOK
<1>. QED  BY <1>1, <1>2 DEF ElectOK, Outranking

\* Every step keeps the count below the limit and the outranked machine out of
\* the Master role, for every machine.
LEMMA ElectStep ==
  ASSUME IInv, ElectInv, [Next]_vars, Patient
  PROVE  ElectInv'
<1>. SUFFICES ASSUME Unforced', NEW n \in Node PROVE ElectOK(n)'
  BY DEF ElectInv
<1>t. /\ pc \in [Node -> [Thread -> {"loop", "check", "apply", "switch"}]]
      /\ decided \in [Node -> [Thread -> Role]] /\ peerAlive \in [Node -> BOOLEAN]
      /\ missed \in [Node -> 0 .. MissedLimit] /\ role \in [Node -> Role]
      /\ hbSend \in [Node -> {"closed", "open", "broken"}] /\ proc \in [Node -> ProcState]
      /\ budget.crash \in 0 .. MaxCrash /\ MaxCrash \in Nat
      /\ {"send", "listen", "console"} = Thread
  BY BoundAssumption DEF IInv, TypeOK, LifeTypes, RoleTypes, ThreadTypes, NetTypes, Thread
<1>a. /\ Unforced /\ ElectOK(n)
      /\ \A k \in Node : ~StopRequest(k) /\ \A r \in Role : ~RequestRoleChange(k, r)
  BY UnforcedBefore DEF ElectInv, IInv, TypeOK
<1>b. \A k \in Node : ElectOK(k)
  BY <1>a DEF ElectInv
<1>c. Losses(n) \in Nat
  BY <1>t DEF Losses, Count
<1>d. /\ proc[n] \in {"down", "starting", "up"} /\ pc[n]["console"] = "loop"
      /\ pc[n]["send"] # "loop" => hbSend[n] = "closed"
      /\ ~Outranking(n) => role[n] # "Master" /\ \A t \in Thread : decided[n][t] # "Master"
  BY <1>a DEF ElectOK
<1>0. ASSUME proc'[n] \in {"down", "starting", "up"}, pc'[n] = pc[n], decided'[n] = decided[n],
             role'[n] = role[n], missed'[n] = missed[n], peerAlive'[n] = peerAlive[n],
             hbSend'[n] = hbSend[n], budget' = budget
      PROVE  ElectOK(n)'
  <2>1. Losses(n)' = Losses(n)
    BY <1>0 DEF Losses
  <2>. QED  BY <1>0, <1>t, <1>a, <1>c, <1>d, <2>1, ElectKept
<1>1. ASSUME NEW k \in Node, NEW t \in Thread, CheckFailover(k, t)
      PROVE  ElectOK(n)'
  <2>1. /\ UNCHANGED <<proc, role, peerAlive, hbSend, budget>>
        /\ \E v \in {"loop", "apply"} : pc' = [pc EXCEPT ![k][t] = v]
        /\ missed' = missed \/ \E v : missed' = [missed EXCEPT ![k] = v]
        /\ decided' = decided \/ \E v : decided' = [decided EXCEPT ![k][t] = v]
    BY <1>1 DEF CheckFailover, net
  <2>2. CASE k # n
    BY <1>t, <1>0, <1>d, <2>1, <2>2
  <2>3. CASE k = n
    <3>1. /\ t \in {"send", "listen"} /\ Losses(n)' <= Losses(n)
          /\ ~Outranking(n) => \A u \in Thread : decided'[n][u] # "Master"
      BY <1>1, <1>a, <2>3, DecisionFollowsRank
    <3>2. pc[n][t] = "check" /\ missed'[n] \in Nat
      <4>1. /\ pc[n][t] = "check"
            /\ missed'[n] \in {missed[n], Bump(missed[n])}
        BY <1>1, <1>t, <2>3 DEF CheckFailover
      <4>. QED  BY <4>1, <1>t, ConfigAssumption DEF Bump
    <3>3. Losses(n)' \in Nat
      BY <3>2, <2>1 DEF Losses, Count
    <3>4. /\ pc'[n]["console"] = "loop"
          /\ pc'[n]["send"] # "loop" => pc[n]["send"] # "loop"
          /\ pc'[n]["send"] # "check" \/ pc[n]["send"] = "check"
      BY <1>t, <1>d, <2>1, <2>3, <3>1, <3>2
    <3>. QED  BY <1>t, <1>a, <1>c, <1>d, <2>1, <3>1, <3>3, <3>4, ElectKept
  <2>. QED  BY <2>2, <2>3
<1>2. ASSUME NEW k \in Node, NEW t \in Thread, SetRole(k, t) \/ FinishSetRole(k, t)
      PROVE  ElectOK(n)'
  <2>1. /\ UNCHANGED <<proc, missed, peerAlive, hbSend, budget>>
        /\ \E v \in {"loop", "switch"} : pc' = [pc EXCEPT ![k][t] = v]
        /\ role' = role \/ role' = [role EXCEPT ![k] = decided[k][t]]
        /\ decided' = decided \/ decided' = [decided EXCEPT ![k][t] = "Idle"]
        /\ pc[k][t] \in {"apply", "switch"}
    BY <1>2 DEF SetRole, FinishSetRole, net, local
  <2>2. CASE k # n
    BY <1>t, <1>0, <1>d, <2>1, <2>2
  <2>3. CASE k = n
    <3>1. /\ pc'[n]["console"] = "loop"
          /\ pc'[n]["send"] # "loop" => pc[n]["send"] # "loop"
          /\ pc'[n]["send"] # "check" \/ pc[n]["send"] = "check"
          /\ pc'[n]["listen"] # "check" \/ pc[n]["listen"] = "check"
      BY <1>t, <1>d, <2>1, <2>3
    <3>2. Losses(n)' <= Losses(n) /\ Losses(n)' \in Nat
      BY <1>t, <2>1, <3>1 DEF Losses, Count
    <3>3. ~Outranking(n) => role'[n] # "Master" /\ \A u \in Thread : decided'[n][u] # "Master"
      BY <1>t, <1>d, <2>1, <2>3
    <3>. QED  BY <1>t, <1>a, <1>c, <1>d, <2>1, <3>1, <3>2, <3>3, ElectKept
  <2>. QED  BY <2>2, <2>3
<1>3. ASSUME NEW k \in Node, ConnectAndSend(k)
      PROVE  ElectOK(n)'
  <2>1. /\ UNCHANGED <<proc, missed, peerAlive, pc, decided, role, budget>>
        /\ hbSend' = [hbSend EXCEPT ![k] = "open"] /\ pc[k]["send"] = "loop"
    BY <1>3 DEF ConnectAndSend, local, threads
  <2>2. CASE k # n
    BY <1>t, <1>0, <1>d, <2>1, <2>2
  <2>3. CASE k = n
    <3>1. Losses(n)' <= Losses(n) /\ Losses(n)' \in Nat
      BY <1>t, <2>1, <2>3 DEF Losses, Count
    <3>. QED  BY <1>t, <1>a, <1>c, <1>d, <2>1, <2>3, <3>1, ElectKept
  <2>. QED  BY <2>2, <2>3
<1>4. ASSUME NEW k \in Node, SendFails(k)
      PROVE  ElectOK(n)'
  <2>1. /\ UNCHANGED <<proc, missed, decided, role, budget>>
        /\ pc' = [pc EXCEPT ![k]["send"] = "check"] /\ pc[k]["send"] = "loop"
        /\ hbSend' = [hbSend EXCEPT ![k] = "closed"] /\ hbSend[k] = "broken"
        /\ peerAlive' = [peerAlive EXCEPT ![k] = FALSE]
    BY <1>4 DEF SendFails
  <2>2. CASE k # n
    BY <1>t, <1>0, <1>d, <2>1, <2>2
  <2>3. CASE k = n
    <3>1. /\ pc'[n]["send"] = "check" /\ pc'[n]["console"] = "loop"
          /\ pc'[n]["listen"] = pc[n]["listen"] /\ hbSend'[n] = "closed" /\ peerAlive'[n] = FALSE
      BY <1>t, <1>d, <2>1, <2>3
    <3>2. Losses(n)' <= Losses(n) /\ Losses(n)' \in Nat
      BY <1>t, <2>1, <2>3, <3>1 DEF Losses, Count
    <3>. QED  BY <1>t, <1>a, <1>c, <1>d, <2>1, <2>3, <3>1, <3>2, ElectKept
  <2>. QED  BY <2>2, <2>3
<1>5. ASSUME NEW k \in Node, ReceiveHeartbeat(k)
      PROVE  ElectOK(n)'
  <2>1. /\ UNCHANGED <<proc, decided, role, budget, hbSend>>
        /\ pc' = [pc EXCEPT ![k]["listen"] = "check"]
        /\ missed' = [missed EXCEPT ![k] = 0]
        /\ peerAlive' = [peerAlive EXCEPT ![k] = TRUE]
    BY <1>5 DEF ReceiveHeartbeat
  <2>2. CASE k # n
    BY <1>t, <1>0, <1>d, <2>1, <2>2
  <2>3. CASE k = n
    <3>1. /\ pc'[n]["send"] = pc[n]["send"] /\ pc'[n]["console"] = "loop"
          /\ missed'[n] = 0 /\ hbSend'[n] = hbSend[n]
      BY <1>t, <1>d, <2>1, <2>3
    <3>2. Losses(n)' = Count(pc[n]["send"] = "check") + Count(hbSend[n] = "broken") + 1
      BY <2>1, <2>3, <3>1, <1>t DEF Losses, Count
    <3>3. CASE hbSend[n] = "broken" \/ pc[n]["send"] = "check"
      <4>1. Losses(n)' <= 2 /\ budget'.crash < MaxCrash /\ budget' = budget
        BY <1>a, <1>d, <2>1, <3>2, <3>3 DEF ElectOK, Count
      <4>2. Losses(n)' <= 1 + (MaxCrash - budget'.crash)
        BY <1>t, <3>2, <4>1 DEF Count
      <4>. QED  BY <1>d, <2>1, <3>1, <4>1, <4>2 DEF ElectOK, Outranking
    <3>4. CASE ~(hbSend[n] = "broken" \/ pc[n]["send"] = "check")
      <4>1. Losses(n)' = 1
        BY <3>2, <3>4 DEF Count
      <4>2. Losses(n)' <= 1 + (MaxCrash - budget'.crash)
        BY <1>t, <2>1, <4>1
      <4>. QED  BY <1>d, <2>1, <3>1, <3>4, <4>2 DEF ElectOK, Outranking
    <3>. QED  BY <3>3, <3>4
  <2>. QED  BY <2>2, <2>3
<1>6. ASSUME NEW k \in Node, PeerSilent(k)
      PROVE  ElectOK(n)'
  <2>1. /\ UNCHANGED <<proc, missed, decided, role, budget, hbSend>>
        /\ pc' = [pc EXCEPT ![k]["listen"] = "check"]
        /\ peerAlive' = [peerAlive EXCEPT ![k] = FALSE] /\ peerAlive[k]
    BY <1>6 DEF PeerSilent, net
  <2>2. CASE k # n
    BY <1>t, <1>0, <1>d, <2>1, <2>2
  <2>3. CASE k = n
    <3>1. /\ pc'[n]["send"] = pc[n]["send"] /\ pc'[n]["console"] = "loop"
      BY <1>t, <1>d, <2>1, <2>3
    <3>2. Losses(n)' <= Losses(n) /\ Losses(n)' \in Nat
      BY <1>t, <2>1, <2>3, <3>1 DEF Losses, Count
    <3>. QED  BY <1>t, <1>a, <1>c, <1>d, <2>1, <3>1, <3>2, ElectKept
  <2>. QED  BY <2>2, <2>3
<1>7. ASSUME NEW k \in Node, NEW fin \in BOOLEAN, Crash(k, fin)
      PROVE  ElectOK(n)'
  BY <1>7, <1>a, CrashLosses
<1>8. ASSUME NEW k \in Node, SendHeartbeat(k) \/ Accept(k) \/ PeerClosed(k) \/ UNCHANGED vars
      PROVE  ElectOK(n)'
  <2>1. UNCHANGED <<proc, local, threads, hbSend, budget>>
    BY <1>8 DEF SendHeartbeat, Accept, PeerClosed, vars, net
  <2>. QED  BY <1>0, <1>d, <2>1 DEF local, threads
<1>9. ASSUME NEW k \in Node, LifeStep(k)
      PROVE  ElectOK(n)'
  <2>1. proc[k] \in {"down", "starting"}
    <3>1. proc[k] \in {"down", "starting", "up"}
      BY <1>b DEF ElectOK
    <3>. QED  BY <1>9, <3>1 DEF LifeStep, Boot, StartupDone, StopClose, StopJoin, Restart
  <2>2. /\ UNCHANGED <<local, threads, net, budget>>
        /\ \E v \in {"starting", "up"} : proc' = [proc EXCEPT ![k] = v]
    BY <1>9, <2>1 DEF LifeStep, Boot, StartupDone, StopClose, StopJoin, Restart
  <2>3. proc'[n] \in {"down", "starting", "up"}
    BY <1>t, <1>d, <2>2
  <2>. QED  BY <1>0, <2>2, <2>3 DEF local, threads, net
<1>10. ASSUME NEW k \in Node, TimeoutDrops(k)
       PROVE  FALSE
  BY <1>10 DEF TimeoutDrops, Patient
<1>. QED
  BY <1>1, <1>2, <1>3, <1>4, <1>5, <1>6, <1>7, <1>8, <1>9, <1>10, <1>a, PairAssumption
  DEF Next, RoleStep, SendStep, ListenStep, Environment

\* The invariant behind NeverDualMaster holds in every reachable state.
THEOREM ElectInvariance ==
  ASSUME Patient
  PROVE  Spec => []ElectInv
<1>1. Init => ElectInv
  <2>. SUFFICES ASSUME Init, NEW n \in Node PROVE ElectOK(n)
    BY DEF ElectInv
  <2>1. /\ missed[n] = 0 /\ peerAlive[n] = FALSE /\ hbSend[n] = "closed" /\ proc[n] = "down"
        /\ pc[n] = [t \in Thread |-> "loop"] /\ decided[n] = [t \in Thread |-> "Idle"]
        /\ role[n] = "Idle" /\ budget.crash = MaxCrash
    BY DEF Init
  <2>2. Losses(n) = 0
    BY <2>1 DEF Losses, Count, Thread
  <2>. QED  BY <2>1, <2>2, BoundAssumption DEF ElectOK, Thread
<1>2. IInv /\ ElectInv /\ [Next]_vars => ElectInv'
  BY ElectStep
<1>. QED  BY <1>1, <1>2, Invariance, PTL DEF Spec

\* Start-up negotiation, silence and crashes never make two Masters without
\* the operator, for any priorities and any delay of the heartbeats, with a
\* tie-break that lets one machine win at most.  Two hypotheses mark where the
\* code stops promising it, and TLC finds two Masters beyond each: a silence
\* that is reported as would_block closes a connection, which the peer counts,
\* and a crash and a reboot may be counted without a heartbeat between them.
THEOREM NeverDualMasterCorrect ==
  ASSUME Patient, \A n \in Node : ~(Outranking(n) /\ Outranking(Peer[n]))
  PROVE  Spec => []NeverDualMaster
<1>1. ElectInv => NeverDualMaster
  <2>. SUFFICES ASSUME ElectInv, Unforced PROVE ~DualMaster
    BY DEF NeverDualMaster
  <2>1. PICK n \in Node : ~Outranking(n)
    BY PairAssumption
  <2>. QED  BY <2>1 DEF ElectInv, ElectOK, DualMaster
<1>. QED  BY <1>1, ElectInvariance, PTL

=============================================================================
