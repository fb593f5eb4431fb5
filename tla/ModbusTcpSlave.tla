--------------------------- MODULE ModbusTcpSlave --------------------------
(* The Modbus TCP slave (modbus_tcp_slave.cxx) as a server: LoadConfig,      *)
(* Start, an accept thread per listener, a thread per client, Stop.  What    *)
(* the registers hold is in ModbusRegisters.                                 *)
(*                                                                           *)
(* Accept thread: "none" -> "accept" -> "taken" (a client in its hands, on   *)
(* its way to clientMtx_) -> "accept" | "ended".  Client thread: "none" ->   *)
(* "recv" -> "handle" -> "recv" | "ended".  Stop(): "no" -> "close" ->       *)
(* "accepts" -> "clients" (holding clientMtx_) -> "no".                      *)
EXTENDS Naturals, Sequences, FiniteSets, SequencesExt

CONSTANTS
  Files,          \* contents of the file: sequences of [port, ip] binds
  Master, From,   \* connections of masters, each made at most once; their addresses
  CleanupPeriod,  \* accepted connections per cleanup (10)
  Frames,         \* kinds of requests
  BindFails,      \* whether another program may hold a port
  MaxStart, MaxFrames   \* bounds on loadings and starts, and on requests

VARIABLES
  binds,          \* binds_
  listens,        \* running_
  closing,        \* where Stop() is
  sockets,        \* ports of listenSocks_
  acceptor,       \* accept threads, by index of their socket
  accepted,       \* the client an accept thread has accepted
  thread,         \* client threads
  entries,        \* clients in clientThreads_
  count,          \* cleanupCnt_, modulo CleanupPeriod
  peer,           \* connections as the master has left them
  request,        \* the request in the hands of a client thread
  loads, started, received    \* bounds

listening == <<sockets, acceptor, accepted>>
serving == <<thread, entries, count, peer, request>>
bounds == <<loads, started, received>>
modbusVars == <<binds, listens, closing, listening, serving, bounds>>

Ports(seq) == {b.port : b \in Range(seq)}
Index == 1..Len(sockets)
Ended(i) == acceptor[i] \in {"none", "ended"}
(* Mutant: Stop() takes clientMtx_ before it joins the accept threads. *)
ClientMtxFreeLate == closing \notin {"accepts", "clients"}

ClientMtxFree == closing # "clients"

ModbusInit ==
  /\ binds = <<>>
  /\ listens = FALSE /\ closing = "no"
  /\ sockets = <<>> /\ acceptor = <<>> /\ accepted = <<>>
  /\ thread = [c \in Master |-> "none"] /\ entries = {} /\ count = 0
  /\ peer = [c \in Master |-> "none"]
  /\ request = [c \in Master |-> "none"]
  /\ loads = 0 /\ started = 0 /\ received = 0

-----------------------------------------------------------------------------
(* The module manager loads and starts a stopped slave. *)

LoadConfig(f) ==
  /\ ~listens /\ closing = "no" /\ loads < MaxStart
  /\ loads' = loads + 1
  /\ binds' = binds \o f          \* a reload adds to what is there
  /\ UNCHANGED <<listens, closing, listening, serving, started, received>>

(* The ports of seq in the order in which they are bound: one that this     *)
(* process or another one holds already is left out.                        *)
Bound(seq, free) ==
  FoldLeft(LAMBDA acc, b : IF b.port \in free /\ b.port \notin Range(acc)
                             THEN Append(acc, b.port) ELSE acc, <<>>, seq)

Start(free) ==
  /\ ~listens /\ closing = "no" /\ binds # <<>> /\ started < MaxStart
  /\ started' = started + 1
  /\ sockets' = Bound(binds, free)
  /\ listens' = (sockets' # <<>>)
  /\ acceptor' = [i \in 1..Len(sockets') |-> "accept"]
  /\ accepted' = [i \in 1..Len(sockets') |-> "none"]
  /\ UNCHANGED <<binds, closing, serving, loads, received>>

-----------------------------------------------------------------------------
(* AcceptLoop of socket i: it was given binds[i].                            *)

AcceptMaster(i, c) ==
  /\ acceptor[i] = "accept" /\ closing \in {"no", "close"} /\ peer[c] = "none"
  /\ LET allowed == binds[i].ip \in {"", From[c]} IN
       /\ peer' = [peer EXCEPT ![c] = IF listens /\ allowed THEN "open" ELSE "closed"]
       /\ acceptor' = [acceptor EXCEPT ![i] = CASE ~listens -> "ended"
                                                 [] listens /\ allowed -> "taken"
                                                 [] listens /\ ~allowed -> @]
       /\ accepted' = [accepted EXCEPT ![i] = IF listens /\ allowed THEN c ELSE @]
  /\ UNCHANGED <<binds, listens, closing, sockets, thread, entries, count, request,
                 bounds>>

(* Mutant: the cleanup forgets the threads that are still running, too. *)
AddThreadForgets(i) ==
  /\ acceptor[i] = "taken" /\ ClientMtxFree
  /\ count' = (count + 1) % CleanupPeriod
  /\ entries' = (IF count' = 0 THEN {} ELSE entries) \cup {accepted[i]}
  /\ thread' = [thread EXCEPT ![accepted[i]] = "recv"]
  /\ acceptor' = [acceptor EXCEPT ![i] = "accept"]
  /\ accepted' = [accepted EXCEPT ![i] = "none"]
  /\ UNCHANGED <<binds, listens, closing, sockets, peer, request, bounds>>

AddThread(i) ==
  /\ acceptor[i] = "taken" /\ ClientMtxFree
  /\ count' = (count + 1) % CleanupPeriod
  /\ entries' = (IF count' = 0 THEN {c \in entries : thread[c] # "ended"} ELSE entries)
                  \cup {accepted[i]}
  /\ thread' = [thread EXCEPT ![accepted[i]] = "recv"]
  /\ acceptor' = [acceptor EXCEPT ![i] = "accept"]
  /\ accepted' = [accepted EXCEPT ![i] = "none"]
  /\ UNCHANGED <<binds, listens, closing, sockets, peer, request, bounds>>

(* running_ is read between two accepts, and a closed listener throws; any   *)
(* other error of accept() ends the thread as well, for good.                *)
AcceptEnds(i) ==
  /\ acceptor[i] = "accept"
  /\ acceptor' = [acceptor EXCEPT ![i] = "ended"]
  /\ UNCHANGED <<binds, listens, closing, sockets, accepted, serving, bounds>>

-----------------------------------------------------------------------------
(* ClientThread.                                                             *)

(* A whole frame is there; one that comes after Stop() ends the thread. *)
ReceiveFrame(c, r) ==
  /\ thread[c] = "recv" /\ peer[c] = "open" /\ received < MaxFrames
  /\ received' = received + 1
  /\ IF listens THEN /\ thread' = [thread EXCEPT ![c] = "handle"]
                     /\ request' = [request EXCEPT ![c] = r]
                ELSE /\ thread' = [thread EXCEPT ![c] = "ended"]
                     /\ UNCHANGED request
  /\ UNCHANGED <<binds, listens, closing, listening, entries, count, peer, loads,
                 started>>

(* The answer, the exception (foreign station, unknown function, unknown     *)
(* point) and the silence (a bad quantity of FC01..04) go on to the next     *)
(* request, sent or not; a frame of another protocol or of an impossible     *)
(* length ends the connection.                                               *)
HandleRequest(c) ==
  /\ thread[c] = "handle"
  /\ thread' = [thread EXCEPT ![c] = IF request[c] = "malformed" \/ ~listens THEN "ended"
                                                                         ELSE "recv"]
  /\ request' = [request EXCEPT ![c] = "none"]
  /\ UNCHANGED <<binds, listens, closing, listening, entries, count, peer, bounds>>

(* End of file or an error; without one recv() waits for ever. *)
LoseMaster(c) ==
  /\ thread[c] = "recv" /\ peer[c] = "closed"
  /\ thread' = [thread EXCEPT ![c] = "ended"]
  /\ UNCHANGED <<binds, listens, closing, listening, entries, count, peer, request,
                 bounds>>

MasterCloses(c) ==
  /\ peer[c] = "open"
  /\ peer' = [peer EXCEPT ![c] = "closed"]
  /\ UNCHANGED <<binds, listens, closing, listening, thread, entries, count, request,
                 bounds>>

-----------------------------------------------------------------------------
(* Stop().                                                                   *)

BeginStop ==
  /\ listens /\ closing = "no"
  /\ listens' = FALSE /\ closing' = "close"
  /\ UNCHANGED <<binds, listening, serving, bounds>>

StopClose ==
  /\ closing = "close"
  /\ closing' = "accepts"
  /\ UNCHANGED <<binds, listens, listening, serving, bounds>>

StopAccepts ==
  /\ closing = "accepts" /\ \A i \in Index : Ended(i)
  /\ closing' = "clients"
  /\ sockets' = <<>> /\ acceptor' = <<>> /\ accepted' = <<>>
  /\ UNCHANGED <<binds, listens, serving, bounds>>

JoinClients ==
  /\ closing = "clients" /\ \A c \in entries : thread[c] = "ended"
  /\ closing' = "no"
  /\ entries' = {}
  /\ UNCHANGED <<binds, listens, listening, thread, count, peer, request, bounds>>

-----------------------------------------------------------------------------
GoOnStopping == StopClose \/ StopAccepts \/ JoinClients
Serve(c) == HandleRequest(c) \/ LoseMaster(c)
AcceptThread(i) == i \in Index /\ (AddThread(i) \/ (~listens /\ AcceptEnds(i)))

ModbusNext ==
  \/ \E f \in Files : LoadConfig(f)
  \/ \E free \in (IF BindFails THEN SUBSET UNION {Ports(f) : f \in Files}
                               ELSE {UNION {Ports(f) : f \in Files}}) : Start(free)
  \/ \E i \in Index : AddThread(i) \/ AcceptEnds(i) \/ \E c \in Master : AcceptMaster(i, c)
  \/ \E c \in Master : Serve(c) \/ MasterCloses(c) \/ \E r \in Frames : ReceiveFrame(c, r)
  \/ BeginStop \/ GoOnStopping

ModbusSpec == ModbusInit /\ [][ModbusNext]_modbusVars

(* Threads that can go on do, and accept() comes back once its listener is   *)
(* closed; clients need not close, and without Stop() accept() need not fail.*)
ModbusFairSpec ==
  /\ ModbusSpec
  /\ WF_modbusVars(GoOnStopping)
  /\ \A c \in Master : WF_modbusVars(Serve(c))
  /\ \A i \in 1..Cardinality(UNION {Ports(f) : f \in Files}) :
       WF_modbusVars(AcceptThread(i))

-----------------------------------------------------------------------------
(* After Stop() no thread of the slave is left, not even of a connection     *)
(* that was accepted while it ran, and nothing is executed any more: a       *)
(* thread forgotten by clientThreads_ would work on a slave being reloaded.  *)
NothingLeft ==
  (~listens /\ closing = "no") =>
    /\ entries = {} /\ acceptor = <<>>
    /\ \A c \in Master : thread[c] \in {"none", "ended"}

(* Stop() comes back if every client closes its connection sooner or later:  *)
(* recv() has no timeout and nobody shuts the clients' sockets.              *)
StopJoinsAll ==
  (\A c \in Master : []<>(peer[c] # "open")) =>
    ((closing = "close") ~> (closing = "no"))
=============================================================================
