---------------------------- MODULE Iec104Slave ----------------------------
(* The IEC 60870-5-104 slave (iec104_slave.cxx): accept loop, one thread    *)
(* per control centre, the uploads of changes by the thread that publishes  *)
(* them, the cyclic uploads, and Stop().                                    *)
(*                                                                          *)
(* Handler of connection c:                                                 *)
(*   "register" -> "recv" -> "answer" (the rest of HandleFrame is todo[c])  *)
(*   -> "recv" | "erase" -> "ended"                                         *)
(* Uploading thread (collector: SendDIActiveUpload, timer: TimerThread):    *)
(*   "idle" -> "changed" -> "upload" (left[u] has still to be served)       *)
(* SendIFrameLocked is two steps of thread t: the number is taken, then the *)
(* frame is written; sending[t] says on which connection, whose sendMtx t   *)
(* holds meanwhile.  Stop(): "no" -> "flag" -> "accept" -> "clients" ->     *)
(* "joined".                                                                *)
EXTENDS Naturals, Sequences

CONSTANTS
  Client,         \* connections, each accepted at most once
  SeqModulus,     \* 2^15 in the code
  DiCount,        \* DI points of the device
  DiPlace,        \* the place of di among them
  MaxPerFrame,    \* DI points packed into a frame of the GI answer (120)
  MaxAsdu,        \* longest ASDU that SendIFrame accepts (249)
  Requests,       \* requests that control centres make
  MaxRequests,    \* bound on the requests of a connection
  MaxChanges,     \* bound on the changes of the DI point
  MaxCycles       \* bound on the cyclic uploads

Uploader == {"collector", "timer"}
Thread == Client \cup Uploader

ASSUME SlaveAssumption ==
  /\ Client \cap Uploader = {} /\ "none" \notin Client
  /\ SeqModulus \in Nat \ {0} /\ DiPlace \in 1 .. DiCount
  /\ Requests \subseteq {"gi", "command", "unknown", "startdt", "ack"}

VARIABLES
  running,        \* running_
  stopping,       \* where Stop() is
  conn,           \* the connection as its two ends have left it
  clients,        \* clients_
  at,             \* where the handler of a connection is
  todo,           \* frames it has still to send for the request at hand
  asked,          \* requests read from the connection
  uploader,       \* where an uploading thread is
  left,           \* connections of its snapshot that it has still to serve
  sending,        \* a thread inside SendIFrameLocked
  sNr,            \* ClientInfo::sNr
  last,           \* N(S) of the last I frame written to the connection
  di,             \* one DI point in the table
  told,           \* what the control centre was told last of it
  disturbed,      \* history: the point changed between the building of the
                  \* frame that answers a GI and its sending
  changes, cycles,
  aborted         \* an exception left a thread: std::terminate

handlers == <<conn, clients, at, todo, asked>>
wire == <<sending, sNr, last, told>>
counters == <<changes, cycles>>
vars == <<running, stopping, handlers, uploader, left, wire, di, disturbed,
          counters, aborted>>

None == [to |-> "none"]
Idle(t) == sending[t] = None
SendMtxFree(c) == \A t \in Thread : sending[t].to # c

(* A frame of kind f has still to be sent to c. *)
Holds(c, f) == \E i \in 1..Len(todo[c]) : todo[c][i] = f
Built(c) == Holds(c, "on") \/ Holds(c, "off")
InGi(c) == Holds(c, "di") \/ Built(c)

Init ==
  /\ running = TRUE /\ stopping = "no" /\ aborted = FALSE
  /\ conn = [c \in Client |-> "none"]
  /\ clients = {}
  /\ at = [c \in Client |-> "none"]
  /\ todo = [c \in Client |-> <<>>]
  /\ asked = [c \in Client |-> 0]
  /\ uploader = [u \in Uploader |-> "idle"]
  /\ left = [u \in Uploader |-> {}]
  /\ sending = [t \in Thread |-> None]
  /\ sNr = [c \in Client |-> 0]
  /\ last = [c \in Client |-> SeqModulus - 1]
  /\ di = "off"
  /\ told = [c \in Client |-> "nothing"]
  /\ disturbed = [c \in Client |-> FALSE]
  /\ changes = 0 /\ cycles = 0

-----------------------------------------------------------------------------
(* What HandleFrame makes of a request.                                     *)

(* The four bytes of a control field, low byte first.  The constant of      *)
(* STARTDT has its code in the high byte, the standard in the low one.      *)
OnWire(ctrl) == <<ctrl % 256, (ctrl \div 256) % 256,
                  (ctrl \div 65536) % 256, ctrl \div 16777216>>
StartDtAct == OnWire(7 * 16777216)
FrameClass(bytes) == CASE bytes[1] % 4 = 3 -> "U"
                       [] bytes[1] % 4 = 1 -> "S"
                       [] OTHER            -> "I"
Confirmed(bytes) == FrameClass(bytes) = "U" /\ bytes = StartDtAct

(* Remote control, set point and clock: confirmed in a frame, positively or *)
(* not, then in an S frame; what they set in the point table is left out.   *)
CommandReply == <<"reply", "S">>

(* The answers in their order.  A GI is answered with the DI points of the  *)
(* device and a frame per AI and energy point (one each stands for them).   *)
Answers(request) ==
  CASE request = "gi"      -> <<"actcon", "di", "ai", "energy", "actterm", "S">>
    [] request = "command" -> CommandReply
    [] request = "unknown" -> <<"S">>
    [] request = "startdt" -> IF Confirmed(<<7, 0, 0, 0>>) THEN <<"U">> ELSE <<>>
    [] request = "ack"     -> <<>>

(* The frame with di has an address and a value for each of its points; only *)
(* the last frame may have fewer than the most.                              *)
DiLength ==
  LET before == ((DiPlace - 1) \div MaxPerFrame) * MaxPerFrame
  IN 6 + 4 * (IF DiCount - before < MaxPerFrame THEN DiCount - before ELSE MaxPerFrame)
TooLong(frame) == frame \in {"on", "off"} /\ DiLength > MaxAsdu

-----------------------------------------------------------------------------
(* Accept loop and the threads of the connections.                          *)

Accept(c) ==
  /\ stopping \in {"no", "flag"} /\ conn[c] = "none"
  /\ conn' = [conn EXCEPT ![c] = "open"]
  /\ at' = [at EXCEPT ![c] = "register"]
  /\ UNCHANGED <<running, stopping, clients, todo, asked, uploader, left, wire, di,
                 disturbed, counters, aborted>>

Resume(c) == at' = [at EXCEPT ![c] = IF running THEN "recv" ELSE "erase"]

Register(c) ==
  /\ at[c] = "register"
  /\ clients' = clients \cup {c}
  /\ Resume(c)
  /\ UNCHANGED <<running, stopping, conn, todo, asked, uploader, left, wire, di,
                 disturbed, counters, aborted>>

Receive(c, request) ==
  /\ at[c] = "recv" /\ conn[c] = "open" /\ asked[c] < MaxRequests
  /\ asked' = [asked EXCEPT ![c] = @ + 1]
  /\ todo' = [todo EXCEPT ![c] = Answers(request)]
  /\ at' = [at EXCEPT ![c] = "answer"]
  /\ disturbed' = [disturbed EXCEPT ![c] = @ /\ request # "gi"]
  /\ UNCHANGED <<running, stopping, conn, clients, uploader, left, wire, di,
                 counters, aborted>>

Answered(c) ==
  /\ at[c] = "answer" /\ todo[c] = <<>>
  /\ Resume(c)
  /\ UNCHANGED <<running, stopping, conn, clients, todo, asked, uploader, left,
                 wire, di, disturbed, counters, aborted>>

(* End of file or running_ gone, noticed within a receive timeout. *)
Leave(c) ==
  /\ at[c] = "recv" /\ (conn[c] # "open" \/ ~running)
  /\ at' = [at EXCEPT ![c] = "erase"]
  /\ UNCHANGED <<running, stopping, conn, clients, todo, asked, uploader, left,
                 wire, di, disturbed, counters, aborted>>

Erase(c) ==
  /\ at[c] = "erase"
  /\ clients' = clients \ {c}
  /\ at' = [at EXCEPT ![c] = "ended"]
  /\ UNCHANGED <<running, stopping, conn, todo, asked, uploader, left, wire, di,
                 disturbed, counters, aborted>>

PeerCloses(c) ==
  /\ conn[c] = "open"
  /\ conn' = [conn EXCEPT ![c] = "gone"]
  /\ UNCHANGED <<running, stopping, clients, at, todo, asked, uploader, left, wire,
                 di, disturbed, counters, aborted>>

-----------------------------------------------------------------------------
(* SendIFrameLocked: thread t takes the number under sendMtx of c, then     *)
(* writes the frame; value is what the frame says of the DI point.          *)

(* Mutant: the number is taken without sendMtx. *)
TakeNumberUnlocked(t, c) ==
  /\ Idle(t)
  /\ sending' = [sending EXCEPT ![t] = [to |-> c, ns |-> sNr[c]]]
  /\ sNr' = [sNr EXCEPT ![c] = (@ + 1) % SeqModulus]

TakeNumber(t, c) ==
  /\ Idle(t) /\ SendMtxFree(c)
  /\ sending' = [sending EXCEPT ![t] = [to |-> c, ns |-> sNr[c]]]
  /\ sNr' = [sNr EXCEPT ![c] = (@ + 1) % SeqModulus]

(* What the peer has closed may still be written to, until it has been reset. *)
Sendable(c) == conn[c] \in {"open", "gone"}

WriteFrame(t, c, value) ==
  /\ sending' = [sending EXCEPT ![t] = None]
  /\ last' = [last EXCEPT ![c] = sending[t].ns]
  /\ told' = IF value \in {"on", "off"} THEN [told EXCEPT ![c] = value] ELSE told

(* The frame of the DI points is built from the table before it is sent;    *)
(* one that is too long is not sent, and nobody is told.                    *)
BuildGIResponseDI(c) ==
  /\ at[c] = "answer" /\ todo[c] # <<>> /\ Head(todo[c]) = "di"
  /\ todo' = [todo EXCEPT ![c] = (IF TooLong(di) THEN <<>> ELSE <<di>>) \o Tail(@)]
  /\ UNCHANGED <<running, stopping, conn, clients, at, asked, uploader, left, wire,
                 di, disturbed, counters, aborted>>

Answering(c) == at[c] = "answer" /\ todo[c] # <<>> /\ Head(todo[c]) # "di"

(* S and U frames carry no number. *)
AnswerUnnumbered(c) ==
  /\ Answering(c) /\ Head(todo[c]) \in {"S", "U"}
  /\ Sendable(c) /\ SendMtxFree(c)
  /\ todo' = [todo EXCEPT ![c] = Tail(@)]
  /\ UNCHANGED <<running, stopping, conn, clients, at, asked, uploader, left, wire,
                 di, disturbed, counters, aborted>>

AnswerBegins(c) ==
  /\ Answering(c) /\ Head(todo[c]) \notin {"S", "U"}
  /\ TakeNumber(c, c)
  /\ UNCHANGED <<running, stopping, handlers, uploader, left, last, told, di,
                 disturbed, counters, aborted>>

AnswerWritten(c) ==
  /\ ~Idle(c) /\ Sendable(c)
  /\ WriteFrame(c, c, Head(todo[c]))
  /\ todo' = [todo EXCEPT ![c] = Tail(@)]
  /\ UNCHANGED <<running, stopping, conn, clients, at, asked, uploader, left, sNr,
                 di, disturbed, counters, aborted>>

(* HandleFrame runs outside the try block of ClientThread: a send on a      *)
(* connection that is gone ends the process.                                *)
AnswerThrows(c) ==
  /\ Answering(c) /\ conn[c] # "open"
  /\ Idle(c) => SendMtxFree(c)
  /\ aborted' = TRUE
  /\ UNCHANGED <<running, stopping, handlers, uploader, left, wire, di, disturbed,
                 counters>>

-----------------------------------------------------------------------------
(* Uploads.  The collector's thread sets the point and runs the handler.    *)

(* Mutant: only a change to ON is uploaded. *)
SetDiRising ==
  /\ uploader["collector"] = "idle" /\ changes < MaxChanges
  /\ di' = IF di = "on" THEN "off" ELSE "on"
  /\ changes' = changes + 1
  /\ disturbed' = [c \in Client |-> disturbed[c] \/ Built(c)]
  /\ uploader' = [uploader EXCEPT !["collector"] =
                    IF running /\ di' = "on" THEN "changed" ELSE @]
  /\ UNCHANGED <<running, stopping, handlers, left, wire, cycles, aborted>>

SetDi ==
  /\ uploader["collector"] = "idle" /\ changes < MaxChanges
  /\ di' = IF di = "on" THEN "off" ELSE "on"
  /\ changes' = changes + 1
  /\ disturbed' = [c \in Client |-> disturbed[c] \/ Built(c)]
  /\ uploader' = [uploader EXCEPT !["collector"] = IF running THEN "changed" ELSE @]
  /\ UNCHANGED <<running, stopping, handlers, left, wire, cycles, aborted>>

Snapshot(u) ==
  /\ left' = [left EXCEPT ![u] = clients]
  /\ uploader' = [uploader EXCEPT ![u] = IF clients = {} THEN "idle" ELSE "upload"]

SendDIActiveUpload ==
  /\ uploader["collector"] = "changed"
  /\ Snapshot("collector")
  /\ UNCHANGED <<running, stopping, handlers, wire, di, disturbed, counters, aborted>>

TimerThread ==
  /\ uploader["timer"] = "idle" /\ running /\ cycles < MaxCycles
  /\ cycles' = cycles + 1
  /\ Snapshot("timer")
  /\ UNCHANGED <<running, stopping, handlers, wire, di, disturbed, changes, aborted>>

Served(u, c) ==
  /\ left' = [left EXCEPT ![u] = @ \ {c}]
  /\ uploader' = [uploader EXCEPT ![u] = IF left[u] = {c} THEN "idle" ELSE @]

UploadBegins(u, c) ==
  /\ c \in left[u]
  /\ TakeNumber(u, c)
  /\ UNCHANGED <<running, stopping, handlers, uploader, left, last, told, di,
                 disturbed, counters, aborted>>

UploadWritten(u) == LET c == sending[u].to IN
  /\ ~Idle(u) /\ Sendable(c)
  /\ WriteFrame(u, c, IF u = "collector" THEN di ELSE "nothing")
  /\ disturbed' = [disturbed EXCEPT ![c] = @ /\ (u = "timer" \/ Built(c))]
  /\ Served(u, c)
  /\ UNCHANGED <<running, stopping, handlers, sNr, di, counters, aborted>>

(* Mutant: an upload that fails is tried again. *)
UploadFailsAgain(u) == LET c == sending[u].to IN
  /\ ~Idle(u) /\ conn[c] # "open"
  /\ conn' = [conn EXCEPT ![c] = "closed"]
  /\ sending' = [sending EXCEPT ![u] = None]
  /\ UNCHANGED <<running, stopping, clients, at, todo, asked, uploader, left, sNr,
                 last, told, di, disturbed, counters, aborted>>

(* Here the exception is caught; the number stays taken, and nothing can be  *)
(* sent any more.                                                            *)
UploadFails(u) == LET c == sending[u].to IN
  /\ ~Idle(u) /\ conn[c] # "open"
  /\ conn' = [conn EXCEPT ![c] = "closed"]
  /\ sending' = [sending EXCEPT ![u] = None]
  /\ Served(u, c)
  /\ UNCHANGED <<running, stopping, clients, at, todo, asked, sNr, last, told, di,
                 disturbed, counters, aborted>>

-----------------------------------------------------------------------------
(* Stop().                                                                  *)

StopFlag ==
  /\ stopping = "no"
  /\ stopping' = "flag" /\ running' = FALSE
  /\ UNCHANGED <<handlers, uploader, left, wire, di, disturbed, counters, aborted>>

StopAccept ==
  /\ stopping = "flag"
  /\ stopping' = "accept"
  /\ UNCHANGED <<running, handlers, uploader, left, wire, di, disturbed, counters,
                 aborted>>

StopClients ==
  /\ stopping = "accept"
  /\ stopping' = "clients"
  /\ conn' = [c \in Client |-> IF c \in clients THEN "closed" ELSE conn[c]]
  /\ clients' = {}
  /\ UNCHANGED <<running, at, todo, asked, uploader, left, wire, di, disturbed,
                 counters, aborted>>

StopJoin ==
  /\ stopping = "clients"
  /\ \A c \in Client : at[c] \in {"none", "ended"}
  /\ uploader["timer"] = "idle"
  /\ stopping' = "joined"
  /\ UNCHANGED <<running, handlers, uploader, left, wire, di, disturbed, counters,
                 aborted>>

-----------------------------------------------------------------------------
Handle(c) ==
  ~aborted /\ (\/ Register(c) \/ Answered(c) \/ Leave(c) \/ Erase(c)
               \/ BuildGIResponseDI(c) \/ AnswerUnnumbered(c) \/ AnswerBegins(c)
               \/ AnswerWritten(c) \/ AnswerThrows(c))

Upload(u) ==
  ~aborted /\ (\/ u = "collector" /\ SendDIActiveUpload
               \/ \E c \in Client : UploadBegins(u, c)
               \/ UploadWritten(u) \/ UploadFails(u))

StopStep == ~aborted /\ (StopAccept \/ StopClients \/ StopJoin)

Environment ==
  ~aborted /\ (\/ \E c \in Client : Accept(c) \/ PeerCloses(c)
               \/ \E c \in Client, r \in Requests : Receive(c, r)
               \/ SetDi \/ TimerThread \/ StopFlag)

Next == \/ \E c \in Client : Handle(c)
        \/ \E u \in Uploader : Upload(u)
        \/ StopStep
        \/ Environment

Spec == Init /\ [][Next]_vars

(* Threads that can go on do; centres ask, close and stay as they like. *)
FairSpec ==
  /\ Spec /\ WF_vars(StopStep)
  /\ \A c \in Client : WF_vars(Handle(c))
  /\ \A u \in Uploader : WF_vars(Upload(u))

-----------------------------------------------------------------------------
(* N(S) of the frames on a connection has no gap and no repetition, however *)
(* the answers and the uploads of three threads are interleaved (sendMtx).  *)
InSequence ==
  [][\A c \in Client : last'[c] # last[c] => last'[c] = (last[c] + 1) % SeqModulus]_vars

(* With no upload under way, and unless a change overtook the answer to a   *)
(* GI, a control centre that has been told the point, or whose GI is        *)
(* complete, was told the value it has.                                     *)
TellsTruth ==
  \A c \in Client :
    (/\ uploader["collector"] = "idle" /\ running /\ c \in clients
     /\ conn[c] = "open" /\ ~InGi(c) /\ ~disturbed[c]
     /\ told[c] # "nothing" \/ (todo[c] # <<>> /\ Head(todo[c]) = "actterm"))
    => told[c] = di

(* Stop() comes back, unless an answer cut by it ends the process. *)
StopReturns == (stopping = "flag") ~> (stopping = "joined" \/ aborted)
=============================================================================
