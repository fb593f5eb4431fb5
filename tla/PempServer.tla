----------------------------- MODULE PempServer -----------------------------
(***************************************************************************)
(* The PEMP 2.0 server (src/src/pemp_server.cxx) between the event bus,    *)
(* whose DIChange events it turns into SOE events in g_soeQueue, and the   *)
(* masters that connect to it.  Threads: the collectors, which publish; an *)
(* accept thread; one client_handler per connection; the one in stop().    *)
(*                                                                         *)
(* pc[c], where client_handler c stands: "free" (no thread), "top" of its  *)
(* loop, "recv", "upload", "pop", "sendDi", "sendAi", "sendSoe", "done"    *)
(* (returned, still in clientThreads_).                                    *)
(* Time is counted in RECV_TIMEOUTs, the 500 ms a client_handler waits.    *)
(***************************************************************************)
EXTENDS Naturals, Sequences, FiniteSets, SOEQueue

CONSTANTS
  Source,        \* the collector threads
  MaxSeq,        \* bound: events of one source
  Client,        \* bound: entries of clientThreads_
  MaxLive,       \* connections at the same time, those with unread data included
  CleanupPeriod, \* accepts between two cleanups of clientThreads_
  NumDevices,    \* devices, each a frame of an upload of DI or AI
  DiInterval,    \* di_upload_ms, 0 for never
  AiInterval,    \* ai_upload_ms, 0 for never
  AckTicks,      \* ACK_TIMEOUT
  CountLimit,    \* most events do_upload_soe puts into a frame
  LenLimit,      \* most events the 16 bits of LEN can describe
  Frames,        \* what masters send
  Quiet,         \* masters only answer while an upload is unanswered
  Faults,        \* what happens to connections
  MaxRestart     \* bound: stop / start cycles

ASSUME ServerAssumption ==
  /\ {MaxSeq, MaxLive, NumDevices, DiInterval, AiInterval, MaxRestart} \subseteq Nat
  /\ {CleanupPeriod, AckTicks, CountLimit, LenLimit} \subseteq Nat \ {0}
  /\ IsFiniteSet(Client)
  /\ Frames \subseteq {"start", "stop", "request", "ack"} /\ Quiet \in BOOLEAN
  /\ Faults \subseteq {"cut", "stall"}

Event == [source : Source, seq : 1 .. MaxSeq]

VARIABLES
  pempPhase,  \* of start() and stop(): "starting", "up", "stopping", "closed", "down"
  subscribed, \* diSubToken_ is set
  accepting,  \* the accept thread runs
  accepts,    \* cleanupCnt, modulo CleanupPeriod
  restarts,
  published,  \* events each source has published
  handling,   \* event in the handler called by each source, 0 for none
  events,     \* events_ of g_soeQueue
  pc,
  active,     \* STATE_UPLOAD_ACTIVE
  waitingAck, ackAge, diAge, aiAge,
  batch,      \* what PopAll has returned
  link,       \* "up", "stalled" (the master does not read) or "cut"
  flight,     \* SOE events written to a connection and not read yet
  taken,      \* history: events the subscription has taken
  delivered,  \* history: events a master has read
  dropped,    \* history: events written to a connection that broke
  unanswered  \* history: uploads neither answered nor timed out, at most 2

server  == <<pempPhase, subscribed, accepting, accepts, restarts>>
timers  == <<waitingAck, ackAge, diAge, aiAge>>
clients == <<pc, active, timers, batch, link, flight, unanswered>>
fate    == <<delivered, dropped>>
pempVars == <<server, published, handling, events, clients, taken, fate>>

pempRunning == pempPhase \in {"starting", "up"}     \* running_
Live    == {c \in Client : pc[c] \notin {"free", "done"}}
Elements(q) == {q[i] : i \in 1 .. Len(q)}

GoesTo(c, l) == pc' = [pc EXCEPT ![c] = l]

\* client_handler returns, and its variables are gone: they are as at its begin.
Return(c) ==
  /\ GoesTo(c, "done")
  /\ active' = [active EXCEPT ![c] = FALSE]
  /\ waitingAck' = [waitingAck EXCEPT ![c] = FALSE]
  /\ ackAge' = [ackAge EXCEPT ![c] = 0]
  /\ diAge' = [diAge EXCEPT ![c] = 0] /\ aiAge' = [aiAge EXCEPT ![c] = 0]
  /\ unanswered' = [unanswered EXCEPT ![c] = 0]

-----------------------------------------------------------------------------
(* EventBus::Publish of a DIChange, and the handler that start() subscribes *)

\* The list of handlers is copied; they are called after the unlock.
Publish(s) ==
  LET e == [source |-> s, seq |-> published[s] + 1] IN
  /\ handling[s] = 0 /\ published[s] < MaxSeq
  /\ published' = [published EXCEPT ![s] = @ + 1]
  /\ IF subscribed
     THEN handling' = [handling EXCEPT ![s] = e.seq] /\ taken' = taken \cup {e}
     ELSE UNCHANGED <<handling, taken>>
  /\ UNCHANGED <<server, events, clients, fate>>

\* Mutant: the handler reads the record of the next change, not of its own.
HandleNext(s) ==
  /\ handling[s] # 0
  /\ events' = Push(events, [source |-> s, seq |-> published[s] + 1])
  /\ handling' = [handling EXCEPT ![s] = 0]
  /\ UNCHANGED <<server, published, clients, taken, fate>>

\* The handler converts the change and pushes it.
Handle(s) ==
  /\ handling[s] # 0
  /\ events' = Push(events, [source |-> s, seq |-> handling[s]])
  /\ handling' = [handling EXCEPT ![s] = 0]
  /\ UNCHANGED <<server, published, clients, taken, fate>>

-----------------------------------------------------------------------------
(* start(), stop() and accept_loop *)

StartServer ==
  /\ pempPhase = "down" /\ restarts < MaxRestart
  /\ pempPhase' = "starting" /\ restarts' = restarts + 1
  /\ accepting' = TRUE /\ accepts' = 0
  /\ UNCHANGED <<subscribed, published, handling, events, clients, taken, fate>>

Subscribe ==
  /\ pempPhase = "starting"
  /\ pempPhase' = "up" /\ subscribed' = TRUE
  /\ UNCHANGED <<accepting, accepts, restarts, published, handling, events, clients, taken, fate>>

StopServer ==
  /\ pempPhase = "up" /\ restarts < MaxRestart
  /\ pempPhase' = "stopping"
  /\ UNCHANGED <<subscribed, accepting, accepts, restarts, published, handling, events, clients,
                 taken, fate>>

\* The subscription is cancelled and the listeners are closed ...
CloseListeners ==
  /\ pempPhase = "stopping"
  /\ pempPhase' = "closed" /\ subscribed' = FALSE
  /\ UNCHANGED <<accepting, accepts, restarts, published, handling, events, clients, taken, fate>>

\* ... then the accept thread and every client_handler are joined.
JoinAll ==
  /\ pempPhase = "closed" /\ ~accepting /\ Live = {}
  /\ pempPhase' = "down"
  /\ pc' = [c \in Client |-> "free"]
  /\ UNCHANGED <<subscribed, accepting, accepts, restarts, published, handling, events, active,
                 timers, batch, link, flight, unanswered, taken, fate>>

EndAccept ==
  /\ accepting /\ ~pempRunning
  /\ accepting' = FALSE
  /\ UNCHANGED <<pempPhase, subscribed, accepts, restarts, published, handling, events, clients,
                 taken, fate>>

\* Mutant: every client_handler that has returned stays in clientThreads_.
CleanedNever(n) == pc

\* Every CleanupPeriod-th accept joins and erases the threads that are done.
Cleaned(n) ==
  IF n % CleanupPeriod = 0 THEN [c \in Client |-> IF pc[c] = "done" THEN "free" ELSE pc[c]] ELSE pc

Accept(c) ==
  LET n == accepts + 1 IN
  /\ accepting /\ pempRunning /\ Cardinality(Live \cup {k \in Client : flight[k] # {}}) < MaxLive
  /\ Cleaned(n)[c] = "free" /\ flight[c] = {}
  /\ pc' = [Cleaned(n) EXCEPT ![c] = "top"]
  /\ accepts' = n % CleanupPeriod
  /\ link' = [link EXCEPT ![c] = "up"]
  /\ UNCHANGED <<pempPhase, subscribed, accepting, restarts, published, handling, events, active, timers,
                 batch, flight, unanswered, taken, fate>>

-----------------------------------------------------------------------------
(* client_handler *)

\* Mutant: the loop goes on while the connection lives.
TopForever(c) ==
  /\ pc[c] = "top"
  /\ GoesTo(c, "recv")
  /\ waitingAck' = [waitingAck EXCEPT ![c] = @ /\ ackAge[c] < AckTicks]
  /\ unanswered' = [unanswered EXCEPT ![c] = IF ackAge[c] < AckTicks THEN @ ELSE 0]
  /\ UNCHANGED <<server, published, handling, events, active, ackAge, diAge, aiAge, batch, link,
                 flight, taken, fate>>

\* Mutant: no ACK timeout.
TopWaits(c) ==
  /\ pc[c] = "top"
  /\ IF pempRunning THEN GoesTo(c, "recv") /\ UNCHANGED <<active, timers, unanswered>> ELSE Return(c)
  /\ UNCHANGED <<server, published, handling, events, batch, link, flight, taken, fate>>

\* The loop condition and the ACK timeout.
Top(c) ==
  /\ pc[c] = "top"
  /\ IF pempRunning
     THEN /\ GoesTo(c, "recv")
          /\ waitingAck' = [waitingAck EXCEPT ![c] = @ /\ ackAge[c] < AckTicks]
          /\ unanswered' = [unanswered EXCEPT ![c] = IF ackAge[c] < AckTicks THEN @ ELSE 0]
          /\ UNCHANGED <<active, ackAge, diAge, aiAge>>
     ELSE Return(c)
  /\ UNCHANGED <<server, published, handling, events, batch, link, flight, taken, fate>>

\* Time passes for c; what is due, or timed out, grows no older.
Elapse(c, ticks) ==
  /\ ackAge' = [ackAge EXCEPT ![c] = Least(@ + ticks, AckTicks)]
  /\ diAge' = [diAge EXCEPT ![c] = Least(@ + ticks, DiInterval)]
  /\ aiAge' = [aiAge EXCEPT ![c] = Least(@ + ticks, AiInterval)]

RecvTimeout(c) ==
  /\ pc[c] = "recv"
  /\ Elapse(c, 1)
  /\ GoesTo(c, "upload")
  /\ UNCHANGED <<server, published, handling, events, active, waitingAck, batch, link, flight,
                 unanswered, taken, fate>>

\* recv brings a frame, and handle_request: any valid frame ends the wait for
\* an ACK, only some requests switch the upload.
RecvFrame(c, frame) ==
  /\ pc[c] = "recv" /\ link[c] = "up" /\ frame \in Frames
  /\ Quiet => frame = "ack" \/ unanswered[c] = 0
  /\ \E ticks \in {0, 1} : Elapse(c, ticks)
  /\ waitingAck' = [waitingAck EXCEPT ![c] = FALSE]
  /\ active' = [active EXCEPT ![c] = frame = "start" \/ (@ /\ frame # "stop")]
  /\ unanswered' = [unanswered EXCEPT ![c] = IF frame = "ack" /\ @ > 0 THEN @ - 1 ELSE @]
  /\ GoesTo(c, "upload")
  /\ UNCHANGED <<server, published, handling, events, batch, link, flight, taken, fate>>

RecvClosed(c) ==
  /\ pc[c] = "recv" /\ link[c] = "cut"
  /\ Return(c)
  /\ UNCHANGED <<server, published, handling, events, batch, link, flight, taken, fate>>

DiDue(c) == DiInterval > 0 /\ diAge[c] >= DiInterval
AiDue(c) == AiInterval > 0 /\ aiAge[c] >= AiInterval

\* Mutant: an upload does not wait for the ACK of the one before.
NextUploadEager(c) ==
  IF ~active[c] THEN "top"
  ELSE IF DiDue(c) THEN "sendDi"
  ELSE IF AiDue(c) THEN "sendAi"
  ELSE IF events # <<>> THEN "pop"
  ELSE "top"

\* What is uploaded in this round: DI before AI before SOE.
NextUpload(c) ==
  IF ~active[c] \/ waitingAck[c] THEN "top"
  ELSE IF DiDue(c) THEN "sendDi"
  ELSE IF AiDue(c) THEN "sendAi"
  ELSE IF events # <<>> THEN "pop"
  ELSE "top"

Upload(c) ==
  /\ pc[c] = "upload"
  /\ GoesTo(c, NextUpload(c))
  /\ UNCHANGED <<server, published, handling, events, active, timers, batch, link, flight,
                 unanswered, taken, fate>>

\* n frames are on their way and the handler begins to wait for an ACK.
Sent(c, n) ==
  /\ waitingAck' = [waitingAck EXCEPT ![c] = TRUE]
  /\ ackAge' = [ackAge EXCEPT ![c] = 0]
  /\ unanswered' = [unanswered EXCEPT ![c] = Least(@ + n, 2)]
  /\ GoesTo(c, "top")

\* do_upload_di, do_upload_ai: a frame per device.  A write to a connection
\* that is already cut may still succeed, one that is stalled blocks.
SendDi(c) ==
  /\ pc[c] = "sendDi" /\ link[c] # "stalled"
  /\ Sent(c, NumDevices)
  /\ diAge' = [diAge EXCEPT ![c] = 0]
  /\ UNCHANGED <<server, published, handling, events, active, aiAge, batch, link, flight, taken,
                 fate>>

SendAi(c) ==
  /\ pc[c] = "sendAi" /\ link[c] # "stalled"
  /\ Sent(c, NumDevices)
  /\ aiAge' = [aiAge EXCEPT ![c] = 0]
  /\ UNCHANGED <<server, published, handling, events, active, diAge, batch, link, flight, taken,
                 fate>>

SendRaises(c) ==
  /\ pc[c] \in {"sendDi", "sendAi"} /\ link[c] = "cut"
  /\ Return(c)
  /\ UNCHANGED <<server, published, handling, events, batch, link, flight, taken, fate>>

\* do_upload_soe: PopAll, which may find that another handler was faster ...
Pop(c) ==
  /\ pc[c] = "pop"
  /\ batch' = [batch EXCEPT ![c] = events]
  /\ events' = <<>>
  /\ GoesTo(c, "sendSoe")
  /\ UNCHANGED <<server, published, handling, active, timers, link, flight, unanswered, taken, fate>>

\* ... then a frame with the first CountLimit events, the others go back.  A
\* frame of more than LenLimit cannot be parsed by the master.
SendSoe(c) ==
  LET n    == Least(Len(batch[c]), CountLimit)
      sent == Elements(SubSeq(batch[c], 1, n))
  IN
  /\ pc[c] = "sendSoe" /\ link[c] # "stalled"
  /\ IF link[c] = "cut"
     THEN dropped' = dropped \cup sent /\ UNCHANGED flight
     ELSE /\ flight' = [flight EXCEPT ![c] = IF n <= LenLimit THEN @ \cup sent ELSE @]
          /\ UNCHANGED dropped
  /\ events' = PushFrontBatch(events, SubSeq(batch[c], n + 1, Len(batch[c])))
  /\ batch' = [batch EXCEPT ![c] = <<>>]
  /\ Sent(c, 1)
  /\ UNCHANGED <<server, published, handling, active, diAge, aiAge, link, taken, delivered>>

\* Mutant: do_upload_soe before fix H1.
SendSoeRaisesForgets(c) ==
  /\ pc[c] = "sendSoe" /\ link[c] = "cut"
  /\ batch' = [batch EXCEPT ![c] = <<>>]
  /\ GoesTo(c, "top")
  /\ UNCHANGED <<server, published, handling, events, active, timers, link, flight, unanswered,
                 taken, fate>>

\* Mutant: what could not be sent goes to the end of the queue.
SendSoeRaisesBehind(c) ==
  /\ pc[c] = "sendSoe" /\ link[c] = "cut"
  /\ events' = events \o batch[c]
  /\ batch' = [batch EXCEPT ![c] = <<>>]
  /\ GoesTo(c, "top")
  /\ UNCHANGED <<server, published, handling, active, timers, link, flight, unanswered, taken, fate>>

\* The frame could not be sent: its events go back to the front.
SendSoeRaises(c) ==
  /\ pc[c] = "sendSoe" /\ link[c] = "cut"
  /\ events' = PushFrontBatch(events, batch[c])
  /\ batch' = [batch EXCEPT ![c] = <<>>]
  /\ GoesTo(c, "top")
  /\ UNCHANGED <<server, published, handling, active, timers, link, flight, unanswered, taken, fate>>

-----------------------------------------------------------------------------
(* The masters and the network *)

\* The master reads what is on the way to it.
Read(c) ==
  /\ link[c] = "up" /\ flight[c] # {}
  /\ delivered' = delivered \cup flight[c]
  /\ flight' = [flight EXCEPT ![c] = {}]
  /\ UNCHANGED <<server, published, handling, events, pc, active, timers, batch, link, unanswered,
                 taken, dropped>>

Stall(c) ==
  /\ "stall" \in Faults /\ c \in Live /\ link[c] = "up"
  /\ link' = [link EXCEPT ![c] = "stalled"]
  /\ UNCHANGED <<server, published, handling, events, pc, active, timers, batch, flight,
                 unanswered, taken, fate>>

Unstall(c) ==
  /\ link[c] = "stalled"
  /\ link' = [link EXCEPT ![c] = "up"]
  /\ UNCHANGED <<server, published, handling, events, pc, active, timers, batch, flight,
                 unanswered, taken, fate>>

\* What was not read when a connection breaks is lost; it may break after its
\* handler has returned, too.
Cut(c) ==
  /\ "cut" \in Faults /\ link[c] # "cut" /\ (c \in Live \/ flight[c] # {})
  /\ link' = [link EXCEPT ![c] = "cut"]
  /\ flight' = [flight EXCEPT ![c] = {}] /\ dropped' = dropped \cup flight[c]
  /\ UNCHANGED <<server, published, handling, events, pc, active, timers, batch, unanswered,
                 taken, delivered>>

-----------------------------------------------------------------------------
PempInit ==
  /\ pempPhase = "up" /\ subscribed = TRUE /\ accepting = TRUE /\ accepts = 0 /\ restarts = 0
  /\ published = [s \in Source |-> 0] /\ handling = [s \in Source |-> 0]
  /\ events = <<>>
  /\ pc = [c \in Client |-> "free"] /\ active = [c \in Client |-> FALSE]
  /\ waitingAck = [c \in Client |-> FALSE] /\ ackAge = [c \in Client |-> 0]
  /\ diAge = [c \in Client |-> 0] /\ aiAge = [c \in Client |-> 0]
  /\ batch = [c \in Client |-> <<>>] /\ link = [c \in Client |-> "up"]
  /\ flight = [c \in Client |-> {}]
  /\ taken = {} /\ delivered = {} /\ dropped = {}
  /\ unanswered = [c \in Client |-> 0]

Handler(c) ==
  \/ Top(c) \/ RecvTimeout(c) \/ RecvClosed(c) \/ Upload(c)
  \/ SendDi(c) \/ SendAi(c) \/ SendRaises(c)
  \/ Pop(c) \/ SendSoe(c) \/ SendSoeRaises(c)

Server == StartServer \/ Subscribe \/ CloseListeners \/ JoinAll \/ EndAccept

PempNext ==
  \/ Server \/ StopServer
  \/ \E s \in Source : Publish(s) \/ Handle(s)
  \/ \E c \in Client : \/ Accept(c) \/ Handler(c)
                       \/ \E frame \in Frames : RecvFrame(c, frame)
                       \/ Read(c) \/ Stall(c) \/ Unstall(c) \/ Cut(c)

PempSpec == PempInit /\ [][PempNext]_pempVars

\* The threads run, and a master that is not stalled reads.  Nothing makes a
\* stalled master read again, send a frame, connect or disconnect.
PempFairness ==
  /\ WF_pempVars(Server)
  /\ \A s \in Source : WF_pempVars(Handle(s))
  /\ \A c \in Client : WF_pempVars(Handler(c)) /\ WF_pempVars(Read(c))

PempFairSpec == PempSpec /\ PempFairness
-----------------------------------------------------------------------------
(* Properties *)

ServerTypes ==
  /\ pempPhase \in {"starting", "up", "stopping", "closed", "down"}
  /\ subscribed \in BOOLEAN /\ accepting \in BOOLEAN
  /\ accepts \in 0 .. CleanupPeriod - 1 /\ restarts \in 0 .. MaxRestart

EventTypes ==
  /\ published \in [Source -> 0 .. MaxSeq] /\ handling \in [Source -> 0 .. MaxSeq]
  /\ events \in Seq(Event) /\ batch \in [Client -> Seq(Event)]
  /\ flight \in [Client -> SUBSET Event]
  /\ taken \subseteq Event /\ delivered \subseteq Event /\ dropped \subseteq Event

ClientTypes ==
  /\ pc \in [Client -> {"free", "top", "recv", "upload", "pop", "sendDi", "sendAi", "sendSoe", "done"}]
  /\ active \in [Client -> BOOLEAN] /\ waitingAck \in [Client -> BOOLEAN]
  /\ ackAge \in [Client -> 0 .. AckTicks]
  /\ diAge \in [Client -> 0 .. DiInterval] /\ aiAge \in [Client -> 0 .. AiInterval]
  /\ link \in [Client -> {"up", "stalled", "cut"}] /\ unanswered \in [Client -> 0 .. 2]

PempTypeOK == ServerTypes /\ EventTypes /\ ClientTypes

\* Where an event is that is neither delivered nor dropped: in a handler, in
\* g_soeQueue, in the hands of do_upload_soe, or on its way.
InHandler == {e \in Event : handling[e.source] = e.seq}
Undelivered ==
  InHandler \cup Elements(events) \cup UNION {Elements(batch[c]) \cup flight[c] : c \in Client}

\* Fix H1: whatever the connections do, every SOE event is delivered at most
\* once, and lost only with a connection it was written to.
Promise == INSTANCE SoeDelivery WITH pending <- Undelivered, Ordered <- FALSE
Delivery == Promise!Spec

\* ... and, one connection at a time, in the order of its source.
OrderedPromise == INSTANCE SoeDelivery WITH pending <- Undelivered, Ordered <- TRUE
OrderedDelivery == OrderedPromise!Spec

\* One upload, one answer: the next frame waits for an ACK or a timeout.
OneAtATime == \A c \in Client : unanswered[c] <= 1

\* Fix PS-3: clientThreads_ does not grow without end.
ThreadsBounded == Cardinality({c \in Client : pc[c] # "free"}) <= MaxLive + CleanupPeriod - 1

Uploading(c) == c \in Live /\ active[c] /\ link[c] = "up" /\ pempRunning

\* SOE is uploaded as soon as there is some, to a master that reads.
SoeUploaded ==
  \A c \in Client, e \in Event :
    <>[]Uploading(c) => (e \in Elements(events) ~> e \in delivered \cup dropped)

\* Fix L6: stop() joins every thread and comes back.
PempStops == pempPhase = "stopping" ~> pempPhase = "down"
=============================================================================
