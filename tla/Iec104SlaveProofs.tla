------------------------- MODULE Iec104SlaveProofs -------------------------
(* Safety of Iec104Slave for every number of control centres, every modulus *)
(* of the sequence numbers and every bound: the numbers of the frames on a  *)
(* connection are in sequence, and a control centre knows the DI point.     *)
EXTENDS Iec104Slave, SequenceTheorems, TLAPS

-----------------------------------------------------------------------------
(* Types.                                                                   *)

Number == 0 .. SeqModulus - 1
Sent   == [to : Client, ns : Number]
Kind   == {"actcon", "di", "on", "off", "ai", "energy", "actterm", "reply", "S", "U"}

ConnTypes ==
  /\ running \in BOOLEAN
  /\ conn \in [Client -> {"none", "open", "gone", "closed"}] /\ clients \subseteq Client
  /\ at \in [Client -> {"none", "register", "recv", "answer", "erase", "ended"}]
  /\ todo \in [Client -> Seq(Kind)]

UploadTypes ==
  /\ uploader \in [Uploader -> {"idle", "changed", "upload"}]
  /\ left \in [Uploader -> SUBSET Client]
  /\ di \in {"on", "off"} /\ told \in [Client -> {"nothing", "on", "off"}]
  /\ disturbed \in [Client -> BOOLEAN]

WireTypes ==
  /\ sending \in [Thread -> Sent \cup {None}]
  /\ sNr \in [Client -> Number] /\ last \in [Client -> Number]

(* A handler sends to its own connection, and only what carries a number.   *)
OwnFrame ==
  \A c \in Client : ~Idle(c) =>
    /\ sending[c].to = c /\ at[c] = "answer" /\ todo[c] # <<>>
    /\ Head(todo[c]) \notin {"di", "S", "U"}

(* A connection that was never made has no handler.                         *)
NotYet == \A c \in Client : conn[c] = "none" => at[c] = "none"

TypeInv == ConnTypes /\ UploadTypes /\ WireTypes /\ NotYet /\ OwnFrame

(* The number after n.                                                      *)
After(n) == (n + 1) % SeqModulus

\* Sequence numbers stay below the modulus.
LEMMA AfterTyped == \A n \in Number : After(n) \in Number
BY SlaveAssumption DEF After, Number

(* A thread that is in no send is told apart from one that is.              *)
LEMMA NoneFacts ==
  /\ None \notin Sent /\ None.to \notin Client
  /\ \A c \in Client : c \in Thread
BY SlaveAssumption DEF None, Sent, Thread

\* What HandleFrame has still to send, after its first frame.
LEMMA TailTyped ==
  ASSUME NEW S, NEW s \in Seq(S), s # <<>>
  PROVE  /\ Head(s) \in S /\ Tail(s) \in Seq(S)
         /\ \A x : (\E i \in 1 .. Len(s) : s[i] = x)
                     <=> x = Head(s) \/ \E i \in 1 .. Len(Tail(s)) : Tail(s)[i] = x
<1>1. /\ Head(s) \in S /\ Tail(s) \in Seq(S) /\ Len(Tail(s)) = Len(s) - 1
      /\ \A i \in 1 .. Len(Tail(s)) : Tail(s)[i] = s[i + 1]
      /\ Len(s) \in Nat \ {0} /\ Head(s) = s[1]
  BY HeadTailProperties, EmptySeq
<1>2. ASSUME NEW x, NEW i \in 1 .. Len(s), s[i] = x
      PROVE  x = Head(s) \/ \E j \in 1 .. Len(Tail(s)) : Tail(s)[j] = x
  <2>1. CASE i = 1
    BY <1>1, <1>2, <2>1
  <2>2. CASE i # 1
    <3>1. i - 1 \in 1 .. Len(Tail(s)) /\ Tail(s)[i - 1] = x
      BY <1>1, <1>2, <2>2
    <3>. QED  BY <3>1
  <2>. QED  BY <2>1, <2>2
<1>3. ASSUME NEW x, NEW i \in 1 .. Len(Tail(s)), Tail(s)[i] = x
      PROVE  \E j \in 1 .. Len(s) : s[j] = x
  <2>1. i + 1 \in 1 .. Len(s) /\ s[i + 1] = x
    BY <1>1, <1>3
  <2>. QED  BY <2>1
<1>4. 1 \in 1 .. Len(s) /\ s[1] = Head(s)
  BY <1>1
<1>. QED  BY <1>1, <1>2, <1>3, <1>4

(* What HandleFrame answers.                                                *)
LEMMA AnswersTyped ==
  ASSUME NEW r \in Requests
  PROVE  /\ Answers(r) \in Seq(Kind)
         /\ r # "gi" => \A i \in 1 .. Len(Answers(r)) : Answers(r)[i] \in {"reply", "S", "U"}
         /\ r = "gi" => \E i \in 1 .. Len(Answers(r)) : Answers(r)[i] = "di"
         /\ \A i \in 1 .. Len(Answers(r)) : Answers(r)[i] \notin {"on", "off"}
<1>1. CASE r = "gi"
  <2>1. Answers(r) = <<"actcon", "di", "ai", "energy", "actterm", "S">>
    BY <1>1 DEF Answers
  <2>2. Answers(r) \in Seq(Kind) /\ Len(Answers(r)) = 6 /\ Answers(r)[2] = "di"
    BY <2>1 DEF Kind
  <2>3. \A i \in 1 .. 6 : Answers(r)[i] \notin {"on", "off"}
    BY <2>1
  <2>. QED  BY <1>1, <2>2, <2>3
<1>2. CASE r = "command"
  <2>1. Answers(r) = <<"reply", "S">>
    BY <1>2 DEF Answers, CommandReply
  <2>2. Answers(r) \in Seq(Kind) /\ Len(Answers(r)) = 2
    BY <2>1 DEF Kind
  <2>3. \A i \in 1 .. 2 : Answers(r)[i] \in {"reply", "S", "U"}
    BY <2>1
  <2>. QED  BY <1>2, <2>2, <2>3
<1>3. CASE r = "unknown"
  <2>1. Answers(r) = <<"S">>
    BY <1>3 DEF Answers
  <2>2. /\ Answers(r) \in Seq(Kind)
        /\ \A i \in 1 .. Len(Answers(r)) : Answers(r)[i] \in {"reply", "S", "U"}
    BY <2>1 DEF Kind
  <2>. QED  BY <1>3, <2>2
<1>4. CASE r = "startdt"
  <2>1. Answers(r) = <<"U">> \/ Answers(r) = <<>>
    BY <1>4 DEF Answers
  <2>2. /\ Answers(r) \in Seq(Kind)
        /\ \A i \in 1 .. Len(Answers(r)) : Answers(r)[i] \in {"reply", "S", "U"}
    <3>1. CASE Answers(r) = <<"U">>
      BY <3>1 DEF Kind
    <3>2. CASE Answers(r) = <<>>
      BY <3>2, EmptySeq
    <3>. QED  BY <2>1, <3>1, <3>2
  <2>. QED  BY <1>4, <2>2
<1>5. CASE r = "ack"
  <2>1. Answers(r) = <<>>
    BY <1>5 DEF Answers
  <2>2. /\ Answers(r) \in Seq(Kind)
        /\ \A i \in 1 .. Len(Answers(r)) : Answers(r)[i] \in {"reply", "S", "U"}
    BY <2>1, EmptySeq
  <2>. QED  BY <1>5, <2>2
<1>. QED  BY <1>1, <1>2, <1>3, <1>4, <1>5, SlaveAssumption

-----------------------------------------------------------------------------
(* The steps keep the types.                                                *)

\* Accept loop, client threads and Stop() keep their types.
LEMMA ConnStep ==
  ASSUME TypeInv, [Next]_vars
  PROVE  ConnTypes'
<1>t. ConnTypes
  BY DEF TypeInv
<1>r. \A c \in Client : (IF running THEN "recv" ELSE "erase") \in {"recv", "erase"}
  OBVIOUS
<1>1. ASSUME NEW c \in Client,
             \/ Register(c) \/ Answered(c) \/ Leave(c) \/ Erase(c) \/ Accept(c) \/ PeerCloses(c)
      PROVE  ConnTypes'
  <2>1. running' = running /\ todo' = todo
    BY <1>1 DEF Register, Answered, Leave, Erase, Accept, PeerCloses
  <2>2. conn' \in [Client -> {"none", "open", "gone", "closed"}] /\ clients' \subseteq Client
    BY <1>t, <1>1 DEF ConnTypes, Register, Answered, Leave, Erase, Accept, PeerCloses
  <2>3. at' \in [Client -> {"none", "register", "recv", "answer", "erase", "ended"}]
    BY <1>t, <1>1, <1>r DEF ConnTypes, Register, Answered, Leave, Erase, Accept, PeerCloses, Resume
  <2>. QED  BY <1>t, <2>1, <2>2, <2>3 DEF ConnTypes
<1>2. ASSUME NEW c \in Client, NEW r \in Requests, Receive(c, r)
      PROVE  ConnTypes'
  BY <1>t, <1>2, AnswersTyped DEF ConnTypes, Receive
<1>3. ASSUME NEW c \in Client, BuildGIResponseDI(c)
      PROVE  ConnTypes'
  <2>1. todo[c] \in Seq(Kind) /\ todo[c] # <<>> /\ di \in Kind
    BY <1>t, <1>3 DEF ConnTypes, BuildGIResponseDI, TypeInv, UploadTypes, Kind
  <2>2. Tail(todo[c]) \in Seq(Kind) /\ <<di>> \in Seq(Kind) /\ <<>> \in Seq(Kind)
    BY <2>1, TailTyped, EmptySeq
  <2>3. (IF TooLong(di) THEN <<>> ELSE <<di>>) \o Tail(todo[c]) \in Seq(Kind)
    BY <2>2, ConcatProperties
  <2>. QED  BY <1>t, <1>3, <2>3 DEF ConnTypes, BuildGIResponseDI
<1>4. ASSUME NEW c \in Client, AnswerUnnumbered(c) \/ AnswerWritten(c)
      PROVE  ConnTypes'
  <2>1. todo[c] \in Seq(Kind) /\ todo[c] # <<>>
    BY <1>t, <1>4 DEF ConnTypes, AnswerUnnumbered, Answering, AnswerWritten, TypeInv, OwnFrame
  <2>2. Tail(todo[c]) \in Seq(Kind)
    BY <2>1, TailTyped
  <2>. QED  BY <1>t, <1>4, <2>2 DEF ConnTypes, AnswerUnnumbered, AnswerWritten
<1>5. ASSUME NEW u \in Uploader, UploadFails(u)
      PROVE  ConnTypes'
  BY <1>t, <1>5 DEF ConnTypes, UploadFails
<1>6. ASSUME StopClients
      PROVE  ConnTypes'
  BY <1>t, <1>6 DEF ConnTypes, StopClients
<1>7. ASSUME UNCHANGED handlers, running' = running \/ running' = FALSE
      PROVE  ConnTypes'
  BY <1>t, <1>7 DEF ConnTypes, handlers
<1>8. ASSUME NEW c \in Client, AnswerBegins(c) \/ AnswerThrows(c)
      PROVE  ConnTypes'
  BY <1>7, <1>8 DEF AnswerBegins, AnswerThrows
<1>9. ASSUME NEW u \in Uploader,
             \/ SendDIActiveUpload \/ UploadWritten(u) \/ \E c \in Client : UploadBegins(u, c)
      PROVE  ConnTypes'
  BY <1>7, <1>9 DEF SendDIActiveUpload, UploadWritten, UploadBegins
<1>10. ASSUME StopAccept \/ StopJoin \/ SetDi \/ TimerThread \/ StopFlag \/ UNCHANGED vars
       PROVE  ConnTypes'
  BY <1>7, <1>10 DEF StopAccept, StopJoin, SetDi, TimerThread, StopFlag, vars
<1>. HIDE DEF ConnTypes
<1>. QED  BY <1>1, <1>2, <1>3, <1>4, <1>5, <1>6, <1>8, <1>9, <1>10
          DEF Next, Handle, Upload, StopStep, Environment

\* So do the uploads, the points and the counters.
LEMMA UploadStep ==
  ASSUME TypeInv, [Next]_vars
  PROVE  UploadTypes'
<1>t. UploadTypes /\ clients \subseteq Client
  BY DEF TypeInv, ConnTypes
<1>1. ASSUME NEW u \in Uploader, Snapshot(u), UNCHANGED <<di, told, disturbed>>
      PROVE  UploadTypes'
  BY <1>t, <1>1 DEF UploadTypes, Snapshot
<1>2. ASSUME NEW u \in Uploader, UploadWritten(u)
      PROVE  UploadTypes'
  <2>1. di' = di /\ left' \in [Uploader -> SUBSET Client]
        /\ uploader' \in [Uploader -> {"idle", "changed", "upload"}]
    BY <1>t, <1>2 DEF UploadTypes, UploadWritten, Served
  <2>2. disturbed' \in [Client -> BOOLEAN]
    <3>1. ASSUME NEW c \in Client
          PROVE  (disturbed[c] /\ (u = "timer" \/ Built(c))) \in BOOLEAN
      OBVIOUS
    <3>. QED  BY <1>t, <1>2, <3>1 DEF UploadTypes, UploadWritten
  <2>3. told' \in [Client -> {"nothing", "on", "off"}]
    BY <1>t, <1>2 DEF UploadTypes, UploadWritten, WriteFrame
  <2>. QED  BY <1>t, <2>1, <2>2, <2>3 DEF UploadTypes
<1>3. ASSUME NEW u \in Uploader, UploadFails(u)
      PROVE  UploadTypes'
  BY <1>t, <1>3 DEF UploadTypes, UploadFails, Served
<1>4. ASSUME NEW c \in Client, AnswerWritten(c)
      PROVE  UploadTypes'
  BY <1>t, <1>4 DEF UploadTypes, AnswerWritten, WriteFrame
<1>5. ASSUME NEW c \in Client, NEW r \in Requests, Receive(c, r)
      PROVE  UploadTypes'
  BY <1>t, <1>5 DEF UploadTypes, Receive, wire
<1>6. ASSUME SetDi
      PROVE  UploadTypes'
  <2>1. di' \in {"on", "off"} /\ left' = left /\ told' = told
        /\ uploader' \in [Uploader -> {"idle", "changed", "upload"}]
    BY <1>t, <1>6 DEF UploadTypes, SetDi, wire
  <2>2. disturbed' = [c \in Client |-> disturbed[c] \/ Built(c)]
    BY <1>6 DEF SetDi
  <2>3. \A c \in Client : (disturbed[c] \/ Built(c)) \in BOOLEAN
    OBVIOUS
  <2>. QED  BY <1>t, <2>1, <2>2, <2>3 DEF UploadTypes
<1>7. ASSUME UNCHANGED <<uploader, left, di, told, disturbed>>
      PROVE  UploadTypes'
  BY <1>t, <1>7 DEF UploadTypes
<1>8. ASSUME NEW c \in Client,
             \/ Register(c) \/ Answered(c) \/ Leave(c) \/ Erase(c) \/ Accept(c) \/ PeerCloses(c)
             \/ BuildGIResponseDI(c) \/ AnswerUnnumbered(c) \/ AnswerBegins(c) \/ AnswerThrows(c)
      PROVE  UploadTypes'
  BY <1>7, <1>8 DEF Register, Answered, Leave, Erase, Accept, PeerCloses, BuildGIResponseDI,
     AnswerUnnumbered, AnswerBegins, AnswerThrows, wire
<1>9. ASSUME NEW u \in Uploader, NEW c \in Client, UploadBegins(u, c)
      PROVE  UploadTypes'
  BY <1>7, <1>9 DEF UploadBegins
<1>10. ASSUME StopAccept \/ StopJoin \/ StopFlag \/ StopClients \/ UNCHANGED vars
       PROVE  UploadTypes'
  BY <1>7, <1>10 DEF StopAccept, StopJoin, StopFlag, StopClients, vars, wire
<1>11. ASSUME SendDIActiveUpload \/ TimerThread
       PROVE  UploadTypes'
  BY <1>1, <1>11 DEF SendDIActiveUpload, TimerThread, wire, Uploader
<1>. HIDE DEF UploadTypes
<1>. QED  BY <1>2, <1>3, <1>4, <1>5, <1>6, <1>8, <1>9, <1>10, <1>11
          DEF Next, Handle, Upload, StopStep, Environment

\* So does what is sent, and the numbers of the frames.
LEMMA WireStep ==
  ASSUME TypeInv, [Next]_vars
  PROVE  WireTypes'
<1>t. WireTypes /\ None \notin Sent
  BY NoneFacts DEF TypeInv
<1>1. ASSUME NEW t \in Thread, NEW c \in Client, TakeNumber(t, c), last' = last
      PROVE  WireTypes'
  <2>1. [to |-> c, ns |-> sNr[c]] \in Sent /\ After(sNr[c]) \in Number
    BY <1>t, AfterTyped DEF WireTypes, Sent
  <2>. QED  BY <1>t, <1>1, <2>1 DEF WireTypes, TakeNumber, After
<1>2. ASSUME NEW t \in Thread, NEW c \in Client, ~Idle(t), NEW v, WriteFrame(t, c, v), sNr' = sNr
      PROVE  WireTypes'
  <2>1. sending[t].ns \in Number
    BY <1>t, <1>2 DEF WireTypes, Idle, Sent
  <2>. QED  BY <1>t, <1>2, <2>1 DEF WireTypes, WriteFrame
<1>3. ASSUME NEW c \in Client, AnswerBegins(c) \/ AnswerWritten(c)
      PROVE  WireTypes'
  BY <1>1, <1>2, <1>3, NoneFacts DEF AnswerBegins, AnswerWritten
<1>4. ASSUME NEW u \in Uploader, NEW c \in Client, UploadBegins(u, c)
      PROVE  WireTypes'
  BY <1>1, <1>4 DEF UploadBegins, Thread
<1>5. ASSUME NEW u \in Uploader, UploadWritten(u)
      PROVE  WireTypes'
  <2>1. u \in Thread /\ sending[u].to \in Client
    BY <1>t, <1>5 DEF Thread, UploadWritten, Idle, WireTypes, Sent
  <2>. QED  BY <1>2, <1>5, <2>1 DEF UploadWritten
<1>6. ASSUME NEW u \in Uploader, UploadFails(u)
      PROVE  WireTypes'
  BY <1>t, <1>6 DEF WireTypes, UploadFails
<1>7. ASSUME UNCHANGED <<sending, sNr, last>>
      PROVE  WireTypes'
  BY <1>t, <1>7 DEF WireTypes
<1>8. ASSUME NEW c \in Client,
             \/ Register(c) \/ Answered(c) \/ Leave(c) \/ Erase(c) \/ Accept(c) \/ PeerCloses(c)
             \/ BuildGIResponseDI(c) \/ AnswerUnnumbered(c) \/ AnswerThrows(c)
             \/ \E r \in Requests : Receive(c, r)
      PROVE  WireTypes'
  BY <1>7, <1>8 DEF Register, Answered, Leave, Erase, Accept, PeerCloses, BuildGIResponseDI,
     AnswerUnnumbered, AnswerThrows, Receive, wire
<1>9. ASSUME \/ StopAccept \/ StopJoin \/ StopFlag \/ StopClients \/ SetDi \/ TimerThread
             \/ SendDIActiveUpload \/ UNCHANGED vars
      PROVE  WireTypes'
  BY <1>7, <1>9 DEF StopAccept, StopJoin, StopFlag, StopClients, SetDi, TimerThread,
     SendDIActiveUpload, vars, wire
<1>. HIDE DEF WireTypes
<1>. QED  BY <1>3, <1>4, <1>5, <1>6, <1>8, <1>9 DEF Next, Handle, Upload, StopStep, Environment

(* A handler inside SendIFrameLocked stays where it is until it has written.*)
LEMMA OwnFrameStep ==
  ASSUME TypeInv, [Next]_vars
  PROVE  NotYet' /\ OwnFrame'
<1>t. /\ sending \in [Thread -> Sent \cup {None}] /\ OwnFrame /\ NotYet
      /\ at \in [Client -> {"none", "register", "recv", "answer", "erase", "ended"}]
      /\ conn \in [Client -> {"none", "open", "gone", "closed"}] /\ todo \in [Client -> Seq(Kind)]
      /\ \A c \in Client : c \in Thread /\ c \notin Uploader
      /\ Uploader \subseteq Thread /\ None \notin Sent
  BY NoneFacts, SlaveAssumption DEF TypeInv, WireTypes, ConnTypes, Thread
<1>1. ASSUME NEW c \in Client, Idle(c), sending' = sending,
             \A d \in Client \ {c} : at'[d] = at[d] /\ todo'[d] = todo[d]
      PROVE  OwnFrame'
  BY <1>t, <1>1 DEF OwnFrame, Idle
<1>2. ASSUME NEW c \in Client,
             \/ Register(c) \/ Answered(c) \/ Leave(c) \/ Erase(c) \/ Accept(c)
             \/ BuildGIResponseDI(c) \/ AnswerUnnumbered(c) \/ \E r \in Requests : Receive(c, r)
      PROVE  NotYet' /\ OwnFrame'
  <2>1. Idle(c)
    BY <1>t, <1>2 DEF OwnFrame, NotYet, Register, Answered, Leave, Erase, Accept, Receive,
       BuildGIResponseDI, AnswerUnnumbered, Answering
  <2>2. sending' = sending /\ \A d \in Client \ {c} : at'[d] = at[d] /\ todo'[d] = todo[d]
    BY <1>t, <1>2 DEF Register, Answered, Leave, Erase, Accept, Receive, BuildGIResponseDI,
       AnswerUnnumbered, Resume, wire
  <2>3. NotYet'
    BY <1>t, <1>2 DEF NotYet, Register, Answered, Leave, Erase, Accept, Receive,
       BuildGIResponseDI, AnswerUnnumbered, Answering, Resume
  <2>. QED  BY <1>1, <2>1, <2>2, <2>3
<1>3. ASSUME NEW c \in Client, AnswerBegins(c)
      PROVE  NotYet' /\ OwnFrame'
  <2>1. /\ sending' = [sending EXCEPT ![c] = [to |-> c, ns |-> sNr[c]]]
        /\ conn' = conn /\ at' = at /\ todo' = todo /\ at[c] = "answer" /\ todo[c] # <<>>
        /\ Head(todo[c]) \notin {"di", "S", "U"}
    BY <1>3 DEF AnswerBegins, Answering, TakeNumber, handlers
  <2>. QED  BY <1>t, <2>1 DEF OwnFrame, NotYet, Idle
<1>4. ASSUME NEW c \in Client, AnswerWritten(c)
      PROVE  NotYet' /\ OwnFrame'
  <2>1. /\ sending' = [sending EXCEPT ![c] = None] /\ conn' = conn /\ at' = at
        /\ todo' = [todo EXCEPT ![c] = Tail(@)]
    BY <1>4 DEF AnswerWritten, WriteFrame
  <2>. QED  BY <1>t, <2>1 DEF OwnFrame, NotYet, Idle
<1>5. ASSUME NEW u \in Uploader, NEW f, sending' = [sending EXCEPT ![u] = f],
             at' = at, todo' = todo, \A c \in Client : conn'[c] = "none" => conn[c] = "none"
      PROVE  NotYet' /\ OwnFrame'
  <2>1. \A c \in Client : sending'[c] = sending[c]
    BY <1>t, <1>5
  <2>. QED  BY <1>t, <1>5, <2>1 DEF OwnFrame, NotYet, Idle
<1>6. ASSUME NEW u \in Uploader,
             UploadWritten(u) \/ UploadFails(u) \/ \E c \in Client : UploadBegins(u, c)
      PROVE  NotYet' /\ OwnFrame'
  <2>1. at' = at /\ todo' = todo /\ \E f : sending' = [sending EXCEPT ![u] = f]
    BY <1>6 DEF UploadWritten, UploadFails, UploadBegins, TakeNumber, WriteFrame, handlers
  <2>2. \A c \in Client : conn'[c] = "none" => conn[c] = "none"
    BY <1>t, <1>6 DEF UploadWritten, UploadFails, UploadBegins, handlers
  <2>. QED  BY <1>5, <2>1, <2>2
<1>7. ASSUME sending' = sending, at' = at, todo' = todo,
             \A c \in Client : conn'[c] = "none" => conn[c] = "none"
      PROVE  NotYet' /\ OwnFrame'
  BY <1>t, <1>7 DEF OwnFrame, NotYet, Idle
<1>8. ASSUME NEW c \in Client, PeerCloses(c) \/ AnswerThrows(c)
      PROVE  NotYet' /\ OwnFrame'
  <2>1. sending' = sending /\ at' = at /\ todo' = todo
        /\ \A d \in Client : conn'[d] = "none" => conn[d] = "none"
    BY <1>t, <1>8 DEF PeerCloses, AnswerThrows, handlers, wire
  <2>. QED  BY <1>7, <2>1
<1>9. ASSUME \/ StopAccept \/ StopJoin \/ StopFlag \/ StopClients \/ SetDi \/ TimerThread
             \/ SendDIActiveUpload \/ UNCHANGED vars
      PROVE  NotYet' /\ OwnFrame'
  <2>1. sending' = sending /\ at' = at /\ todo' = todo
        /\ \A d \in Client : conn'[d] = "none" => conn[d] = "none"
    BY <1>t, <1>9 DEF StopAccept, StopJoin, StopFlag, StopClients, SetDi, TimerThread,
       SendDIActiveUpload, vars, handlers, wire
  <2>. QED  BY <1>7, <2>1
<1>. QED  BY <1>2, <1>3, <1>4, <1>6, <1>8, <1>9 DEF Next, Handle, Upload, StopStep, Environment

(* The types hold at the start, and in every reachable state.               *)
THEOREM TypesInvariant == Spec => []TypeInv
<1>1. Init => TypeInv
  <2>. SUFFICES ASSUME Init  PROVE TypeInv
    OBVIOUS
  <2>1. 0 \in Number /\ SeqModulus - 1 \in Number
    BY SlaveAssumption DEF Number
  <2>2. WireTypes
    BY <2>1 DEF Init, WireTypes
  <2>3. ConnTypes /\ UploadTypes
    BY EmptySeq DEF Init, ConnTypes, UploadTypes
  <2>4. NotYet /\ OwnFrame
    BY NoneFacts DEF Init, NotYet, OwnFrame, Idle
  <2>. QED  BY <2>2, <2>3, <2>4 DEF TypeInv
<1>2. TypeInv /\ [Next]_vars => TypeInv'
  BY ConnStep, UploadStep, WireStep, OwnFrameStep DEF TypeInv
<1>. QED  BY <1>1, <1>2, PTL DEF Spec

-----------------------------------------------------------------------------
(* The numbers are in sequence.                                             *)

(* sendMtx: one thread at a time is in a send on a connection.              *)
Exclusive ==
  \A t, u \in Thread : ~Idle(t) /\ ~Idle(u) /\ sending[t].to = sending[u].to => t = u

(* sNr is the number after the last one written, or after the one that the  *)
(* thread in a send has taken; not so where a send failed, after which      *)
(* nothing can be sent.                                                     *)
Numbered(c) ==
  conn[c] # "closed" =>
    \/ /\ \A t \in Thread : sending[t].to # c
       /\ sNr[c] = After(last[c])
    \/ \E t \in Thread : /\ sending[t].to = c
                         /\ sending[t].ns = After(last[c]) /\ sNr[c] = After(sending[t].ns)

NumberInv == Exclusive /\ \A c \in Client : Numbered(c)

(* What a step that writes a frame does to the last number.                 *)
LEMMA WrittenNext ==
  ASSUME TypeInv, NumberInv, NEW t \in Thread, ~Idle(t), Sendable(sending[t].to)
  PROVE  sending[t].to \in Client /\ sending[t].ns = After(last[sending[t].to])
         /\ sNr[sending[t].to] = After(sending[t].ns)
<1>1. sending[t] \in Sent
  BY DEF TypeInv, WireTypes, Idle
<1>. DEFINE c == sending[t].to
<1>2. c \in Client /\ conn[c] # "closed"
  BY <1>1 DEF Sent, Sendable
<1>3. PICK u \in Thread : /\ sending[u].to = c
                          /\ sending[u].ns = After(last[c]) /\ sNr[c] = After(sending[u].ns)
  BY <1>2 DEF NumberInv, Numbered
<1>4. ~Idle(u)
  BY <1>2, <1>3, NoneFacts DEF Idle
<1>5. u = t
  BY <1>3, <1>4 DEF NumberInv, Exclusive
<1>. QED  BY <1>2, <1>3, <1>5

(* The taking of a number, under sendMtx.                                   *)
LEMMA TakeStep ==
  ASSUME TypeInv, NumberInv, NEW t \in Thread, NEW c \in Client, TakeNumber(t, c),
         last' = last, conn' = conn
  PROVE  NumberInv'
<1>t. sending \in [Thread -> Sent \cup {None}] /\ sNr \in [Client -> Number]
  BY DEF TypeInv, WireTypes
<1>. DEFINE f == [to |-> c, ns |-> sNr[c]]
<1>1. /\ sending' = [sending EXCEPT ![t] = f] /\ sNr' = [sNr EXCEPT ![c] = After(sNr[c])]
      /\ sending[t] = None /\ \A u \in Thread : sending[u].to # c
  BY DEF TakeNumber, Idle, SendMtxFree, After
<1>2. f \in Sent /\ f.to = c /\ f.ns = sNr[c] /\ f # None
  BY <1>t, NoneFacts DEF Sent
<1>. HIDE DEF f
<1>3. Exclusive'
  BY <1>t, <1>1, <1>2 DEF NumberInv, Exclusive, Idle
<1>4. ASSUME NEW d \in Client \ {c}
      PROVE  Numbered(d)'
  <2>1. sNr'[d] = sNr[d] /\ sending[t].to # d /\ sending'[t].to # d
    BY <1>t, <1>1, <1>2, NoneFacts
  <2>2. \A u \in Thread \ {t} : sending'[u] = sending[u]
    BY <1>t, <1>1
  <2>. QED  BY <2>1, <2>2 DEF NumberInv, Numbered
<1>5. Numbered(c)'
  <2>1. sending'[t] = f /\ sNr'[c] = After(sNr[c])
    BY <1>t, <1>1
  <2>2. conn[c] # "closed" => sNr[c] = After(last[c])
    BY <1>1 DEF NumberInv, Numbered
  <2>. QED  BY <1>2, <2>1, <2>2 DEF Numbered
<1>. QED  BY <1>3, <1>4, <1>5 DEF NumberInv

(* The end of a send: the frame is written, or the connection is closed.    *)
LEMMA ReleaseStep ==
  ASSUME TypeInv, NumberInv, NEW t \in Thread, ~Idle(t), sending' = [sending EXCEPT ![t] = None],
         sNr' = sNr, NEW c \in Client, sending[t].to = c,
         \A d \in Client \ {c} : last'[d] = last[d] /\ conn'[d] = conn[d],
         conn'[c] = "closed" \/ (conn'[c] = conn[c] /\ last'[c] = sending[t].ns)
  PROVE  NumberInv'
<1>t. sending \in [Thread -> Sent \cup {None}]
  BY DEF TypeInv, WireTypes
<1>1. sending'[t] = None /\ \A u \in Thread \ {t} : sending'[u] = sending[u]
  BY <1>t
<1>2. Exclusive'
  BY <1>1 DEF NumberInv, Exclusive, Idle
<1>3. ASSUME NEW d \in Client \ {c}
      PROVE  Numbered(d)'
  <2>1. sending[t].to # d /\ sending'[t].to # d
    BY <1>1, NoneFacts
  <2>. QED  BY <1>1, <2>1 DEF NumberInv, Numbered
<1>4. ASSUME conn'[c] # "closed"
      PROVE  Numbered(c)'
  <2>1. conn[c] # "closed" /\ last'[c] = sending[t].ns
    BY <1>4
  <2>2. PICK u \in Thread : /\ sending[u].to = c
                            /\ sending[u].ns = After(last[c]) /\ sNr[c] = After(sending[u].ns)
    BY <2>1 DEF NumberInv, Numbered
  <2>3. ~Idle(u)
    BY <2>2, NoneFacts DEF Idle
  <2>4. u = t
    BY <2>2, <2>3 DEF NumberInv, Exclusive
  <2>5. \A w \in Thread : sending[w].to = c => w = t
    BY NoneFacts DEF NumberInv, Exclusive, Idle
  <2>6. \A w \in Thread : sending'[w].to # c
    BY <1>1, <2>5, NoneFacts
  <2>. QED  BY <2>1, <2>2, <2>4, <2>6 DEF Numbered
<1>. QED  BY <1>2, <1>3, <1>4 DEF NumberInv, Numbered

(* A step outside of every send; a connection may only be closed.           *)
LEMMA OutsideStep ==
  ASSUME NumberInv, UNCHANGED <<sending, sNr, last>>,
         \A c \in Client : conn'[c] # "closed" => conn[c] # "closed"
  PROVE  NumberInv'
<1>1. Exclusive'
  BY DEF NumberInv, Exclusive, Idle
<1>. QED  BY <1>1 DEF NumberInv, Numbered

\* Every step keeps the numbers of a connection without a gap.
LEMMA NumberStep ==
  ASSUME TypeInv, NumberInv, [Next]_vars
  PROVE  NumberInv'
<1>t. conn \in [Client -> {"none", "open", "gone", "closed"}] /\ last \in [Client -> Number]
      /\ \A c \in Client : c \in Thread
  BY NoneFacts DEF TypeInv, ConnTypes, WireTypes
<1>1. ASSUME NEW c \in Client, AnswerBegins(c)
      PROVE  NumberInv'
  BY <1>t, <1>1, TakeStep DEF AnswerBegins, handlers
<1>2. ASSUME NEW u \in Uploader, NEW c \in Client, UploadBegins(u, c)
      PROVE  NumberInv'
  BY <1>2, TakeStep DEF UploadBegins, handlers, Thread
<1>3. ASSUME NEW c \in Client, AnswerWritten(c)
      PROVE  NumberInv'
  <2>1. sending[c].to = c /\ ~Idle(c)
    BY <1>3 DEF AnswerWritten, TypeInv, OwnFrame
  <2>2. /\ sending' = [sending EXCEPT ![c] = None] /\ sNr' = sNr /\ conn' = conn
        /\ last' = [last EXCEPT ![c] = sending[c].ns]
    BY <1>3 DEF AnswerWritten, WriteFrame
  <2>. QED  BY <1>t, <2>1, <2>2, ReleaseStep
<1>4. ASSUME NEW u \in Uploader, UploadWritten(u) \/ UploadFails(u)
      PROVE  NumberInv'
  <2>. DEFINE c == sending[u].to
  <2>1. u \in Thread /\ ~Idle(u) /\ c \in Client
    BY <1>4 DEF UploadWritten, UploadFails, Thread, TypeInv, WireTypes, Idle, Sent
  <2>2. sending' = [sending EXCEPT ![u] = None] /\ sNr' = sNr
    BY <1>4 DEF UploadWritten, UploadFails, WriteFrame
  <2>3. \/ conn' = conn /\ last' = [last EXCEPT ![c] = sending[u].ns]
        \/ conn' = [conn EXCEPT ![c] = "closed"] /\ last' = last
    BY <1>4 DEF UploadWritten, UploadFails, WriteFrame, handlers
  <2>. QED  BY <1>t, <2>1, <2>2, <2>3, ReleaseStep
<1>5. ASSUME NEW c \in Client,
             \/ Register(c) \/ Answered(c) \/ Leave(c) \/ Erase(c) \/ Accept(c) \/ PeerCloses(c)
             \/ BuildGIResponseDI(c) \/ AnswerUnnumbered(c) \/ AnswerThrows(c)
             \/ \E r \in Requests : Receive(c, r)
      PROVE  NumberInv'
  <2>1. UNCHANGED <<sending, sNr, last>>
        /\ \A d \in Client : conn'[d] # "closed" => conn[d] # "closed"
    BY <1>t, <1>5 DEF Register, Answered, Leave, Erase, Accept, PeerCloses, BuildGIResponseDI,
       AnswerUnnumbered, AnswerThrows, Receive, wire, handlers
  <2>. QED  BY <2>1, OutsideStep
<1>6. ASSUME \/ StopAccept \/ StopJoin \/ StopFlag \/ StopClients \/ SetDi \/ TimerThread
             \/ SendDIActiveUpload \/ UNCHANGED vars
      PROVE  NumberInv'
  <2>1. UNCHANGED <<sending, sNr, last>>
        /\ \A d \in Client : conn'[d] # "closed" => conn[d] # "closed"
    BY <1>t, <1>6 DEF StopAccept, StopJoin, StopFlag, StopClients, SetDi, TimerThread,
       SendDIActiveUpload, vars, wire, handlers
  <2>. QED  BY <2>1, OutsideStep
<1>. QED  BY <1>1, <1>2, <1>3, <1>4, <1>5, <1>6 DEF Next, Handle, Upload, StopStep, Environment

(* N(S) of the I frames on a connection has no gap and no repetition: a     *)
(* number is taken and its frame written under sendMtx of the connection,   *)
(* and after a send that failed nothing is sent on it.                      *)
THEOREM InSequenceCorrect == Spec => InSequence
<1>1. Init => NumberInv
  <2>. SUFFICES ASSUME Init  PROVE NumberInv
    OBVIOUS
  <2>1. Exclusive
    BY DEF Init, Exclusive, Idle
  <2>2. ASSUME NEW c \in Client
        PROVE  Numbered(c)
    <3>1. \A t \in Thread : sending[t].to # c
      BY NoneFacts DEF Init
    <3>2. sNr[c] = 0 /\ last[c] = SeqModulus - 1
      BY DEF Init
    <3>3. (SeqModulus - 1 + 1) % SeqModulus = 0
      BY SlaveAssumption
    <3>. QED  BY <3>1, <3>2, <3>3 DEF Numbered, After
  <2>. QED  BY <2>1, <2>2 DEF NumberInv
<1>2. TypeInv /\ NumberInv /\ [Next]_vars => NumberInv'
  BY NumberStep
<1>3. TypeInv /\ NumberInv /\ [Next]_vars
        => \A c \in Client : last'[c] # last[c] => last'[c] = (last[c] + 1) % SeqModulus
  <2>. SUFFICES ASSUME TypeInv, NumberInv, [Next]_vars, NEW c \in Client, last'[c] # last[c]
                PROVE  last'[c] = After(last[c])
    BY DEF After
  <2>t. last \in [Client -> Number]
    BY DEF TypeInv, WireTypes
  <2>1. ASSUME NEW d \in Client, AnswerWritten(d)
        PROVE  last'[c] = After(last[c])
    <3>1. ~Idle(d) /\ Sendable(d) /\ sending[d].to = d /\ d \in Thread
      BY <2>1, NoneFacts DEF AnswerWritten, TypeInv, OwnFrame
    <3>2. sending[d].ns = After(last[d])
      BY <3>1, WrittenNext
    <3>. QED  BY <2>t, <2>1, <3>2 DEF AnswerWritten, WriteFrame
  <2>2. ASSUME NEW u \in Uploader, UploadWritten(u)
        PROVE  last'[c] = After(last[c])
    <3>1. ~Idle(u) /\ Sendable(sending[u].to) /\ u \in Thread
      BY <2>2 DEF UploadWritten, Thread
    <3>2. sending[u].ns = After(last[sending[u].to])
      BY <3>1, WrittenNext
    <3>. QED  BY <2>t, <2>2, <3>2 DEF UploadWritten, WriteFrame
  <2>3. ASSUME last' = last
        PROVE  FALSE
    BY <2>3
  <2>4. \/ \E d \in Client : AnswerWritten(d)
        \/ \E u \in Uploader : UploadWritten(u)
        \/ last' = last
    BY DEF Next, Handle, Upload, StopStep, Environment, Register, Answered, Leave, Erase, Accept,
       PeerCloses, BuildGIResponseDI, AnswerUnnumbered, AnswerBegins, AnswerThrows, Receive,
       StopAccept, StopJoin, StopFlag, StopClients, SetDi, TimerThread, SendDIActiveUpload,
       UploadBegins, UploadFails, vars, wire
  <2>. QED  BY <2>1, <2>2, <2>3, <2>4
<1>. QED  BY <1>1, <1>2, <1>3, TypesInvariant, PTL DEF Spec, InSequence

-----------------------------------------------------------------------------
(* What a control centre knows of the DI point.                             *)

(* Before its handler has registered it, a connection is known to no upload. *)
Unknown(c) ==
  at[c] \in {"none", "register"} =>
    /\ c \notin clients /\ told[c] = "nothing"
    /\ \A u \in Uploader : c \notin left[u] /\ sending[u].to # c

(* The handler has frames to send only while it answers.                    *)
NothingToDo(c) == at[c] # "answer" => todo[c] = <<>>

(* A frame that was built, and that no change followed, has the value.      *)
BuiltTrue(c) ==
  ~disturbed[c] => \A v \in {"on", "off"} : Holds(c, v) => v = di

(* The collector's thread will tell a control centre that knows another value. *)
Underway(c) ==
  (/\ running /\ c \in clients /\ conn[c] = "open" /\ ~disturbed[c] /\ ~InGi(c)
   /\ told[c] \notin {"nothing", di})
  => \/ uploader["collector"] = "changed"
     \/ uploader["collector"] = "upload" /\ c \in left["collector"]

(* The frame of the DI points precedes the end of the GI.                   *)
ToldBeforeEnd(c) == Holds(c, "actterm") /\ ~InGi(c) => told[c] # "nothing"

Knowing(c) == /\ Unknown(c) /\ NothingToDo(c) /\ BuiltTrue(c) /\ Underway(c)
              /\ ToldBeforeEnd(c)

(* An uploading thread sends to connections of its snapshot.                *)
Serving ==
  \A u \in Uploader : /\ ~Idle(u) => sending[u].to \in left[u]
                      /\ left[u] # {} => uploader[u] = "upload"

KnowInv == Serving /\ \A c \in Client : Knowing(c)

(* What a connection keeps when a step is not about it.                     *)
LEMMA NotAboutStep ==
  ASSUME NEW c \in Client, Knowing(c),
         at'[c] = at[c], todo'[c] = todo[c], told'[c] = told[c], disturbed'[c] = disturbed[c],
         di' = di, running' => running, c \in clients' => c \in clients,
         conn'[c] = "open" => conn[c] = "open",
         \A u \in Uploader : sending'[u].to = c => sending[u].to = c \/ c \in left[u],
         \A u \in Uploader : c \in left'[u] => c \in left[u] \/ c \in clients,
         uploader["collector"] = "changed" =>
           uploader'["collector"] = "changed"
             \/ (c \in clients => uploader'["collector"] = "upload" /\ c \in left'["collector"]),
         uploader["collector"] = "upload" /\ c \in left["collector"] =>
           uploader'["collector"] = "upload" /\ c \in left'["collector"]
  PROVE  Knowing(c)'
<1>1. \A f : Holds(c, f)' = Holds(c, f)
  BY DEF Holds
<1>2. Unknown(c)'
  BY DEF Knowing, Unknown
<1>3. NothingToDo(c)'
  BY DEF Knowing, NothingToDo
<1>4. BuiltTrue(c)'
  BY <1>1 DEF Knowing, BuiltTrue
<1>5. InGi(c)' = InGi(c)
  BY <1>1 DEF InGi, Built
<1>6. Underway(c)'
  BY <1>5 DEF Knowing, Underway
<1>7. ToldBeforeEnd(c)'
  BY <1>1, <1>5 DEF Knowing, ToldBeforeEnd
<1>. QED  BY <1>2, <1>3, <1>4, <1>6, <1>7 DEF Knowing

(* The handler has sent a frame of its answer, or one is done.              *)
LEMMA SentStep ==
  ASSUME TypeInv, NEW c \in Client, Knowing(c), at[c] = "answer", at'[c] = "answer",
         todo[c] # <<>>, Head(todo[c]) # "di", todo'[c] = Tail(todo[c]),
         told'[c] = IF Head(todo[c]) \in {"on", "off"} THEN Head(todo[c]) ELSE told[c],
         UNCHANGED <<disturbed, di, running, clients, conn, left, uploader>>
  PROVE  Knowing(c)'
<1>t. todo[c] \in Seq(Kind)
  BY DEF TypeInv, ConnTypes
<1>1. \A f : Holds(c, f) <=> f = Head(todo[c]) \/ Holds(c, f)'
  BY <1>t, TailTyped DEF Holds
<1>2. Unknown(c)' /\ NothingToDo(c)'
  BY DEF Unknown, NothingToDo
<1>3. BuiltTrue(c)'
  BY <1>1 DEF Knowing, BuiltTrue
<1>4. CASE Head(todo[c]) \in {"on", "off"}
  <2>1. told'[c] = Head(todo[c]) /\ told'[c] # "nothing" /\ (~disturbed[c] => told'[c] = di)
    BY <1>1, <1>4 DEF Knowing, BuiltTrue
  <2>2. Underway(c)' /\ ToldBeforeEnd(c)'
    BY <2>1 DEF Underway, ToldBeforeEnd
  <2>. QED  BY <1>2, <1>3, <2>2 DEF Knowing
<1>5. CASE Head(todo[c]) \notin {"on", "off"}
  <2>1. told'[c] = told[c] /\ InGi(c)' = InGi(c)
    BY <1>1, <1>5 DEF InGi, Built
  <2>2. Underway(c)'
    BY <2>1 DEF Knowing, Underway
  <2>3. ToldBeforeEnd(c)'
    BY <1>1, <2>1 DEF Knowing, ToldBeforeEnd
  <2>. QED  BY <1>2, <1>3, <2>2, <2>3 DEF Knowing
<1>. QED  BY <1>4, <1>5

(* A handler or its peer makes a step.                                      *)
LEMMA HandleKnowStep ==
  ASSUME TypeInv, KnowInv, \A v \in {"on", "off"} : ~TooLong(v), NEW c \in Client,
         \/ Register(c) \/ Answered(c) \/ Leave(c) \/ Erase(c) \/ Accept(c) \/ PeerCloses(c)
         \/ BuildGIResponseDI(c) \/ AnswerUnnumbered(c) \/ AnswerBegins(c) \/ AnswerWritten(c)
         \/ AnswerThrows(c) \/ \E r \in Requests : Receive(c, r)
  PROVE  KnowInv'
<1>t. /\ conn \in [Client -> {"none", "open", "gone", "closed"}] /\ NotYet /\ OwnFrame
      /\ at \in [Client -> {"none", "register", "recv", "answer", "erase", "ended"}]
      /\ todo \in [Client -> Seq(Kind)] /\ told \in [Client -> {"nothing", "on", "off"}]
      /\ disturbed \in [Client -> BOOLEAN] /\ sending \in [Thread -> Sent \cup {None}]
      /\ di \in {"on", "off"} /\ \A u \in Uploader : u \in Thread /\ u \notin Client
  BY SlaveAssumption DEF TypeInv, ConnTypes, UploadTypes, WireTypes, Thread
<1>d. UNCHANGED <<running, uploader, left, di>>
  BY DEF Register, Answered, Leave, Erase, Accept, PeerCloses, BuildGIResponseDI,
     AnswerUnnumbered, AnswerBegins, AnswerWritten, AnswerThrows, Receive, wire
<1>s. \A u \in Uploader : sending'[u] = sending[u]
  <2>1. sending' = sending \/ \E f : sending' = [sending EXCEPT ![c] = f]
    BY DEF Register, Answered, Leave, Erase, Accept, PeerCloses, BuildGIResponseDI,
       AnswerUnnumbered, AnswerBegins, AnswerWritten, AnswerThrows, Receive, wire, TakeNumber,
       WriteFrame
  <2>. QED  BY <1>t, <2>1
<1>o. ASSUME NEW d \in Client \ {c}
      PROVE  Knowing(d)'
  <2>1. at'[d] = at[d] /\ todo'[d] = todo[d] /\ conn'[d] = conn[d]
    BY <1>t DEF Register, Answered, Leave, Erase, Accept, PeerCloses, BuildGIResponseDI,
       AnswerUnnumbered, AnswerBegins, AnswerWritten, AnswerThrows, Receive, Resume, handlers
  <2>2. told'[d] = told[d] /\ disturbed'[d] = disturbed[d]
    BY <1>t DEF Register, Answered, Leave, Erase, Accept, PeerCloses, BuildGIResponseDI,
       AnswerUnnumbered, AnswerBegins, AnswerWritten, AnswerThrows, Receive, WriteFrame, wire
  <2>3. d \in clients' <=> d \in clients
    BY DEF Register, Answered, Leave, Erase, Accept, PeerCloses, BuildGIResponseDI,
       AnswerUnnumbered, AnswerBegins, AnswerWritten, AnswerThrows, Receive, handlers
  <2>. QED  BY <1>d, <1>s, <2>1, <2>2, <2>3, NotAboutStep DEF KnowInv
<1>k. Knowing(c)
  BY DEF KnowInv
<1>v. Serving'
  BY <1>d, <1>s DEF KnowInv, Serving, Idle
<1>. SUFFICES Knowing(c)'
  BY <1>o, <1>v DEF KnowInv
<1>1. CASE Accept(c) \/ Register(c)
  <2>1. at[c] \in {"none", "register"} /\ at'[c] # "answer" /\ clients' \subseteq clients \cup {c}
        /\ todo'[c] = todo[c] /\ told' = told /\ disturbed' = disturbed
    BY <1>t, <1>1 DEF Accept, Register, NotYet, Resume, wire
  <2>2. \A f : Holds(c, f)' = Holds(c, f)
    BY <2>1 DEF Holds
  <2>3. told'[c] = "nothing" /\ todo[c] = <<>>
    BY <1>k, <2>1 DEF Knowing, Unknown, NothingToDo
  <2>4. ~Holds(c, "actterm")
    BY <2>3 DEF Holds
  <2>5. Unknown(c)'
    BY <1>t, <1>1, <1>k, <1>d, <1>s, <2>1 DEF Knowing, Unknown, Accept, Register, Resume
  <2>6. NothingToDo(c)' /\ BuiltTrue(c)'
    BY <1>k, <1>d, <2>1, <2>2, <2>3 DEF Knowing, NothingToDo, BuiltTrue
  <2>7. Underway(c)' /\ ToldBeforeEnd(c)'
    BY <2>2, <2>3, <2>4 DEF Underway, ToldBeforeEnd
  <2>. QED  BY <2>5, <2>6, <2>7 DEF Knowing
<1>2. CASE Answered(c) \/ Leave(c) \/ Erase(c) \/ PeerCloses(c) \/ AnswerThrows(c) \/ AnswerBegins(c)
  <2>1. todo'[c] = todo[c] /\ told' = told /\ disturbed' = disturbed
        /\ clients' \subseteq clients /\ (conn'[c] = "open" => conn[c] = "open")
    BY <1>t, <1>2 DEF Answered, Leave, Erase, PeerCloses, AnswerThrows, AnswerBegins, wire, handlers
  <2>2. (at'[c] = at[c]) \/ (at[c] \notin {"none", "register"}
          /\ at'[c] \notin {"none", "register", "answer"} /\ todo[c] = <<>>)
    BY <1>t, <1>2, <1>k DEF Answered, Leave, Erase, PeerCloses, AnswerThrows, AnswerBegins, handlers,
       Resume, Knowing, NothingToDo
  <2>3. \A f : Holds(c, f)' = Holds(c, f)
    BY <2>1 DEF Holds
  <2>4. Unknown(c)' /\ NothingToDo(c)'
    BY <1>k, <1>d, <1>s, <2>1, <2>2 DEF Knowing, Unknown, NothingToDo
  <2>5. BuiltTrue(c)' /\ InGi(c)' = InGi(c)
    BY <1>k, <1>d, <2>1, <2>3 DEF Knowing, BuiltTrue, InGi, Built
  <2>6. Underway(c)' /\ ToldBeforeEnd(c)'
    BY <1>k, <1>d, <2>1, <2>3, <2>5 DEF Knowing, Underway, ToldBeforeEnd
  <2>. QED  BY <2>4, <2>5, <2>6 DEF Knowing
<1>3. CASE AnswerUnnumbered(c) \/ AnswerWritten(c)
  <2>1. at[c] = "answer" /\ todo[c] # <<>> /\ Head(todo[c]) # "di"
    BY <1>t, <1>3 DEF AnswerUnnumbered, AnswerWritten, Answering, OwnFrame
  <2>2. UNCHANGED <<at, clients, conn, disturbed>> /\ todo'[c] = Tail(todo[c])
    BY <1>t, <1>3 DEF AnswerUnnumbered, AnswerWritten
  <2>3. told'[c] = IF Head(todo[c]) \in {"on", "off"} THEN Head(todo[c]) ELSE told[c]
    BY <1>t, <1>3 DEF AnswerUnnumbered, AnswerWritten, WriteFrame, wire
  <2>. QED  BY <1>k, <1>d, <2>1, <2>2, <2>3, SentStep
<1>4. CASE BuildGIResponseDI(c)
  <2>1. at[c] = "answer" /\ todo[c] # <<>> /\ Head(todo[c]) = "di"
        /\ UNCHANGED <<conn, clients, at, disturbed, told>>
    BY <1>4 DEF BuildGIResponseDI, wire
  <2>2. todo'[c] = <<di>> \o Tail(todo[c])
    BY <1>t, <1>4 DEF BuildGIResponseDI
  <2>3. Tail(todo[c]) \in Seq(Kind) /\ di \in Kind /\ todo[c] \in Seq(Kind)
    BY <1>t, <2>1, TailTyped DEF Kind
  <2>9. \A x : Holds(c, x) <=> x = "di" \/ \E i \in 1 .. Len(Tail(todo[c])) : Tail(todo[c])[i] = x
    <3>. DEFINE q == todo[c]
    <3>1. /\ q \in Seq(Kind) /\ q # <<>> /\ Head(q) = "di"
          /\ \A x : Holds(c, x) <=> \E i \in 1 .. Len(q) : q[i] = x
      BY <2>1, <2>3 DEF Holds
    <3>. HIDE DEF q
    <3>2. \A x : Holds(c, x) <=> x = Head(q) \/ \E i \in 1 .. Len(Tail(q)) : Tail(q)[i] = x
      BY <3>1, TailTyped
    <3>. QED  BY <3>1, <3>2 DEF q
  <2>4. todo'[c] \in Seq(Kind) /\ todo'[c] # <<>> /\ Head(todo'[c]) = di
        /\ Tail(todo'[c]) = Tail(todo[c])
    BY <2>2, <2>3
  <2>5. \A x : Holds(c, x)' <=> x = di \/ \E i \in 1 .. Len(Tail(todo[c])) : Tail(todo[c])[i] = x
    <3>. DEFINE q == todo'[c]
    <3>1. /\ q \in Seq(Kind) /\ q # <<>>
          /\ \A x : Holds(c, x)' <=> \E i \in 1 .. Len(q) : q[i] = x
      BY <2>4 DEF Holds
    <3>. HIDE DEF q
    <3>2. \A x : Holds(c, x)' <=> x = Head(q) \/ \E i \in 1 .. Len(Tail(q)) : Tail(q)[i] = x
      BY <3>1, TailTyped
    <3>. QED  BY <2>4, <3>2 DEF q
  <2>6. InGi(c)'
    BY <1>t, <2>5 DEF InGi, Built
  <2>7. BuiltTrue(c)'
    BY <1>k, <1>d, <2>1, <2>9, <2>5 DEF Knowing, BuiltTrue
  <2>8. Unknown(c)' /\ NothingToDo(c)' /\ Underway(c)' /\ ToldBeforeEnd(c)'
    BY <2>1, <2>6 DEF Unknown, NothingToDo, Underway, ToldBeforeEnd
  <2>. QED  BY <2>7, <2>8 DEF Knowing
<1>5. ASSUME NEW r \in Requests, Receive(c, r)
      PROVE  Knowing(c)'
  <2>1. at[c] = "recv" /\ at'[c] = "answer" /\ todo'[c] = Answers(r) /\ todo[c] = <<>>
        /\ UNCHANGED <<conn, clients, told>>
    BY <1>t, <1>5, <1>k DEF Receive, wire, Knowing, NothingToDo
  <2>2. disturbed'[c] = (disturbed[c] /\ r # "gi")
    BY <1>t, <1>5 DEF Receive
  <2>3. Unknown(c)' /\ NothingToDo(c)'
    BY <2>1 DEF Unknown, NothingToDo
  <2>4. BuiltTrue(c)'
    BY <2>1, AnswersTyped DEF BuiltTrue, Holds
  <2>5. CASE r = "gi"
    <3>1. InGi(c)'
      BY <2>1, <2>5, AnswersTyped DEF InGi, Holds
    <3>. QED  BY <2>3, <2>4, <3>1 DEF Knowing, Underway, ToldBeforeEnd
  <2>6. CASE r # "gi"
    <3>1. \A i \in 1 .. Len(todo'[c]) : todo'[c][i] \notin {"di", "on", "off", "actterm"}
      BY <2>1, <2>6, AnswersTyped
    <3>2. ~InGi(c)' /\ ~Holds(c, "actterm")' /\ ~InGi(c)
      BY <2>1, <3>1 DEF InGi, Built, Holds
    <3>3. disturbed'[c] = disturbed[c]
      BY <1>t, <2>2, <2>6
    <3>4. Underway(c)' /\ ToldBeforeEnd(c)'
      BY <1>k, <1>d, <2>1, <3>2, <3>3 DEF Knowing, Underway, ToldBeforeEnd
    <3>. QED  BY <2>3, <2>4, <3>4 DEF Knowing
  <2>. QED  BY <2>5, <2>6
<1>. HIDE DEF Knowing
<1>. QED  BY <1>1, <1>2, <1>3, <1>4, <1>5

(* Uploads, changes of the point, and Stop().                               *)
LEMMA UploadKnowStep ==
  ASSUME TypeInv, KnowInv, NEW u \in Uploader,
         \/ u = "collector" /\ SendDIActiveUpload
         \/ u = "timer" /\ TimerThread
         \/ \E c \in Client : UploadBegins(u, c)
         \/ UploadWritten(u) \/ UploadFails(u)
  PROVE  KnowInv'
<1>t. /\ conn \in [Client -> {"none", "open", "gone", "closed"}] /\ clients \subseteq Client
      /\ told \in [Client -> {"nothing", "on", "off"}] /\ di \in {"on", "off"}
      /\ disturbed \in [Client -> BOOLEAN] /\ sending \in [Thread -> Sent \cup {None}]
      /\ uploader \in [Uploader -> {"idle", "changed", "upload"}]
      /\ left \in [Uploader -> SUBSET Client]
      /\ \A v \in Uploader : v \in Thread
  BY DEF TypeInv, ConnTypes, UploadTypes, WireTypes, Thread
<1>d. UNCHANGED <<running, clients, at, todo, di>>
  BY DEF SendDIActiveUpload, TimerThread, UploadBegins, UploadWritten, UploadFails, handlers
<1>k. Serving /\ \A c \in Client : Knowing(c)
  BY DEF KnowInv
<1>n. None.to \notin Client
  BY NoneFacts
<1>1. ASSUME NEW c \in Client, SendDIActiveUpload \/ TimerThread
      PROVE  Knowing(c)'
  <2>1. UNCHANGED <<conn, told, disturbed, sending>>
    BY <1>1 DEF SendDIActiveUpload, TimerThread, wire, handlers
  <2>2. CASE SendDIActiveUpload
    <3>1. uploader["collector"] = "changed" /\ left'["collector"] = clients
          /\ uploader'["collector"] = (IF clients = {} THEN "idle" ELSE "upload")
          /\ left'["timer"] = left["timer"]
      BY <1>t, <2>2 DEF SendDIActiveUpload, Snapshot, Uploader
    <3>. QED  BY <1>d, <1>k, <2>1, <3>1, NotAboutStep DEF Uploader
  <2>3. CASE TimerThread
    <3>1. left'["timer"] = clients /\ uploader'["collector"] = uploader["collector"]
          /\ left'["collector"] = left["collector"]
      BY <1>t, <2>3 DEF TimerThread, Snapshot, Uploader
    <3>. QED  BY <1>d, <1>k, <2>1, <3>1, NotAboutStep DEF Uploader
  <2>. QED  BY <1>1, <2>2, <2>3
<1>2. ASSUME NEW c \in Client, NEW d \in Client, UploadBegins(u, d)
      PROVE  Knowing(c)'
  <2>1. UNCHANGED <<conn, told, disturbed, uploader, left>> /\ d \in left[u]
        /\ sending' = [sending EXCEPT ![u] = [to |-> d, ns |-> sNr[d]]]
    BY <1>2 DEF UploadBegins, handlers, TakeNumber
  <2>2. \A v \in Uploader : sending'[v].to = c => sending[v].to = c \/ c \in left[v]
    BY <1>t, <2>1
  <2>. QED  BY <1>d, <1>k, <2>1, <2>2, NotAboutStep
<1>3. ASSUME NEW c \in Client, NEW d \in Client, sending[u].to = d, c # d,
             UploadWritten(u) \/ UploadFails(u)
      PROVE  Knowing(c)'
  <2>1. told'[c] = told[c] /\ disturbed'[c] = disturbed[c] /\ conn'[c] = conn[c]
    BY <1>t, <1>3 DEF UploadWritten, UploadFails, WriteFrame, handlers
  <2>2. /\ sending' = [sending EXCEPT ![u] = None] /\ left' = [left EXCEPT ![u] = @ \ {d}]
        /\ uploader' = [uploader EXCEPT ![u] = IF left[u] = {d} THEN "idle" ELSE @]
    BY <1>3 DEF UploadWritten, UploadFails, WriteFrame, Served
  <2>3. \A v \in Uploader : /\ sending'[v].to = c => sending[v].to = c
                            /\ c \in left'[v] <=> c \in left[v]
                            /\ c \in left[v] => uploader'[v] = uploader[v]
    BY <1>t, <1>3, <1>n, <2>2
  <2>4. uploader[u] = "upload"
    BY <1>3, <1>k DEF Serving, UploadWritten, UploadFails
  <2>5. uploader["collector"] = "changed" => uploader'["collector"] = "changed"
    BY <1>t, <2>2, <2>4 DEF Uploader
  <2>. QED  BY <1>d, <1>k, <2>1, <2>3, <2>5, NotAboutStep DEF Uploader
<1>4. ASSUME NEW c \in Client, sending[u].to = c, UploadFails(u)
      PROVE  Knowing(c)'
  <2>1. conn'[c] = "closed" /\ UNCHANGED <<told, disturbed>>
        /\ sending' = [sending EXCEPT ![u] = None] /\ left' = [left EXCEPT ![u] = @ \ {c}]
    BY <1>t, <1>4 DEF UploadFails, Served
  <2>2. \A v \in Uploader : /\ sending'[v].to = c => sending[v].to = c
                            /\ c \in left'[v] => c \in left[v]
    BY <1>t, <1>n, <2>1
  <2>3. \A f : Holds(c, f)' = Holds(c, f)
    BY <1>d DEF Holds
  <2>4. Unknown(c)' /\ NothingToDo(c)'
    BY <1>d, <1>k, <2>1, <2>2 DEF Knowing, Unknown, NothingToDo
  <2>5. BuiltTrue(c)' /\ Underway(c)' /\ ToldBeforeEnd(c)'
    BY <1>d, <1>k, <2>1, <2>3 DEF Knowing, BuiltTrue, Underway, ToldBeforeEnd, InGi, Built
  <2>. QED  BY <2>4, <2>5 DEF Knowing
<1>5. ASSUME NEW c \in Client, sending[u].to = c, UploadWritten(u)
      PROVE  Knowing(c)'
  <2>1. /\ left' = [left EXCEPT ![u] = @ \ {c}] /\ sending' = [sending EXCEPT ![u] = None]
        /\ uploader' = [uploader EXCEPT ![u] = IF left[u] = {c} THEN "idle" ELSE @] /\ conn' = conn
    BY <1>t, <1>5 DEF UploadWritten, WriteFrame, Served, handlers
  <2>2. \A v \in Uploader : /\ sending'[v].to = c => sending[v].to = c
                            /\ c \in left'[v] => c \in left[v]
    BY <1>t, <1>n, <2>1
  <2>3. \A f : Holds(c, f)' = Holds(c, f)
    BY <1>d DEF Holds
  <2>4. c \in left[u] /\ uploader[u] = "upload" /\ at[c] \notin {"none", "register"}
    <3>1. ~Idle(u)
      BY <1>5 DEF UploadWritten
    <3>. QED  BY <1>5, <1>k, <3>1 DEF Serving, Knowing, Unknown
  <2>5. Unknown(c)' /\ NothingToDo(c)'
    BY <1>d, <1>k, <2>4 DEF Knowing, Unknown, NothingToDo
  <2>6. CASE u = "collector"
    <3>1. told'[c] = di
      BY <1>t, <1>5, <2>6 DEF UploadWritten, WriteFrame
    <3>2. disturbed'[c] = (disturbed[c] /\ Built(c))
      BY <1>t, <1>5, <2>6 DEF UploadWritten
    <3>3. BuiltTrue(c)'
      BY <1>d, <1>k, <2>3, <3>2 DEF Knowing, BuiltTrue, Built
    <3>4. Underway(c)' /\ ToldBeforeEnd(c)'
      BY <1>t, <1>d, <3>1 DEF Underway, ToldBeforeEnd
    <3>. QED  BY <2>5, <3>3, <3>4 DEF Knowing
  <2>7. CASE u = "timer"
    <3>1. told' = told
      BY <1>5, <2>7 DEF UploadWritten, WriteFrame
    <3>2. disturbed'[c] = disturbed[c]
      BY <1>t, <1>5, <2>7 DEF UploadWritten
    <3>3. uploader'["collector"] = uploader["collector"] /\ left'["collector"] = left["collector"]
      BY <1>t, <2>1, <2>7 DEF Uploader
    <3>4. BuiltTrue(c)' /\ Underway(c)' /\ ToldBeforeEnd(c)'
      BY <1>d, <1>k, <2>1, <2>3, <3>1, <3>2, <3>3
         DEF Knowing, BuiltTrue, Underway, ToldBeforeEnd, InGi, Built
    <3>. QED  BY <2>5, <3>4 DEF Knowing
  <2>. QED  BY <2>6, <2>7 DEF Uploader
<1>6. Serving'
  <2>1. ASSUME NEW c \in Client, UploadBegins(u, c)
        PROVE  Serving'
    BY <1>t, <1>k, <2>1 DEF Serving, UploadBegins, TakeNumber, Idle
  <2>2. CASE UploadWritten(u) \/ UploadFails(u)
    <3>. DEFINE c == sending[u].to
    <3>1. /\ left' = [left EXCEPT ![u] = @ \ {c}] /\ sending' = [sending EXCEPT ![u] = None]
          /\ uploader' = [uploader EXCEPT ![u] = IF left[u] = {c} THEN "idle" ELSE @]
      BY <2>2 DEF UploadWritten, UploadFails, WriteFrame, Served
    <3>2. c \in left[u] /\ uploader[u] = "upload"
      BY <1>k, <2>2 DEF Serving, UploadWritten, UploadFails
    <3>. HIDE DEF c
    <3>3. sending'[u] = None /\ left'[u] = left[u] \ {c}
          /\ uploader'[u] = (IF left[u] = {c} THEN "idle" ELSE "upload")
      BY <1>t, <3>1, <3>2
    <3>4. \A v \in Uploader \ {u} :
            sending'[v] = sending[v] /\ left'[v] = left[v] /\ uploader'[v] = uploader[v]
      BY <1>t, <3>1
    <3>. QED  BY <1>k, <3>2, <3>3, <3>4 DEF Serving, Idle
  <2>3. CASE (u = "collector" /\ SendDIActiveUpload) \/ (u = "timer" /\ TimerThread)
    <3>1. uploader[u] # "upload" /\ sending' = sending /\ Snapshot(u)
      BY <2>3 DEF SendDIActiveUpload, TimerThread, wire
    <3>2. left'[u] = clients /\ uploader'[u] = (IF clients = {} THEN "idle" ELSE "upload")
      BY <1>t, <3>1 DEF Snapshot
    <3>3. \A v \in Uploader \ {u} : left'[v] = left[v] /\ uploader'[v] = uploader[v]
      BY <1>t, <3>1 DEF Snapshot
    <3>4. Idle(u)
      BY <1>k, <3>1 DEF Serving
    <3>. QED  BY <1>k, <3>1, <3>2, <3>3, <3>4 DEF Serving, Idle
  <2>. QED  BY <2>1, <2>2, <2>3
<1>7. ASSUME NEW c \in Client
      PROVE  Knowing(c)'
  <2>1. CASE UploadWritten(u) \/ UploadFails(u)
    <3>1. sending[u].to \in Client
      BY <1>t, <2>1 DEF UploadWritten, UploadFails, Idle, Sent
    <3>. QED  BY <2>1, <3>1, <1>3, <1>4, <1>5
  <2>. QED  BY <1>1, <1>2, <2>1
<1>. QED  BY <1>6, <1>7 DEF KnowInv

\* Every step keeps what a control centre knows of the point.
LEMMA KnowStep ==
  ASSUME TypeInv, KnowInv, \A v \in {"on", "off"} : ~TooLong(v), [Next]_vars
  PROVE  KnowInv'
<1>t. /\ conn \in [Client -> {"none", "open", "gone", "closed"}] /\ di \in {"on", "off"}
      /\ disturbed \in [Client -> BOOLEAN] /\ running \in BOOLEAN
      /\ uploader \in [Uploader -> {"idle", "changed", "upload"}]
  BY DEF TypeInv, ConnTypes, UploadTypes
<1>k. Serving /\ \A c \in Client : Knowing(c)
  BY DEF KnowInv
<1>1. ASSUME NEW c \in Client, Handle(c) \/ Accept(c) \/ PeerCloses(c)
                                 \/ \E r \in Requests : Receive(c, r)
      PROVE  KnowInv'
  BY <1>1, HandleKnowStep DEF Handle
<1>2. ASSUME (\E u \in Uploader : Upload(u)) \/ TimerThread
      PROVE  KnowInv'
  BY <1>2, UploadKnowStep DEF Upload, Uploader
<1>3. CASE SetDi
  <2>1. UNCHANGED <<running, clients, at, todo, conn, told, left, sending>>
        /\ uploader["collector"] = "idle" /\ di' \in {"on", "off"} /\ di' # di
    BY <1>t, <1>3 DEF SetDi, handlers, wire
  <2>2. \A v \in Uploader : uploader'[v] = uploader[v] \/ (v = "collector" /\ uploader'[v] = "changed")
    BY <1>t, <1>3 DEF SetDi
  <2>3. running => uploader'["collector"] = "changed"
    BY <1>t, <1>3 DEF SetDi, Uploader
  <2>4. Serving'
    BY <1>k, <2>1, <2>2 DEF Serving, Idle
  <2>5. ASSUME NEW c \in Client
        PROVE  Knowing(c)'
    <3>1. disturbed'[c] = (disturbed[c] \/ Built(c))
      BY <1>3 DEF SetDi
    <3>2. \A f : Holds(c, f)' = Holds(c, f)
      BY <2>1 DEF Holds
    <3>3. Unknown(c)' /\ NothingToDo(c)' /\ ToldBeforeEnd(c)'
      BY <1>k, <2>1, <3>2 DEF Knowing, Unknown, NothingToDo, ToldBeforeEnd, InGi, Built
    <3>4. BuiltTrue(c)'
      BY <3>1, <3>2 DEF BuiltTrue, Built
    <3>5. Underway(c)'
      BY <2>1, <2>3 DEF Underway
    <3>. QED  BY <3>3, <3>4, <3>5 DEF Knowing
  <2>. QED  BY <2>4, <2>5 DEF KnowInv
<1>4. CASE StopFlag \/ StopAccept \/ StopClients \/ StopJoin \/ UNCHANGED vars
  <2>1. UNCHANGED <<at, todo, told, disturbed, di, left, sending, uploader>>
        /\ (running' => running) /\ clients' \subseteq clients
        /\ \A c \in Client : conn'[c] = "open" => conn[c] = "open"
    BY <1>t, <1>4 DEF StopFlag, StopAccept, StopClients, StopJoin, vars, handlers, wire
  <2>2. Serving'
    BY <1>k, <2>1 DEF Serving, Idle
  <2>3. ASSUME NEW c \in Client
        PROVE  Knowing(c)'
    BY <1>k, <2>1, NotAboutStep
  <2>. QED  BY <2>2, <2>3 DEF KnowInv
<1>. HIDE DEF KnowInv
<1>. QED  BY <1>1, <1>2, <1>3, <1>4 DEF Next, StopStep, Environment

(* A control centre that has been told the DI point, or whose GI is         *)
(* complete, was told the value that the point has: the change that the GI  *)
(* misses is uploaded by the collector's thread, to every connection that   *)
(* was registered before.  Two hypotheses, both the code's: the frame of    *)
(* the GI can be sent at all, and (in disturbed) no change came between the *)
(* building of that frame and its sending.                                  *)
THEOREM TellsTruthCorrect ==
  ASSUME \A frame \in {"on", "off"} : ~TooLong(frame)
  PROVE  Spec => []TellsTruth
<1>1. Init => KnowInv
  <2>. SUFFICES ASSUME Init  PROVE KnowInv
    OBVIOUS
  <2>1. Serving
    BY DEF Init, Serving, Idle, Thread
  <2>2. ASSUME NEW c \in Client
        PROVE  Knowing(c)
    <3>1. at[c] = "none" /\ todo[c] = <<>> /\ told[c] = "nothing" /\ clients = {}
          /\ \A u \in Uploader : left[u] = {} /\ sending[u] = None
      BY DEF Init, Thread
    <3>2. \A f : ~Holds(c, f)
      BY <3>1 DEF Holds
    <3>3. None.to # c
      BY NoneFacts
    <3>. QED  BY <3>1, <3>2, <3>3 DEF Knowing, Unknown, NothingToDo, BuiltTrue, Underway,
              ToldBeforeEnd
  <2>. QED  BY <2>1, <2>2 DEF KnowInv
<1>2. TypeInv /\ KnowInv /\ [Next]_vars => KnowInv'
  BY KnowStep
<1>3. TypeInv /\ KnowInv => TellsTruth
  <2>. SUFFICES ASSUME TypeInv, KnowInv, NEW c \in Client,
                  uploader["collector"] = "idle", running, c \in clients, conn[c] = "open",
                  ~InGi(c), ~disturbed[c],
                  told[c] # "nothing" \/ (todo[c] # <<>> /\ Head(todo[c]) = "actterm")
                PROVE  told[c] = di
    BY DEF TellsTruth
  <2>1. told[c] # "nothing"
    <3>1. CASE todo[c] # <<>> /\ Head(todo[c]) = "actterm"
      <4>. DEFINE q == todo[c]
      <4>1. q \in Seq(Kind) /\ q # <<>> /\ Head(q) = "actterm"
            /\ \A x : Holds(c, x) <=> \E i \in 1 .. Len(q) : q[i] = x
        BY <3>1 DEF TypeInv, ConnTypes, Holds
      <4>. HIDE DEF q
      <4>2. Holds(c, "actterm")
        BY <4>1, TailTyped
      <4>. QED  BY <4>2 DEF KnowInv, Knowing, ToldBeforeEnd
    <3>. QED  BY <3>1
  <2>. QED  BY <2>1 DEF KnowInv, Knowing, Underway
<1>. QED  BY <1>1, <1>2, <1>3, TypesInvariant, PTL DEF Spec
=============================================================================
