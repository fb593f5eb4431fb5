----------------------------- MODULE RemoteData -----------------------------
(***************************************************************************)
(* The shared point table (RemoteDataMgr, src/src/pmpc_data_mgr.cxx), its  *)
(* queue of DO pulses and the event bus (src/include/event_bus.h) it tells *)
(* the changes to.  Threads: the writers (collectors, masters' commands,   *)
(* the console) and main, whose loop calls CheckAllPointChange.            *)
(* pc[t] is where thread t stands in a Set call: "publish" the change is   *)
(* written and the lock released, "deliver" in the loop over the copied    *)
(* handlers, "stamp" and "enqueue" before the two halves of the pulse; in  *)
(* main "pop" and "reset" are the halves of CheckPulseQueue.               *)
(* A reading of NowMs() is kept as its age, how long ago it was read.      *)
(***************************************************************************)
EXTENDS Integers, SequencesExt

CONSTANTS
  Writer,     \* the threads that write points
  DoPoint,    \* DO points; their value is masterVal
  OtherPoint, \* DI, AI and AO points
  Silent,     \* those that raise no event, DI point 1 of a device
  Owner,      \* the writers of each point
  Commands,   \* what writers write to DO points
  Heard,      \* the points of one type of event; the bus keeps a list for each type
  Subscriber, \* handlers of that type
  FirstHandlers, \* those that are subscribed at first, each once, in their order
  Leaver,     \* those that may unsubscribe
  DoPulseMs,  \* doPulseMs_
  MaxLag,     \* ticks of the clock between a reading of NowMs() and its use
  MaxBack,    \* bound: times the system clock is set back by a tick
  MaxPulses,  \* bound: pulses under way
  Reloads,    \* results of LoadConfig at run time
  MaxReloads  \* bound: times it is called

Point  == DoPoint \cup OtherPoint
Main   == "main"
Stayer == Subscriber \ Leaver
Thread == Writer \cup {Main}

ASSUME PointAssumption ==
  /\ Main \notin Writer /\ Point # {}
  /\ Silent \subseteq OtherPoint /\ Heard \subseteq Point /\ DoPoint \cap OtherPoint = {}
  /\ Owner \in [Point -> SUBSET Writer]
  /\ Commands \subseteq BOOLEAN
  /\ FirstHandlers \in Seq(Subscriber) /\ Leaver \subseteq Subscriber
  /\ \A s \in Stayer : \E i \in 1 .. Len(FirstHandlers) : FirstHandlers[i] = s
  /\ Reloads \subseteq {"loaded", "rolledBack"}

ASSUME PulseAssumption ==
  /\ DoPulseMs \in Nat \ {0}
  /\ MaxLag \in Nat /\ MaxBack \in Nat /\ MaxPulses \in Nat /\ MaxReloads \in Nat

VARIABLES
  value,    \* the points
  handlers, \* of that type of event, in the order of their subscription
  seen,     \* what each subscriber that stays was last told of each point
  pc,
  job,      \* the point and the value of a thread's last write
  todo,     \* handlers it has still to call
  stamp,    \* age of its reading of NowMs()
  pulses,   \* pulseQueue_
  expired,  \* entries main has taken and still to reset
  onAge,    \* history: time since each DO point went from 0 to 1
  backs,
  reloads

bus    == <<handlers, seen>>
calls  == <<pc, job, todo>>
timing == <<stamp, pulses, onAge, backs>>
vars   == <<value, bus, calls, timing, expired, reloads>>

Least(a, b) == IF a <= b THEN a ELSE b

AgeCap == DoPulseMs + MaxLag + MaxBack   \* older is as good as this old

Goto(t, l) == pc' = [pc EXCEPT ![t] = l]
Home(t) == IF t = Main THEN "reset" ELSE "idle"

\* The locals of a call end with it.
NoJob == [point |-> CHOOSE p \in Point : TRUE, val |-> FALSE]
Return(t) == Goto(t, Home(t)) /\ job' = [job EXCEPT ![t] = NoJob]

-----------------------------------------------------------------------------
(* SetDi, SetAi, SetAo, SetDoMaster *)

\* The write, under devMtx, and whether it is a change worth an event.
Write(t, p, v) ==
  LET changed == value[p] # v IN
  /\ value' = [value EXCEPT ![p] = v]
  /\ onAge' = IF p \in DoPoint /\ v /\ changed THEN [onAge EXCEPT ![p] = 0] ELSE onAge
  /\ IF changed /\ p \notin Silent
     THEN Goto(t, "publish") /\ job' = [job EXCEPT ![t] = [point |-> p, val |-> v]]
     ELSE Return(t)

\* Mutant: every point that goes to 1 is pulsed.
StartsPulseAny(t) == job[t].val

\* A change of a DO point from 0 to 1 begins a pulse.
StartsPulse(t) == job[t].point \in DoPoint /\ job[t].val

\* Pulses that threads begin, that are queued and that main ends.
UnderWay ==
  Cardinality({t \in Thread : pc[t] # "idle" /\ StartsPulse(t)}) + Len(pulses) + Len(expired)

Set(t, p, v) ==
  /\ pc[t] = "idle" /\ t \in Owner[p]
  /\ p \in DoPoint => v \in Commands /\ (v => UnderWay < MaxPulses)
  /\ Write(t, p, v)
  /\ UNCHANGED <<bus, todo, stamp, pulses, backs, expired, reloads>>

\* EventBus::Publish copies the handlers of the event's type ...
Publish(t) ==
  /\ pc[t] = "publish"
  /\ todo' = [todo EXCEPT ![t] = IF job[t].point \in Heard THEN handlers ELSE <<>>]
  /\ Goto(t, "deliver")
  /\ UNCHANGED <<value, bus, job, timing, expired, reloads>>

\* ... and calls them one by one, without a lock.
Deliver(t) ==
  /\ pc[t] = "deliver" /\ todo[t] # <<>>
  /\ seen' = [s \in Stayer |-> IF s = Head(todo[t])
                              THEN [seen[s] EXCEPT ![job[t].point] = job[t].val] ELSE seen[s]]
  /\ todo' = [todo EXCEPT ![t] = Tail(@)]
  /\ UNCHANGED <<value, handlers, pc, job, timing, expired, reloads>>

EndPublish(t) ==
  /\ pc[t] = "deliver" /\ todo[t] = <<>>
  /\ IF StartsPulse(t) THEN Goto(t, "stamp") /\ UNCHANGED job ELSE Return(t)
  /\ UNCHANGED <<value, bus, todo, timing, expired, reloads>>

\* The time is read before the lock of the queue is taken.
Stamp(t) ==
  /\ pc[t] = "stamp"
  /\ stamp' = [stamp EXCEPT ![t] = 0]
  /\ Goto(t, "enqueue")
  /\ UNCHANGED <<value, bus, job, todo, pulses, onAge, backs, expired, reloads>>

\* Mutant: the lock of the queue is only tried.
EnqueueTry(t) ==
  /\ pc[t] = "enqueue"
  /\ pulses' = IF pc[Main] = "pop" THEN pulses
               ELSE Append(pulses, [point |-> job[t].point, age |-> stamp[t]])
  /\ stamp' = [stamp EXCEPT ![t] = 0]
  /\ Return(t)
  /\ UNCHANGED <<value, bus, todo, onAge, backs, expired, reloads>>

Enqueue(t) ==
  /\ pc[t] = "enqueue"
  /\ pulses' = Append(pulses, [point |-> job[t].point, age |-> stamp[t]])
  /\ stamp' = [stamp EXCEPT ![t] = 0]
  /\ Return(t)
  /\ UNCHANGED <<value, bus, todo, onAge, backs, expired, reloads>>

-----------------------------------------------------------------------------
(* CheckAllPointChange and CheckPulseQueue, by main *)

\* The comparison of values with lastVal only prints; then the time is read.
CheckPulseQueue ==
  /\ pc[Main] = "idle"
  /\ stamp' = [stamp EXCEPT ![Main] = 0]
  /\ Goto(Main, "pop")
  /\ UNCHANGED <<value, bus, job, todo, pulses, onAge, backs, expired, reloads>>

\* Mutant: the pulse ends one tick early.
IsDueEarly(e) == e.age - stamp[Main] >= DoPulseMs - 1

\* now - enqueueMs >= doPulseMs_ in uint64_t: a difference below zero is huge.
IsDue(e) == LET elapsed == e.age - stamp[Main] IN elapsed < 0 \/ elapsed >= DoPulseMs

\* The first n entries, those before the first one that is not due.
Due(n) ==
  /\ \A i \in 1 .. n : IsDue(pulses[i])
  /\ n < Len(pulses) => ~IsDue(pulses[n + 1])

\* History: the entry was stamped, then main read the clock, and no setting
\* back of the clock or late stamp has turned the two readings round.
InTime(e) == 0 <= stamp[Main] /\ stamp[Main] <= e.age

Pop ==
  /\ pc[Main] = "pop"
  /\ \E n \in 0 .. Len(pulses) :
       /\ Due(n)
       /\ expired' = [i \in 1 .. n |-> [point |-> pulses[i].point, inTime |-> InTime(pulses[i])]]
       /\ pulses' = SubSeq(pulses, n + 1, Len(pulses))
  /\ stamp' = [stamp EXCEPT ![Main] = 0]
  /\ Goto(Main, "reset")
  /\ UNCHANGED <<value, bus, job, todo, onAge, backs, reloads>>

Reset ==
  /\ pc[Main] = "reset" /\ expired # <<>>
  /\ expired' = Tail(expired)
  /\ Write(Main, Head(expired).point, FALSE)
  /\ UNCHANGED <<bus, todo, stamp, pulses, backs, reloads>>

EndCheck ==
  /\ pc[Main] = "reset" /\ expired = <<>>
  /\ Goto(Main, "idle")
  /\ UNCHANGED <<value, bus, job, todo, timing, expired, reloads>>

-----------------------------------------------------------------------------
(* The event bus, a reload of the point table, time *)

\* Mutant: Publish walks the list itself, by position.
UnsubscribeShifts(s) ==
  /\ s \in Leaver /\ \E i \in 1 .. Len(handlers) : handlers[i] = s
  /\ handlers' = SelectSeq(handlers, LAMBDA h : h # s)
  /\ todo' = [t \in Thread |->
                IF \E i \in 1 .. Len(todo[t]) : todo[t][i] = s
                THEN SelectSeq(todo[t], LAMBDA h : h # s)
                ELSE IF todo[t] # <<>> THEN Tail(todo[t]) ELSE <<>>]
  /\ UNCHANGED <<value, seen, pc, job, timing, expired, reloads>>

\* Threads that have copied the list go on with their copy.
Unsubscribe(s) ==
  /\ s \in Leaver
  /\ \E i \in 1 .. Len(handlers) : handlers[i] = s /\ handlers' = RemoveAt(handlers, i)
  /\ UNCHANGED <<value, seen, calls, timing, expired, reloads>>

Subscribe(s) ==
  /\ s \in Leaver /\ \A i \in 1 .. Len(handlers) : handlers[i] # s
  /\ handlers' = Append(handlers, s)
  /\ UNCHANGED <<value, seen, calls, timing, expired, reloads>>

\* LoadConfig: the pulses go, and the points are made anew, without an event,
\* unless the file has no channel and the old ones are put back.
LoadConfig(result) ==
  /\ result \in Reloads /\ reloads < MaxReloads
  /\ reloads' = reloads + 1
  /\ pulses' = <<>>
  /\ value' = IF result = "loaded" THEN [p \in Point |-> FALSE] ELSE value
  /\ UNCHANGED <<bus, calls, stamp, onAge, backs, expired>>

HoldsReading(t) == pc[t] \in {"enqueue", "pop"}

Tick ==
  /\ \A t \in Thread : HoldsReading(t) => stamp[t] < MaxLag
  /\ stamp' = [t \in Thread |-> IF HoldsReading(t) THEN stamp[t] + 1 ELSE stamp[t]]
  /\ pulses' = [i \in 1 .. Len(pulses) |-> [pulses[i] EXCEPT !.age = Least(@ + 1, AgeCap)]]
  /\ onAge' = [p \in DoPoint |-> Least(onAge[p] + 1, DoPulseMs)]
  /\ UNCHANGED <<value, bus, calls, backs, expired, reloads>>

\* NowMs() is the system clock, which may be set.
SetClockBack ==
  /\ backs < MaxBack
  /\ backs' = backs + 1
  /\ stamp' = [t \in Thread |-> IF HoldsReading(t) THEN stamp[t] - 1 ELSE stamp[t]]
  /\ pulses' = [i \in 1 .. Len(pulses) |-> [pulses[i] EXCEPT !.age = @ - 1]]
  /\ UNCHANGED <<value, bus, calls, onAge, expired, reloads>>

-----------------------------------------------------------------------------
Init ==
  /\ value = [p \in Point |-> FALSE]
  /\ handlers = FirstHandlers
  /\ seen = [s \in Stayer |-> [p \in Point |-> FALSE]]
  /\ pc = [t \in Thread |-> "idle"]
  /\ job = [t \in Thread |-> NoJob]
  /\ todo = [t \in Thread |-> <<>>] /\ stamp = [t \in Thread |-> 0]
  /\ pulses = <<>> /\ expired = <<>>
  /\ onAge = [p \in DoPoint |-> DoPulseMs] /\ backs = 0 /\ reloads = 0

Call(t) == Publish(t) \/ Deliver(t) \/ EndPublish(t) \/ Stamp(t) \/ Enqueue(t)

MainLoop == CheckPulseQueue \/ Pop \/ Reset \/ EndCheck

Next ==
  \/ \E t \in Thread : Call(t)
  \/ \E t \in Writer, p \in Point, v \in BOOLEAN : Set(t, p, v)
  \/ MainLoop \/ Tick \/ SetClockBack
  \/ \E s \in Subscriber : Unsubscribe(s) \/ Subscribe(s)
  \/ \E result \in Reloads : LoadConfig(result)

Spec == Init /\ [][Next]_vars

\* The threads run on and time passes; nobody need write, subscribe or reload.
FairSpec ==
  /\ Spec
  /\ \A t \in Thread : WF_vars(Call(t))
  /\ WF_vars(MainLoop) /\ SF_vars(Tick)
-----------------------------------------------------------------------------
(* Properties *)

Age == -MaxBack .. AgeCap

TypeOK ==
  /\ value \in [Point -> BOOLEAN]
  /\ handlers \in Seq(Subscriber) /\ seen \in [Stayer -> [Point -> BOOLEAN]]
  /\ pc \in [Thread -> {"idle", "publish", "deliver", "stamp", "enqueue", "pop", "reset"}]
  /\ job \in [Thread -> [point : Point, val : BOOLEAN]]
  /\ todo \in [Thread -> Seq(Subscriber)] /\ stamp \in [Thread -> Age]
  /\ pulses \in Seq([point : DoPoint, age : Age]) 
  /\ expired \in Seq([point : DoPoint, inTime : BOOLEAN])
  /\ onAge \in [DoPoint -> 0 .. DoPulseMs] /\ backs \in 0 .. MaxBack
  /\ reloads \in 0 .. MaxReloads

\* Thread t has changed p and is still telling the subscribers.
Telling(t, p) == pc[t] \in {"publish", "deliver"} /\ job[t].point = p

\* Once no change of p is being told, each subscriber that stays knows p.
Known(p) ==
  (\A t \in Thread : ~Telling(t, p))
    => \A s \in Stayer : seen[s][p] = value[p]

\* Points with a single writer: not reset by main, and kept by a reload.
Alone ==
  {p \in (OtherPoint \cap Heard) \ Silent : (\A t, u \in Owner[p] : t = u) /\ "loaded" \notin Reloads}

\* Publish outside devMtx and the C3 gates: no change is lost to a subscriber
\* and none is told late, whoever unsubscribes meanwhile.
AloneKnown == \A p \in Alone : Known(p)

\* Thread t has set p to 1 and not yet queued its pulse.
Carrying(t, p) ==
  pc[t] \in {"publish", "deliver", "stamp", "enqueue"} /\ job[t] = [point |-> p, val |-> TRUE]

\* Besides the entry main is about to use, another pulse of p is under way.
OtherPulse(p) ==
  \/ \E t \in Thread : Carrying(t, p)
  \/ \E i \in 1 .. Len(pulses) : pulses[i].point = p
  \/ \E i \in 2 .. Len(expired) : expired[i].point = p

\* CheckPulseQueue resets a DO point doPulseMs_ after it went to 1 and not
\* before, whoever switches it off and on and however late times are used.  A
\* pulse is cut short only by the entry of an earlier one of its point that was
\* switched off (its own is then still under way), by a difference of readings
\* the wrong way round, and after a reload has dropped entries.
PulseWhole ==
  [][\A p \in DoPoint :
       (/\ Reset /\ p = Head(expired).point /\ value[p]
        /\ Head(expired).inTime /\ ~OtherPulse(p) /\ reloads = 0)
         => onAge[p] >= DoPulseMs]_vars

\* A DO point does not stay at 1 for good, as long as no reload drops its pulse.
PulseEnds ==
  \A p \in DoPoint : value[p] /\ reloads = 0 ~> ~value[p] \/ reloads > 0
=============================================================================
