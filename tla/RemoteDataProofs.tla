-------------------------- MODULE RemoteDataProofs --------------------------
(***************************************************************************)
(* Safety of RemoteData for every set of points, writers and subscribers:  *)
(* types, no change of a point with one writer is lost to a subscriber     *)
(* that stays, and no pulse is cut short.                                  *)
(***************************************************************************)
EXTENDS RemoteData, SequenceTheorems, TLAPS

-----------------------------------------------------------------------------
(* Types *)

\* A reading of the clock is as old as the clock was set back, or older.
Ages ==
  /\ \A t \in Thread : -backs <= stamp[t] /\ stamp[t] <= MaxLag
  /\ \A i \in 1 .. Len(pulses) : -backs <= pulses[i].age

\* Only a write to a DO point goes on to begin a pulse.
DoJob == \A t \in Thread : pc[t] \in {"stamp", "enqueue"} => job[t].point \in DoPoint

TypeInv == TypeOK /\ Ages /\ DoJob

Entry == [point : DoPoint, age : Age]
Taken == [point : DoPoint, inTime : BOOLEAN]

\* What a thread's job is when it has none.
LEMMA NoJobTyped == NoJob \in [point : Point, val : BOOLEAN]
<1>1. (CHOOSE p \in Point : TRUE) \in Point
  BY PointAssumption
<1>. QED  BY <1>1 DEF NoJob

\* The smaller of two ages.
LEMMA LeastInt ==
  ASSUME NEW a \in Int, NEW b \in Int
  PROVE  Least(a, b) \in Int /\ Least(a, b) <= a /\ Least(a, b) <= b
         /\ (Least(a, b) = a \/ Least(a, b) = b)
BY DEF Least

\* What is left of a list of S is a list of S.
LEMMA RemoveAtTyped ==
  ASSUME NEW S, NEW s \in Seq(S), NEW i \in 1 .. Len(s)
  PROVE  /\ RemoveAt(s, i) \in Seq(S)
         /\ \A x \in S : (\E j \in 1 .. Len(s) : s[j] = x) /\ x # s[i]
              => \E j \in 1 .. Len(RemoveAt(s, i)) : RemoveAt(s, i)[j] = x
<1>1. Len(s) \in Nat /\ \A j \in 1 .. Len(s) : s[j] \in S
  BY LenProperties, ElementOfSeq
<1>. DEFINE a == SubSeq(s, 1, i - 1)
            b == SubSeq(s, i + 1, Len(s))
<1>2. a \in Seq(S) /\ Len(a) = i - 1 /\ \A j \in 1 .. i - 1 : a[j] = s[j]
  BY <1>1, SubSeqProperties
<1>3. b \in Seq(S) /\ Len(b) = Len(s) - i /\ \A j \in 1 .. Len(s) - i : b[j] = s[i + j]
  BY <1>1, SubSeqProperties
<1>4. RemoveAt(s, i) = a \o b
  BY DEF RemoveAt
<1>. HIDE DEF a, b
<1>5. /\ a \o b \in Seq(S) /\ Len(a \o b) = Len(s) - 1
      /\ \A j \in 1 .. Len(s) - 1 : (a \o b)[j] = IF j <= i - 1 THEN a[j] ELSE b[j - (i - 1)]
  <2>1. /\ a \o b \in Seq(S) /\ Len(a \o b) = Len(a) + Len(b)
        /\ \A j \in 1 .. Len(a) + Len(b) :
             (a \o b)[j] = IF j <= Len(a) THEN a[j] ELSE b[j - Len(a)]
    BY <1>2, <1>3, ConcatProperties
  <2>2. Len(a) + Len(b) = Len(s) - 1
    BY <1>1, <1>2, <1>3
  <2>. QED  BY <1>2, <2>1, <2>2
<1>6. ASSUME NEW x \in S, NEW j \in 1 .. Len(s), s[j] = x, x # s[i]
      PROVE  \E k \in 1 .. Len(a \o b) : (a \o b)[k] = x
  <2>1. CASE j < i
    <3>1. j \in 1 .. Len(s) - 1 /\ (a \o b)[j] = x
      BY <1>1, <1>2, <1>5, <1>6, <2>1
    <3>. QED  BY <1>5, <3>1
  <2>2. CASE j > i
    <3>1. j - 1 \in 1 .. Len(s) - 1 /\ ~(j - 1 <= i - 1) /\ j - 1 - (i - 1) = j - i
          /\ j - i \in 1 .. Len(s) - i
      BY <1>1, <2>2
    <3>2. b[j - i] = s[i + (j - i)] /\ i + (j - i) = j
      BY <1>3, <3>1
    <3>3. (a \o b)[j - 1] = x
      BY <1>5, <1>6, <3>1, <3>2
    <3>. QED  BY <1>5, <3>1, <3>3
  <2>. QED  BY <1>6, <2>1, <2>2
<1>. QED  BY <1>4, <1>5, <1>6

\* The entry main is about to use.
LEMMA HeadTyped ==
  ASSUME TypeInv, Reset
  PROVE  /\ Head(expired) \in Taken /\ Head(expired).point \in DoPoint
         /\ Head(expired).point \in Point
<1>1. expired \in Seq(Taken) /\ expired # <<>>
  BY DEF TypeInv, TypeOK, Taken, Reset
<1>2. Head(expired) \in Taken
  BY <1>1, HeadTailProperties
<1>. QED  BY <1>2 DEF Taken, Point

\* Constants of time.
LEMMA Times ==
  /\ DoPulseMs \in Nat /\ MaxLag \in Nat /\ MaxBack \in Nat /\ AgeCap \in Nat
  /\ DoPulseMs >= 1 /\ AgeCap = DoPulseMs + MaxLag + MaxBack
BY PulseAssumption DEF AgeCap

\* The points and what subscribers know of them.
LEMMA TableStep ==
  ASSUME TypeInv, [Next]_vars
  PROVE  /\ value' \in [Point -> BOOLEAN]
         /\ seen' \in [Stayer -> [Point -> BOOLEAN]]
         /\ onAge' \in [DoPoint -> 0 .. DoPulseMs]
         /\ backs' \in 0 .. MaxBack /\ reloads' \in 0 .. MaxReloads
         /\ job' \in [Thread -> [point : Point, val : BOOLEAN]]
<1>. DEFINE Goal == /\ value' \in [Point -> BOOLEAN]
                    /\ seen' \in [Stayer -> [Point -> BOOLEAN]]
                    /\ onAge' \in [DoPoint -> 0 .. DoPulseMs]
                    /\ backs' \in 0 .. MaxBack /\ reloads' \in 0 .. MaxReloads
                    /\ job' \in [Thread -> [point : Point, val : BOOLEAN]]
<1>t. TypeOK
  BY DEF TypeInv
<1>1. ASSUME NEW t \in Thread, Publish(t) \/ EndPublish(t) \/ Stamp(t) \/ Enqueue(t)
      PROVE  Goal
  <2>1. /\ value' = value /\ seen' = seen /\ onAge' = onAge /\ backs' = backs
        /\ reloads' = reloads
    BY <1>1 DEF Publish, EndPublish, Stamp, Enqueue, bus, timing
  <2>2. job' = job \/ job' = [job EXCEPT ![t] = NoJob]
    BY <1>1 DEF Publish, EndPublish, Stamp, Enqueue, Return
  <2>3. job' \in [Thread -> [point : Point, val : BOOLEAN]]
    BY <1>t, <2>2, NoJobTyped DEF TypeOK
  <2>. QED  BY <1>t, <2>1, <2>3 DEF TypeOK
<1>2. ASSUME NEW t \in Thread, Deliver(t)
      PROVE  Goal
  <2>1. Head(todo[t]) \in Subscriber /\ job[t].point \in Point /\ job[t].val \in BOOLEAN
    BY <1>t, <1>2, HeadTailProperties DEF TypeOK, Deliver
  <2>. QED  BY <1>t, <1>2, <2>1 DEF TypeOK, Deliver, timing
<1>3. ASSUME NEW t \in Thread, NEW p \in Point, NEW v \in BOOLEAN, Write(t, p, v),
             UNCHANGED <<bus, backs, reloads>>
      PROVE  Goal
  <2>1. onAge' \in [DoPoint -> 0 .. DoPulseMs]
    BY <1>t, <1>3, Times DEF TypeOK, Write
  <2>2. value' \in [Point -> BOOLEAN] /\ job' \in [Thread -> [point : Point, val : BOOLEAN]]
    <3>1. /\ value' = [value EXCEPT ![p] = v]
          /\ \/ job' = [job EXCEPT ![t] = [point |-> p, val |-> v]]
             \/ job' = [job EXCEPT ![t] = NoJob]
      BY <1>3 DEF Write, Return
    <3>2. [point |-> p, val |-> v] \in [point : Point, val : BOOLEAN]
      OBVIOUS
    <3>3. job' \in [Thread -> [point : Point, val : BOOLEAN]]
      <4>1. job \in [Thread -> [point : Point, val : BOOLEAN]]
        BY <1>t DEF TypeOK
      <4>2. CASE job' = [job EXCEPT ![t] = NoJob]
        BY <4>1, <4>2, NoJobTyped
      <4>3. CASE job' = [job EXCEPT ![t] = [point |-> p, val |-> v]]
        BY <4>1, <4>3, <3>2
      <4>. QED  BY <3>1, <4>2, <4>3
    <3>. QED  BY <1>t, <3>1, <3>3 DEF TypeOK
  <2>. QED  BY <1>t, <1>3, <2>1, <2>2 DEF TypeOK, bus
<1>4. ASSUME NEW t \in Writer, NEW p \in Point, NEW v \in BOOLEAN, Set(t, p, v)
      PROVE  Goal
  BY <1>3, <1>4 DEF Set, Thread
<1>5. ASSUME Reset
      PROVE  Goal
  <2>1. Head(expired) \in Taken /\ Head(expired).point \in Point
    BY <1>5, HeadTyped
  <2>. QED  BY <1>3, <1>5, <2>1 DEF Reset, Thread
<1>6. ASSUME CheckPulseQueue \/ Pop \/ EndCheck \/ \E s \in Subscriber : Unsubscribe(s) \/ Subscribe(s)
      PROVE  Goal
  BY <1>t, <1>6 DEF TypeOK, CheckPulseQueue, Pop, EndCheck, Unsubscribe, Subscribe, bus, calls, timing
<1>7. ASSUME Tick
      PROVE  Goal
  <2>1. onAge' \in [DoPoint -> 0 .. DoPulseMs]
    BY <1>t, <1>7, Times DEF TypeOK, Tick, Least
  <2>. QED  BY <1>t, <1>7, <2>1 DEF TypeOK, Tick, bus, calls
<1>8. ASSUME SetClockBack
      PROVE  Goal
  BY <1>t, <1>8, Times DEF TypeOK, SetClockBack, bus, calls
<1>9. ASSUME NEW result \in Reloads, LoadConfig(result)
      PROVE  Goal
  <2>1. reloads' \in 0 .. MaxReloads
    BY <1>t, <1>9, PulseAssumption DEF TypeOK, LoadConfig
  <2>. QED  BY <1>t, <1>9, <2>1 DEF TypeOK, LoadConfig, bus, calls
<1>10. CASE UNCHANGED vars
  BY <1>t, <1>10 DEF TypeOK, vars, bus, calls, timing
<1>. QED  BY <1>1, <1>2, <1>4, <1>5, <1>6, <1>7, <1>8, <1>9, <1>10
          DEF Next, Call, MainLoop

\* A thread's place in its call.
LEMMA PlaceStep ==
  ASSUME TypeInv, [Next]_vars
  PROVE  /\ pc' \in [Thread -> {"idle", "publish", "deliver", "stamp", "enqueue", "pop", "reset"}]
         /\ DoJob'
<1>. DEFINE Places == {"idle", "publish", "deliver", "stamp", "enqueue", "pop", "reset"}
            Goal == pc' \in [Thread -> Places] /\ DoJob'
<1>t. pc \in [Thread -> Places] /\ job \in [Thread -> [point : Point, val : BOOLEAN]] /\ DoJob
  BY DEF TypeInv, TypeOK
<1>m. Main \in Thread /\ Writer \subseteq Thread
  BY DEF Thread
<1>h. \A t \in Thread : Home(t) \in {"reset", "idle"}
  BY DEF Home
<1>1. ASSUME NEW t \in Thread, Publish(t) \/ Deliver(t) \/ Stamp(t) \/ Enqueue(t)
      PROVE  Goal
  BY <1>t, <1>h, <1>1 DEF DoJob, Publish, Deliver, Stamp, Enqueue, Return, Goto, timing
<1>2. ASSUME NEW t \in Thread, EndPublish(t)
      PROVE  Goal
  BY <1>t, <1>h, <1>2 DEF DoJob, EndPublish, StartsPulse, Return, Goto
<1>3. ASSUME NEW t \in Thread, NEW p \in Point, NEW v \in BOOLEAN, Write(t, p, v)
      PROVE  Goal
  BY <1>t, <1>h, <1>3 DEF DoJob, Write, Return, Goto
<1>4. ASSUME Reset
      PROVE  Goal
  <2>1. Head(expired) \in Taken /\ Head(expired).point \in Point
    BY <1>4, HeadTyped
  <2>. QED  BY <1>m, <1>3, <1>4, <2>1 DEF Reset
<1>5. ASSUME CheckPulseQueue \/ Pop \/ EndCheck
      PROVE  Goal
  BY <1>t, <1>m, <1>5 DEF DoJob, CheckPulseQueue, Pop, EndCheck, Goto
<1>6. CASE UNCHANGED <<pc, job>>
  BY <1>t, <1>6 DEF DoJob
<1>. QED  BY <1>m, <1>1, <1>2, <1>3, <1>4, <1>5, <1>6
          DEF Next, Call, MainLoop, Set, Tick, SetClockBack, Unsubscribe, Subscribe, LoadConfig,
              vars, calls

\* The lists: handlers, handlers still to call, points to reset.
LEMMA ListStep ==
  ASSUME TypeInv, [Next]_vars
  PROVE  /\ handlers' \in Seq(Subscriber) /\ todo' \in [Thread -> Seq(Subscriber)]
         /\ expired' \in Seq(Taken)
<1>. DEFINE Goal == /\ handlers' \in Seq(Subscriber) /\ todo' \in [Thread -> Seq(Subscriber)]
                    /\ expired' \in Seq(Taken)
<1>t. /\ handlers \in Seq(Subscriber) /\ todo \in [Thread -> Seq(Subscriber)]
      /\ expired \in Seq(Taken)
  BY DEF TypeInv, TypeOK, Taken
<1>1. ASSUME NEW t \in Thread, Publish(t)
      PROVE  Goal
  BY <1>t, <1>1, EmptySeq DEF Publish, bus
<1>2. ASSUME NEW t \in Thread, Deliver(t)
      PROVE  Goal
  <2>1. Tail(todo[t]) \in Seq(Subscriber)
    BY <1>t, <1>2, HeadTailProperties DEF Deliver
  <2>. QED  BY <1>t, <1>2, <2>1 DEF Deliver
<1>3. ASSUME Pop
      PROVE  Goal
  <2>1. PICK n \in 0 .. Len(pulses) :
          expired' = [i \in 1 .. n |-> [point |-> pulses[i].point, inTime |-> InTime(pulses[i])]]
    BY <1>3 DEF Pop
  <2>2. Len(pulses) \in Nat /\ \A i \in 1 .. Len(pulses) : pulses[i] \in Entry
    BY LenProperties, ElementOfSeq DEF TypeInv, TypeOK, Entry
  <2>3. n \in Nat /\ \A i \in 1 .. n :
                        [point |-> pulses[i].point, inTime |-> InTime(pulses[i])] \in Taken
    BY <2>1, <2>2 DEF Entry, Taken, InTime
  <2>4. expired' \in Seq(Taken)
    BY <2>1, <2>3, SeqDef
  <2>. QED  BY <1>t, <1>3, <2>4 DEF Pop, bus
<1>4. ASSUME Reset
      PROVE  Goal
  BY <1>t, <1>4, HeadTailProperties DEF Reset, bus
<1>5. ASSUME NEW s \in Subscriber, Unsubscribe(s)
      PROVE  Goal
  BY <1>t, <1>5, RemoveAtTyped DEF Unsubscribe, calls
<1>6. ASSUME NEW s \in Subscriber, Subscribe(s)
      PROVE  Goal
  BY <1>t, <1>6, AppendProperties DEF Subscribe, calls
<1>7. CASE UNCHANGED <<handlers, todo, expired>>
  BY <1>t, <1>7
<1>. QED  BY <1>1, <1>2, <1>3, <1>4, <1>5, <1>6, <1>7
          DEF Next, Call, MainLoop, EndPublish, Stamp, Enqueue, Set, CheckPulseQueue, EndCheck, Tick,
              SetClockBack, LoadConfig, vars, calls, bus

\* The ages of readings: of threads that hold one, and in pulseQueue_.
LEMMA AgeStep ==
  ASSUME TypeInv, [Next]_vars
  PROVE  stamp' \in [Thread -> Age] /\ pulses' \in Seq([point : DoPoint, age : Age]) /\ Ages'
<1>. DEFINE Goal == stamp' \in [Thread -> Age] /\ pulses' \in Seq(Entry) /\ Ages'
<1>t. /\ stamp \in [Thread -> Age] /\ pulses \in Seq(Entry) /\ Ages /\ backs \in 0 .. MaxBack
      /\ job \in [Thread -> [point : Point, val : BOOLEAN]] /\ DoJob
  BY DEF TypeInv, TypeOK, Entry
<1>a. /\ Age \subseteq Int /\ \A a \in Int : a \in Age <=> -MaxBack <= a /\ a <= AgeCap
      /\ Len(pulses) \in Nat /\ \A i \in 1 .. Len(pulses) : pulses[i] \in Entry
  BY <1>t, Times, LenProperties, ElementOfSeq DEF Age
<1>b0. backs \in Nat /\ backs <= MaxBack
  BY <1>t, Times
<1>1. ASSUME NEW t \in Thread, Stamp(t) \/ (t = Main /\ CheckPulseQueue)
      PROVE  Goal
  <2>1. 0 \in Age /\ -backs <= 0 /\ 0 <= MaxLag
    BY <1>t, <1>a, Times
  <2>2. stamp' = [stamp EXCEPT ![t] = 0] /\ pulses' = pulses /\ backs' = backs
    BY <1>1 DEF Stamp, CheckPulseQueue
  <2>. QED  BY <1>t, <2>1, <2>2 DEF Ages
<1>2. ASSUME NEW t \in Thread, Enqueue(t)
      PROVE  Goal
  <2>. DEFINE e == [point |-> job[t].point, age |-> stamp[t]]
  <2>1. e \in Entry /\ e.age = stamp[t]
    BY <1>t, <1>2 DEF Enqueue, DoJob, Entry
  <2>2. pulses' = Append(pulses, e) /\ stamp' = [stamp EXCEPT ![t] = 0] /\ backs' = backs
    BY <1>2 DEF Enqueue
  <2>. HIDE DEF e
  <2>3. /\ pulses' \in Seq(Entry) /\ Len(pulses') = Len(pulses) + 1
        /\ \A i \in 1 .. Len(pulses) : pulses'[i] = pulses[i]
        /\ pulses'[Len(pulses) + 1] = e
    BY <1>t, <2>1, <2>2, AppendProperties
  <2>4. ASSUME NEW i \in 1 .. Len(pulses')
        PROVE  -backs <= pulses'[i].age
    BY <1>t, <1>a, <2>1, <2>3 DEF Ages
  <2>5. 0 \in Age /\ -backs <= 0 /\ 0 <= MaxLag
    BY <1>t, <1>a, Times
  <2>. QED  BY <1>t, <2>2, <2>3, <2>4, <2>5 DEF Ages
<1>3. ASSUME Pop
      PROVE  Goal
  <2>1. PICK n \in 0 .. Len(pulses) : pulses' = SubSeq(pulses, n + 1, Len(pulses))
    BY <1>3 DEF Pop
  <2>2. \A i \in n + 1 .. Len(pulses) : pulses[i] \in Entry
    BY <1>a
  <2>3. /\ pulses' \in Seq(Entry) /\ Len(pulses') = Len(pulses) - n
        /\ \A i \in 1 .. Len(pulses) - n : pulses'[i] = pulses[n + i]
    BY <1>a, <2>1, <2>2, SubSeqProperties
  <2>4. ASSUME NEW i \in 1 .. Len(pulses')
        PROVE  -backs <= pulses'[i].age
    <3>1. n + i \in 1 .. Len(pulses) /\ pulses'[i] = pulses[n + i]
      BY <1>a, <2>3
    <3>. QED  BY <1>t, <3>1 DEF Ages
  <2>5. stamp' = [stamp EXCEPT ![Main] = 0] /\ backs' = backs
    BY <1>3 DEF Pop
  <2>6. 0 \in Age /\ -backs <= 0 /\ 0 <= MaxLag
    BY <1>t, <1>a, Times
  <2>. QED  BY <1>t, <2>3, <2>4, <2>5, <2>6 DEF Ages
<1>4. ASSUME NEW result \in Reloads, LoadConfig(result)
      PROVE  Goal
  <2>1. pulses' = <<>> /\ stamp' = stamp /\ backs' = backs
    BY <1>4 DEF LoadConfig
  <2>. QED  BY <1>t, <2>1, EmptySeq DEF Ages
<1>5. ASSUME Tick
      PROVE  Goal
  <2>1. \A t \in Thread : stamp'[t] \in Age /\ -backs <= stamp'[t] /\ stamp'[t] <= MaxLag
    <3>. TAKE t \in Thread
    <3>1. stamp[t] \in Int /\ stamp[t] \in Age /\ -backs <= stamp[t] /\ stamp[t] <= MaxLag
      BY <1>t, <1>a DEF Ages
    <3>2. CASE HoldsReading(t)
      <4>1. stamp'[t] = stamp[t] + 1 /\ stamp[t] < MaxLag
        BY <1>5, <3>2 DEF Tick
      <4>2. stamp[t] + 1 <= MaxLag /\ -backs <= stamp[t] + 1 /\ -MaxBack <= stamp[t] + 1
            /\ stamp[t] + 1 <= AgeCap
        BY <1>b0, <3>1, <4>1, Times
      <4>. QED  BY <1>a, <3>1, <4>1, <4>2
    <3>3. CASE ~HoldsReading(t)
      BY <1>5, <3>1, <3>3 DEF Tick
    <3>. QED  BY <3>2, <3>3
  <2>2. stamp' \in [Thread -> Age]
    BY <1>5, <2>1 DEF Tick
  <2>3. ASSUME NEW i \in 1 .. Len(pulses)
        PROVE  /\ [pulses[i] EXCEPT !.age = Least(@ + 1, AgeCap)] \in Entry
               /\ -backs <= Least(pulses[i].age + 1, AgeCap)
    <3>1. pulses[i].age \in Int /\ -backs <= pulses[i].age /\ pulses[i] \in Entry
      BY <1>t, <1>a DEF Ages, Entry
    <3>2. Least(pulses[i].age + 1, AgeCap) \in Age /\ -backs <= Least(pulses[i].age + 1, AgeCap)
      BY <1>t, <1>a, <3>1, Times DEF Least
    <3>. QED  BY <3>1, <3>2 DEF Entry
  <2>4. pulses' = [i \in 1 .. Len(pulses) |-> [pulses[i] EXCEPT !.age = Least(@ + 1, AgeCap)]]
    BY <1>5 DEF Tick
  <2>5. pulses' \in Seq(Entry) /\ Len(pulses') = Len(pulses)
    BY <1>a, <2>3, <2>4
  <2>6. ASSUME NEW i \in 1 .. Len(pulses')
        PROVE  -backs <= pulses'[i].age
    BY <1>a, <2>3, <2>4, <2>5 DEF Entry
  <2>7. backs' = backs
    BY <1>5 DEF Tick
  <2>. QED  BY <2>1, <2>2, <2>5, <2>6, <2>7 DEF Ages
<1>6. ASSUME SetClockBack
      PROVE  Goal
  <2>1. backs' = backs + 1 /\ backs + 1 <= MaxBack
    BY <1>t, <1>6, PulseAssumption DEF SetClockBack
  <2>2. \A t \in Thread : stamp'[t] \in Age /\ -backs' <= stamp'[t] /\ stamp'[t] <= MaxLag
    <3>. TAKE t \in Thread
    <3>1. stamp[t] \in Int /\ stamp[t] \in Age /\ -backs <= stamp[t] /\ stamp[t] <= MaxLag
      BY <1>t, <1>a DEF Ages
    <3>2. /\ -backs' <= stamp[t] - 1 /\ -MaxBack <= stamp[t] - 1 /\ stamp[t] - 1 <= AgeCap
          /\ stamp[t] - 1 <= MaxLag /\ -backs' <= stamp[t]
      BY <1>b0, <2>1, <3>1, Times
    <3>3. stamp[t] - 1 \in Age
      BY <1>a, <3>1, <3>2
    <3>4. stamp'[t] = stamp[t] - 1 \/ stamp'[t] = stamp[t]
      BY <1>6 DEF SetClockBack
    <3>. QED  BY <3>1, <3>2, <3>3, <3>4
  <2>3. stamp' \in [Thread -> Age]
    BY <1>6, <2>2 DEF SetClockBack
  <2>4. ASSUME NEW i \in 1 .. Len(pulses)
        PROVE  [pulses[i] EXCEPT !.age = @ - 1] \in Entry /\ -backs' <= pulses[i].age - 1
    <3>1. pulses[i].age \in Age /\ -backs <= pulses[i].age /\ pulses[i] \in Entry
      BY <1>t, <1>a DEF Ages, Entry
    <3>2. pulses[i].age - 1 \in Age /\ -backs' <= pulses[i].age - 1
      <4>1. pulses[i].age \in Int /\ pulses[i].age <= AgeCap
        BY <1>a, <3>1
      <4>2. /\ pulses[i].age - 1 \in Int /\ -MaxBack <= pulses[i].age - 1
            /\ pulses[i].age - 1 <= AgeCap /\ -backs' <= pulses[i].age - 1
        BY <1>b0, <2>1, <3>1, <4>1, Times
      <4>. QED  BY <1>a, <4>2
    <3>. QED  BY <3>1, <3>2 DEF Entry
  <2>5. pulses' = [i \in 1 .. Len(pulses) |-> [pulses[i] EXCEPT !.age = @ - 1]]
    BY <1>6 DEF SetClockBack
  <2>6. pulses' \in Seq(Entry) /\ Len(pulses') = Len(pulses)
    BY <1>a, <2>4, <2>5
  <2>7. ASSUME NEW i \in 1 .. Len(pulses')
        PROVE  -backs' <= pulses'[i].age
    BY <1>a, <2>4, <2>5, <2>6 DEF Entry
  <2>. QED  BY <2>2, <2>3, <2>6, <2>7 DEF Ages
<1>7. ASSUME stamp' = stamp, pulses' = pulses, backs' = backs
      PROVE  Goal
  <2>1. Ages'
    BY <1>t, <1>7 DEF Ages
  <2>. QED  BY <1>t, <1>7, <2>1
<1>8. ASSUME NEW t \in Thread, Call(t)
      PROVE  Goal
  BY <1>1, <1>2, <1>7, <1>8 DEF Call, Publish, Deliver, EndPublish, timing
<1>9. ASSUME MainLoop
      PROVE  Goal
  BY <1>1, <1>3, <1>7, <1>9 DEF MainLoop, Reset, EndCheck, timing, Thread
<1>10. ASSUME NEW t \in Writer, NEW p \in Point, NEW v \in BOOLEAN, Set(t, p, v)
       PROVE  Goal
  BY <1>7, <1>10 DEF Set
<1>11. ASSUME NEW s \in Subscriber, Unsubscribe(s) \/ Subscribe(s)
       PROVE  Goal
  BY <1>7, <1>11 DEF Unsubscribe, Subscribe, timing
<1>12. ASSUME UNCHANGED vars
       PROVE  Goal
  <2>1. stamp' = stamp /\ pulses' = pulses /\ backs' = backs
    BY <1>12 DEF vars, timing
  <2>. QED  BY <1>7, <2>1
<1>13. Goal
  <2>. HIDE DEF Goal
  <2>. QED  BY <1>4, <1>5, <1>6, <1>8, <1>9, <1>10, <1>11, <1>12 DEF Next
<1>. QED  BY <1>13 DEF Entry

\* The variables have their types at the start.
LEMMA InitTypes == Init => TypeInv
<1>. SUFFICES ASSUME Init  PROVE TypeInv
  OBVIOUS
<1>1. 0 \in Age /\ DoPulseMs \in 0 .. DoPulseMs /\ 0 \in 0 .. MaxBack /\ 0 \in 0 .. MaxReloads
  BY Times, PulseAssumption DEF Age
<1>3. TypeOK
  BY <1>1, NoJobTyped, PointAssumption, EmptySeq DEF Init, TypeOK
<1>4. Ages /\ DoJob
  BY Times DEF Init, Ages, DoJob
<1>. QED  BY <1>3, <1>4 DEF TypeInv

\* The types, with the places of the writers that they rest on.
THEOREM TypesInvariant == Spec => []TypeInv
<1>1. TypeInv /\ [Next]_vars => TypeInv'
  BY TableStep, PlaceStep, ListStep, AgeStep DEF TypeInv, TypeOK, Taken
<1>. QED  BY <1>1, InitTypes, PTL DEF Spec

\* Every variable keeps its type: the reading of NowMs() that a pulse is queued
\* with is never older than the clock was set back, only points of DO are
\* queued, and CheckPulseQueue takes no more entries than there are.
THEOREM TypeCorrect == Spec => []TypeOK
BY TypesInvariant, PTL DEF TypeInv

-----------------------------------------------------------------------------
(* No change of a point with one writer is lost *)

\* Subscribers that never leave stay on the list.
Stayers == \A s \in Stayer : \E i \in 1 .. Len(handlers) : handlers[i] = s

\* Only its writer tells a change of a point that main does not reset.
TellersOwn == \A t \in Thread, p \in OtherPoint : Telling(t, p) => t \in Owner[p]

\* Thread t has still to call the handler of s.
ToCall(t, s) == \E i \in 1 .. Len(todo[t]) : todo[t][i] = s

\* The list of handlers loses only subscribers that leave.
LEMMA StayersStep ==
  ASSUME TypeInv, Stayers, [Next]_vars
  PROVE  Stayers'
<1>t. handlers \in Seq(Subscriber)
  BY DEF TypeInv, TypeOK
<1>1. ASSUME NEW x \in Subscriber, Unsubscribe(x)
      PROVE  Stayers'
  <2>1. PICK i \in 1 .. Len(handlers) : handlers[i] = x /\ handlers' = RemoveAt(handlers, i)
    BY <1>1 DEF Unsubscribe
  <2>2. x \notin Stayer
    BY <1>1 DEF Unsubscribe, Stayer
  <2>. QED  BY <1>t, <2>1, <2>2, RemoveAtTyped DEF Stayers, Stayer
<1>2. ASSUME NEW x \in Subscriber, Subscribe(x)
      PROVE  Stayers'
  <2>1. /\ Len(handlers') = Len(handlers) + 1 /\ Len(handlers) \in Nat
        /\ \A i \in 1 .. Len(handlers) : handlers'[i] = handlers[i]
    BY <1>t, <1>2, AppendProperties, LenProperties DEF Subscribe
  <2>2. ASSUME NEW s \in Stayer
        PROVE  \E i \in 1 .. Len(handlers') : handlers'[i] = s
    <3>1. PICK i \in 1 .. Len(handlers) : handlers[i] = s
      BY DEF Stayers
    <3>. QED  BY <2>1, <3>1
  <2>. QED  BY <2>2 DEF Stayers
<1>3. ASSUME handlers' = handlers
      PROVE  Stayers'
  BY <1>3 DEF Stayers
<1>. QED  BY <1>1, <1>2, <1>3
          DEF Next, Call, MainLoop, Publish, Deliver, EndPublish, Stamp, Enqueue, Set,
              CheckPulseQueue, Pop, Reset, EndCheck, Tick, SetClockBack, LoadConfig, vars, bus

\* A write tells its own point, of a writer of it or of a DO point.
LEMMA TellersStep ==
  ASSUME TypeInv, TellersOwn, [Next]_vars
  PROVE  TellersOwn'
<1>t. /\ pc \in [Thread -> {"idle", "publish", "deliver", "stamp", "enqueue", "pop", "reset"}]
      /\ job \in [Thread -> [point : Point, val : BOOLEAN]]
  BY DEF TypeInv, TypeOK
<1>m. Main \in Thread /\ Writer \subseteq Thread /\ \A t \in Thread : Home(t) \in {"reset", "idle"}
  BY DEF Thread, Home
<1>1. ASSUME NEW t \in Thread, Call(t)
      PROVE  TellersOwn'
  <2>1. \A u \in Thread, p \in OtherPoint : Telling(u, p)' => Telling(u, p)
    BY <1>t, <1>m, <1>1 DEF Call, Publish, Deliver, EndPublish, Stamp, Enqueue, Return, Goto, Telling, timing
  <2>. QED  BY <2>1 DEF TellersOwn
<1>2. ASSUME NEW t \in Thread, NEW p \in Point, NEW v \in BOOLEAN, Write(t, p, v),
             p \in OtherPoint => t \in Owner[p]
      PROVE  TellersOwn'
  <2>1. \A u \in Thread, q \in OtherPoint : Telling(u, q)' => Telling(u, q) \/ (u = t /\ q = p)
    BY <1>t, <1>m, <1>2 DEF Write, Return, Goto, Telling
  <2>. QED  BY <1>2, <2>1 DEF TellersOwn
<1>3. ASSUME NEW t \in Writer, NEW p \in Point, NEW v \in BOOLEAN, Set(t, p, v)
      PROVE  TellersOwn'
  BY <1>m, <1>2, <1>3 DEF Set
<1>4. ASSUME Reset
      PROVE  TellersOwn'
  <2>1. Head(expired) \in Taken /\ Head(expired).point \in DoPoint
    BY <1>4, HeadTyped
  <2>. QED  BY <1>m, <1>2, <1>4, <2>1, PointAssumption DEF Reset, Point
<1>5. ASSUME CheckPulseQueue \/ Pop \/ EndCheck
      PROVE  TellersOwn'
  <2>1. \A u \in Thread, p \in OtherPoint : Telling(u, p)' => Telling(u, p)
    BY <1>t, <1>m, <1>5 DEF CheckPulseQueue, Pop, EndCheck, Goto, Telling
  <2>. QED  BY <2>1 DEF TellersOwn
<1>6. ASSUME UNCHANGED <<pc, job>>
      PROVE  TellersOwn'
  BY <1>6 DEF TellersOwn, Telling
<1>. QED  BY <1>1, <1>3, <1>4, <1>5, <1>6
          DEF Next, MainLoop, Tick, SetClockBack, Unsubscribe, Subscribe, LoadConfig, vars, calls

\* What holds of a point p with one writer.
Told(p) ==
  /\ \A t \in Thread :
       Telling(t, p) =>
         /\ job[t].val = value[p]
         /\ pc[t] = "deliver" => \A s \in Stayer : seen[s][p] = value[p] \/ ToCall(t, s)
  /\ Known(p)

\* A step that leaves p and its writer's call alone.
LEMMA SamePoint ==
  ASSUME NEW p \in Alone, Told(p), value'[p] = value[p],
         \A s \in Stayer : seen'[s][p] = seen[s][p],
         \A t \in Thread : Telling(t, p)' <=> Telling(t, p),
         \A t \in Thread : Telling(t, p) => job'[t] = job[t] /\ pc'[t] = pc[t] /\ todo'[t] = todo[t]
  PROVE  Told(p)'
BY DEF Told, Known, Stayer, ToCall

\* A step of the writer of p while it tells a change.
LEMMA CallTold ==
  ASSUME TypeInv, Stayers, TellersOwn, NEW p \in Alone, Told(p), NEW t \in Thread, Call(t)
  PROVE  Told(p)'
<1>t. /\ pc \in [Thread -> {"idle", "publish", "deliver", "stamp", "enqueue", "pop", "reset"}]
      /\ job \in [Thread -> [point : Point, val : BOOLEAN]]
      /\ seen \in [Stayer -> [Point -> BOOLEAN]] /\ todo \in [Thread -> Seq(Subscriber)]
      /\ p \in OtherPoint /\ p \in Point
  BY DEF TypeInv, TypeOK, Alone, Point
<1>h. Home(t) \in {"reset", "idle"}
  BY DEF Home
<1>o. \A u \in Thread : Telling(t, p) /\ Telling(u, p) => u = t
  BY <1>t DEF TellersOwn, Alone
<1>1. ASSUME Publish(t)
      PROVE  Told(p)'
  <2>1. /\ value' = value /\ seen' = seen /\ job' = job
        /\ pc' = [pc EXCEPT ![t] = "deliver"]
        /\ todo' = [todo EXCEPT ![t] = IF job[t].point \in Heard THEN handlers ELSE <<>>]
        /\ pc[t] = "publish"
    BY <1>1 DEF Publish, Goto, bus
  <2>2. \A u \in Thread : Telling(u, p)' <=> Telling(u, p)
    BY <1>t, <2>1 DEF Telling
  <2>3. Telling(t, p) => \A s \in Stayer : ToCall(t, s)'
    BY <1>t, <2>1 DEF ToCall, Stayers, Telling, Alone
  <2>4. \A u \in Thread \ {t} : pc'[u] = pc[u] /\ \A s : ToCall(u, s)' <=> ToCall(u, s)
    BY <1>t, <2>1 DEF ToCall
  <2>. QED  BY <2>1, <2>2, <2>3, <2>4 DEF Told, Known
<1>2. ASSUME Deliver(t), Telling(t, p)
      PROVE  Told(p)'
  <2>1. /\ value' = value /\ job' = job /\ pc' = pc /\ pc[t] = "deliver" /\ job[t].point = p
        /\ \A s \in Stayer : s = Head(todo[t]) => seen'[s] = [seen[s] EXCEPT ![p] = job[t].val]
        /\ \A s \in Stayer : s # Head(todo[t]) => seen'[s] = seen[s]
        /\ todo' = [todo EXCEPT ![t] = Tail(@)] /\ todo[t] # <<>> /\ todo[t] \in Seq(Subscriber)
    BY <1>t, <1>2 DEF Deliver, Telling
  <2>2. job[t].val = value[p] /\ \A s \in Stayer : seen[s][p] = value[p] \/ ToCall(t, s)
    BY <1>2, <2>1 DEF Told
  <2>3. /\ Head(todo[t]) \in Subscriber /\ Len(Tail(todo[t])) = Len(todo[t]) - 1
        /\ \A i \in 1 .. Len(Tail(todo[t])) : Tail(todo[t])[i] = todo[t][i + 1]
        /\ Len(todo[t]) \in Nat /\ Head(todo[t]) = todo[t][1]
    BY <2>1, HeadTailProperties, LenProperties
  <2>4. ASSUME NEW s \in Stayer
        PROVE  seen'[s][p] = value[p] \/ ToCall(t, s)'
    <3>1. CASE seen[s][p] = value[p] \/ s = Head(todo[t])
      <4>1. CASE s = Head(todo[t])
        <5>1. seen'[s] = [seen[s] EXCEPT ![p] = job[t].val] /\ seen[s] \in [Point -> BOOLEAN]
          BY <1>t, <2>1, <4>1
        <5>. QED  BY <1>t, <2>2, <5>1
      <4>2. CASE s # Head(todo[t])
        BY <2>1, <3>1, <4>2
      <4>. QED  BY <4>1, <4>2
    <3>2. CASE ToCall(t, s) /\ s # Head(todo[t])
      <4>1. PICK i \in 1 .. Len(todo[t]) : todo[t][i] = s
        BY <3>2 DEF ToCall
      <4>2. i - 1 \in 1 .. Len(Tail(todo[t])) /\ Tail(todo[t])[i - 1] = s
        BY <2>3, <3>2, <4>1
      <4>3. todo'[t] = Tail(todo[t])
        BY <1>t, <2>1
      <4>. QED  BY <4>2, <4>3 DEF ToCall
    <3>. QED  BY <2>2, <3>1, <3>2
  <2>5. \A u \in Thread : Telling(u, p)' <=> Telling(u, p)
    BY <2>1 DEF Telling
  <2>6. \A u \in Thread : Telling(u, p) => u = t
    BY <1>2, <1>o
  <2>. QED  BY <1>2, <2>1, <2>2, <2>4, <2>5, <2>6 DEF Told, Known
<1>3. ASSUME Deliver(t), ~Telling(t, p)
      PROVE  Told(p)'
  <2>1. /\ value' = value /\ job' = job /\ pc' = pc /\ job[t].point # p
        /\ seen' = [s \in Stayer |-> IF s = Head(todo[t])
                          THEN [seen[s] EXCEPT ![job[t].point] = job[t].val] ELSE seen[s]]
        /\ todo' = [todo EXCEPT ![t] = Tail(@)]
    BY <1>3 DEF Deliver, Telling
  <2>2. \A s \in Stayer : seen'[s][p] = seen[s][p]
    BY <1>t, <2>1 DEF Stayer
  <2>3. \A u \in Thread : Telling(u, p) => todo'[u] = todo[u]
    BY <1>t, <1>3, <2>1
  <2>4. \A u \in Thread : Telling(u, p)' <=> Telling(u, p)
    BY <2>1 DEF Telling
  <2>. QED  BY <2>1, <2>2, <2>3, <2>4, SamePoint
<1>4. ASSUME EndPublish(t), Telling(t, p)
      PROVE  Told(p)'
  <2>1. /\ value' = value /\ seen' = seen /\ pc[t] = "deliver" /\ todo[t] = <<>>
        /\ pc'[t] \notin {"publish", "deliver"}
        /\ \A u \in Thread \ {t} : pc'[u] = pc[u] /\ job'[u] = job[u]
    BY <1>t, <1>h, <1>4 DEF EndPublish, Return, Goto, bus
  <2>2. \A s \in Stayer : ~ToCall(t, s)
    BY <2>1 DEF ToCall
  <2>3. \A s \in Stayer : seen[s][p] = value[p]
    BY <1>4, <2>1, <2>2 DEF Told
  <2>4. \A u \in Thread : ~Telling(u, p)'
    BY <1>4, <1>o, <2>1 DEF Telling
  <2>. QED  BY <2>1, <2>3, <2>4 DEF Told, Known, Stayer
<1>5. ASSUME (EndPublish(t) /\ ~Telling(t, p)) \/ Stamp(t) \/ Enqueue(t)
      PROVE  Told(p)'
  <2>1. /\ value' = value /\ seen' = seen /\ todo' = todo
        /\ ~Telling(t, p) /\ pc'[t] \notin {"publish", "deliver"}
        /\ \A u \in Thread \ {t} : pc'[u] = pc[u] /\ job'[u] = job[u]
    BY <1>t, <1>h, <1>5 DEF EndPublish, Stamp, Enqueue, Return, Goto, bus, Telling
  <2>2. \A u \in Thread : Telling(u, p)' <=> Telling(u, p)
    BY <2>1 DEF Telling
  <2>3. \A u \in Thread : Telling(u, p) => pc'[u] = pc[u] /\ job'[u] = job[u]
    BY <2>1
  <2>. QED  BY <2>1, <2>2, <2>3, SamePoint
<1>. QED  BY <1>1, <1>2, <1>3, <1>4, <1>5 DEF Call

\* A write of some point.
LEMMA WriteTold ==
  ASSUME TypeInv, TellersOwn, NEW p \in Alone, Told(p), NEW t \in Thread, NEW q \in Point,
         NEW v \in BOOLEAN, Write(t, q, v), pc[t] \in {"idle", "reset"}, UNCHANGED <<bus, todo>>,
         q = p => t \in Owner[p]
  PROVE  Told(p)'
<1>t. /\ pc \in [Thread -> {"idle", "publish", "deliver", "stamp", "enqueue", "pop", "reset"}]
      /\ job \in [Thread -> [point : Point, val : BOOLEAN]] /\ value \in [Point -> BOOLEAN]
      /\ p \in OtherPoint /\ p \in Point /\ p \notin Silent
  BY DEF TypeInv, TypeOK, Alone, Point
<1>h. Home(t) \in {"reset", "idle"}
  BY DEF Home
<1>1. /\ value' = [value EXCEPT ![q] = v] /\ seen' = seen /\ todo' = todo
      /\ job' = [job EXCEPT ![t] = IF value[q] # v /\ q \notin Silent
                                   THEN [point |-> q, val |-> v] ELSE NoJob]
      /\ pc' = [pc EXCEPT ![t] = IF value[q] # v /\ q \notin Silent THEN "publish" ELSE Home(t)]
  BY DEF Write, Return, Goto, bus
<1>2. ~Telling(t, p)
  BY DEF Telling
<1>3. \A u \in Thread \ {t} : pc'[u] = pc[u] /\ job'[u] = job[u]
  BY <1>t, <1>1
<1>4. CASE q # p \/ value[p] = v
  <2>1. ~Telling(t, p)'
    BY <1>t, <1>h, <1>1, <1>4 DEF Telling
  <2>2. \A u \in Thread : Telling(u, p)' <=> Telling(u, p)
    BY <1>2, <1>3, <2>1 DEF Telling
  <2>3. value'[p] = value[p]
    BY <1>t, <1>1, <1>4
  <2>. QED  BY <1>1, <1>2, <1>3, <2>2, <2>3, SamePoint
<1>5. CASE q = p /\ value[p] # v
  <2>1. pc'[t] = "publish" /\ job'[t].point = p /\ job'[t].val = v /\ value'[p] = v
    BY <1>t, <1>1, <1>5
  <2>2. \A u \in Thread : Telling(u, p) => u = t
    BY <1>t, <1>5 DEF TellersOwn, Alone
  <2>3. \A u \in Thread : Telling(u, p)' <=> u = t
    BY <1>2, <1>3, <2>1, <2>2 DEF Telling
  <2>. QED  BY <2>1, <2>3 DEF Told, Known
<1>. QED  BY <1>4, <1>5

\* Every step keeps what the subscribers have been told.
LEMMA ToldStep ==
  ASSUME TypeInv, Stayers, TellersOwn, NEW p \in Alone, Told(p), [Next]_vars
  PROVE  Told(p)'
<1>t. /\ pc \in [Thread -> {"idle", "publish", "deliver", "stamp", "enqueue", "pop", "reset"}]
      /\ p \in OtherPoint /\ p \notin DoPoint /\ "loaded" \notin Reloads
  BY PointAssumption DEF TypeInv, TypeOK, Alone
<1>m. Main \in Thread /\ Writer \subseteq Thread
  BY DEF Thread
<1>1. ASSUME NEW t \in Writer, NEW q \in Point, NEW v \in BOOLEAN, Set(t, q, v)
      PROVE  Told(p)'
  BY <1>m, <1>1, WriteTold DEF Set
<1>2. ASSUME Reset
      PROVE  Told(p)'
  <2>1. Head(expired) \in Taken /\ Head(expired).point \in DoPoint
    BY <1>2, HeadTyped
  <2>. QED  BY <1>t, <1>m, <1>2, <2>1, WriteTold DEF Reset, Point
<1>3. ASSUME CheckPulseQueue \/ Pop \/ EndCheck
      PROVE  Told(p)'
  <2>1. /\ value' = value /\ seen' = seen /\ job' = job /\ todo' = todo
        /\ pc[Main] \notin {"publish", "deliver"} /\ pc'[Main] \notin {"publish", "deliver"}
        /\ \A u \in Thread \ {Main} : pc'[u] = pc[u]
    BY <1>t, <1>m, <1>3 DEF CheckPulseQueue, Pop, EndCheck, Goto, bus
  <2>2. \A u \in Thread : Telling(u, p)' <=> Telling(u, p)
    BY <2>1 DEF Telling
  <2>3. \A u \in Thread : Telling(u, p) => pc'[u] = pc[u]
    BY <2>1 DEF Telling
  <2>. QED  BY <2>1, <2>2, <2>3, SamePoint
<1>4. ASSUME value' = value, seen' = seen, pc' = pc, job' = job, todo' = todo
      PROVE  Told(p)'
  <2>1. \A u \in Thread : Telling(u, p)' <=> Telling(u, p)
    BY <1>4 DEF Telling
  <2>. QED  BY <1>4, <2>1, SamePoint
<1>5. ASSUME NEW result \in Reloads, LoadConfig(result)
      PROVE  Told(p)'
  <2>1. value' = value /\ seen' = seen /\ pc' = pc /\ job' = job /\ todo' = todo
    BY <1>t, <1>5 DEF LoadConfig, bus, calls
  <2>. QED  BY <1>4, <2>1
<1>6. ASSUME Tick \/ SetClockBack \/ UNCHANGED vars
             \/ \E s \in Subscriber : Unsubscribe(s) \/ Subscribe(s)
      PROVE  Told(p)'
  <2>1. value' = value /\ seen' = seen /\ pc' = pc /\ job' = job /\ todo' = todo
    BY <1>6 DEF Tick, SetClockBack, Unsubscribe, Subscribe, vars, bus, calls
  <2>. QED  BY <1>4, <2>1
<1>. QED  BY <1>1, <1>2, <1>3, <1>5, <1>6, CallTold DEF Next, MainLoop

\* Changes of a point with one writer reach every subscriber that stays, in
\* spite of Publish calling the handlers of a copied list without a lock.
THEOREM KnownCorrect == Spec => []AloneKnown
<1>. DEFINE Inv == TypeInv /\ Stayers /\ TellersOwn /\ \A p \in Alone : Told(p)
<1>1. Init => Inv
  <2>. SUFFICES ASSUME Init  PROVE Inv
    OBVIOUS
  <2>1. Stayers
    BY PointAssumption DEF Init, Stayers, Stayer
  <2>2. \A t \in Thread, p \in Point : ~Telling(t, p)
    BY DEF Init, Telling
  <2>3. \A p \in Alone : Told(p)
    BY <2>2 DEF Init, Told, Known, Alone, Point
  <2>. QED  BY <2>1, <2>2, <2>3, InitTypes DEF TellersOwn, Point
<1>2. Inv /\ [Next]_vars => Inv'
  <2>. SUFFICES ASSUME Inv, [Next]_vars  PROVE Inv'
    OBVIOUS
  <2>1. TypeInv'
    BY TableStep, PlaceStep, ListStep, AgeStep DEF TypeInv, TypeOK, Taken
  <2>2. \A p \in Alone : Told(p)'
    BY ToldStep
  <2>3. Alone' = Alone
    BY DEF Alone
  <2>. QED  BY <2>1, <2>2, <2>3, StayersStep, TellersStep
<1>3. Inv => AloneKnown
  BY DEF Told, AloneKnown
<1>. QED  BY <1>1, <1>2, <1>3, PTL DEF Spec

-----------------------------------------------------------------------------
(* No pulse is cut short *)

\* A reading no older than the 1 of p; a pulse this old is over.
Young(a, p) == a <= onAge[p] \/ DoPulseMs <= onAge[p]

\* What shows that the present pulse of p is still under way: the thread that
\* begins it, its entry in the queue, or its entry in the hands of main.
FreshThread(t, p)  == Carrying(t, p) /\ (pc[t] = "enqueue" => Young(stamp[t], p))
FreshQueued(i, p)  == pulses[i].point = p /\ Young(pulses[i].age, p)
FreshExpired(i, p) == expired[i].point = p /\ (expired[i].inTime => DoPulseMs <= onAge[p])

Fresh(p) ==
  \/ \E t \in Thread : FreshThread(t, p)
  \/ \E i \in 1 .. Len(pulses) : FreshQueued(i, p)
  \/ \E i \in 1 .. Len(expired) : FreshExpired(i, p)

\* Until a reload, a point at 1 has its own pulse under way.
PulseTime(p) == value[p] /\ reloads = 0 => Fresh(p)

\* Main takes entries when it has none left.
Emptied == pc[Main] \in {"idle", "pop"} => expired = <<>>

PulseInv == Emptied /\ \A p \in DoPoint : PulseTime(p)

\* A thread that begins a pulse goes on to queue it.
LEMMA CallPulse ==
  ASSUME TypeInv, NEW p \in DoPoint, PulseTime(p), NEW t \in Thread, Call(t)
  PROVE  PulseTime(p)'
<1>t. /\ pc \in [Thread -> {"idle", "publish", "deliver", "stamp", "enqueue", "pop", "reset"}]
      /\ job \in [Thread -> [point : Point, val : BOOLEAN]] /\ stamp \in [Thread -> Age]
      /\ pulses \in Seq(Entry) /\ onAge[p] \in Nat /\ DoJob
  BY Times DEF TypeInv, TypeOK, Entry
<1>h. Home(t) \in {"reset", "idle"}
  BY DEF Home
<1>v. value' = value /\ onAge' = onAge /\ reloads' = reloads /\ expired' = expired
  BY DEF Call, Publish, Deliver, EndPublish, Stamp, Enqueue, timing
<1>o. \A u \in Thread \ {t} : pc'[u] = pc[u] /\ job'[u] = job[u] /\ stamp'[u] = stamp[u]
  BY <1>t DEF Call, Publish, Deliver, EndPublish, Stamp, Enqueue, Return, Goto, timing
<1>. SUFFICES ASSUME value[p], reloads = 0
              PROVE  Fresh(p)'
  BY <1>v DEF PulseTime
<1>f. Fresh(p)
  BY DEF PulseTime
<1>1. ASSUME NEW u \in Thread \ {t}, FreshThread(u, p)
      PROVE  Fresh(p)'
  <2>1. FreshThread(u, p)'
    BY <1>1, <1>o, <1>v DEF FreshThread, Carrying, Young
  <2>. QED  BY <2>1 DEF Fresh
<1>2. ASSUME NEW i \in 1 .. Len(expired), FreshExpired(i, p)
      PROVE  Fresh(p)'
  <2>1. i \in 1 .. Len(expired') /\ FreshExpired(i, p)'
    BY <1>2, <1>v DEF FreshExpired
  <2>. QED  BY <2>1 DEF Fresh
<1>3. ASSUME Publish(t) \/ Deliver(t) \/ EndPublish(t) \/ Stamp(t)
      PROVE  Fresh(p)'
  <2>1. pulses' = pulses
    BY <1>3 DEF Publish, Deliver, EndPublish, Stamp, timing
  <2>2. ASSUME NEW i \in 1 .. Len(pulses), FreshQueued(i, p)
        PROVE  Fresh(p)'
    <3>1. i \in 1 .. Len(pulses') /\ FreshQueued(i, p)'
      BY <1>v, <2>1, <2>2 DEF FreshQueued, Young
    <3>. QED  BY <3>1 DEF Fresh
  <2>3. ASSUME FreshThread(t, p)
        PROVE  Fresh(p)'
    <3>1. job[t] = [point |-> p, val |-> TRUE]
      BY <2>3 DEF FreshThread, Carrying
    <3>2. /\ job'[t] = job[t] /\ pc'[t] \in {"publish", "deliver", "stamp", "enqueue"}
          /\ pc'[t] = "enqueue" => stamp'[t] = 0
      <4>1. CASE Publish(t)
        BY <1>t, <4>1 DEF Publish, Goto
      <4>2. CASE Deliver(t)
        BY <4>2 DEF Deliver
      <4>3. CASE EndPublish(t)
        BY <1>t, <3>1, <4>3 DEF EndPublish, StartsPulse, Goto
      <4>4. CASE Stamp(t)
        BY <1>t, <4>4 DEF Stamp, Goto
      <4>. QED  BY <1>3, <4>1, <4>2, <4>3, <4>4
    <3>3. FreshThread(t, p)'
      BY <1>t, <1>v, <3>1, <3>2 DEF FreshThread, Carrying, Young
    <3>. QED  BY <3>3 DEF Fresh
  <2>. QED  BY <1>f, <1>1, <1>2, <2>2, <2>3 DEF Fresh
<1>4. ASSUME Enqueue(t)
      PROVE  Fresh(p)'
  <2>. DEFINE e == [point |-> job[t].point, age |-> stamp[t]]
  <2>1. e \in Entry /\ e.point = job[t].point /\ e.age = stamp[t] /\ pc[t] = "enqueue"
        /\ pulses' = Append(pulses, e)
    BY <1>t, <1>4 DEF Enqueue, DoJob, Entry
  <2>. HIDE DEF e
  <2>2. /\ Len(pulses') = Len(pulses) + 1 /\ Len(pulses) \in Nat
        /\ \A i \in 1 .. Len(pulses) : pulses'[i] = pulses[i]
        /\ pulses'[Len(pulses) + 1] = e
    BY <1>t, <2>1, AppendProperties, LenProperties
  <2>3. ASSUME NEW i \in 1 .. Len(pulses), FreshQueued(i, p)
        PROVE  Fresh(p)'
    <3>1. i \in 1 .. Len(pulses') /\ FreshQueued(i, p)'
      BY <1>v, <2>2, <2>3 DEF FreshQueued, Young
    <3>. QED  BY <3>1 DEF Fresh
  <2>4. ASSUME FreshThread(t, p)
        PROVE  Fresh(p)'
    <3>1. e.point = p /\ Young(e.age, p)
      BY <2>1, <2>4 DEF FreshThread, Carrying
    <3>2. PICK k \in 1 .. Len(pulses') : pulses'[k] = e
      BY <2>2
    <3>. QED  BY <1>v, <3>1, <3>2 DEF Fresh, FreshQueued, Young
  <2>. QED  BY <1>f, <1>1, <1>2, <2>3, <2>4 DEF Fresh
<1>. QED  BY <1>3, <1>4 DEF Call

\* A command to switch on, when it changes the point, begins a pulse.
LEMMA SetPulse ==
  ASSUME TypeInv, NEW p \in DoPoint, PulseTime(p),
         NEW t \in Writer, NEW q \in Point, NEW v \in BOOLEAN, Set(t, q, v)
  PROVE  PulseTime(p)'
<1>t. /\ pc \in [Thread -> {"idle", "publish", "deliver", "stamp", "enqueue", "pop", "reset"}]
      /\ job \in [Thread -> [point : Point, val : BOOLEAN]] /\ value \in [Point -> BOOLEAN]
      /\ onAge \in [DoPoint -> 0 .. DoPulseMs] /\ t \in Thread /\ p \in Point /\ p \notin Silent
  BY PointAssumption DEF TypeInv, TypeOK, Thread, Point
<1>1. /\ value' = [value EXCEPT ![q] = v] /\ pulses' = pulses /\ expired' = expired
      /\ stamp' = stamp /\ reloads' = reloads /\ pc[t] = "idle"
      /\ onAge' = IF q \in DoPoint /\ v /\ value[q] # v THEN [onAge EXCEPT ![q] = 0] ELSE onAge
      /\ \A u \in Thread \ {t} : pc'[u] = pc[u] /\ job'[u] = job[u]
  BY <1>t DEF Set, Write, Return, Goto
<1>2. CASE q # p \/ value[p] = v
  <2>1. value'[p] = value[p] /\ onAge'[p] = onAge[p]
    BY <1>t, <1>1, <1>2
  <2>. SUFFICES ASSUME value[p], reloads = 0
                PROVE  Fresh(p)'
    BY <1>1, <2>1 DEF PulseTime
  <2>2. Fresh(p)
    BY DEF PulseTime
  <2>3. ASSUME NEW u \in Thread, FreshThread(u, p)
        PROVE  Fresh(p)'
    <3>1. u # t
      BY <1>1, <2>3 DEF FreshThread, Carrying
    <3>2. FreshThread(u, p)'
      BY <1>1, <2>1, <2>3, <3>1 DEF FreshThread, Carrying, Young
    <3>. QED  BY <3>2 DEF Fresh
  <2>4. ASSUME NEW i \in 1 .. Len(pulses), FreshQueued(i, p)
        PROVE  Fresh(p)'
    <3>1. i \in 1 .. Len(pulses') /\ FreshQueued(i, p)'
      BY <1>1, <2>1, <2>4 DEF FreshQueued, Young
    <3>. QED  BY <3>1 DEF Fresh
  <2>5. ASSUME NEW i \in 1 .. Len(expired), FreshExpired(i, p)
        PROVE  Fresh(p)'
    <3>1. i \in 1 .. Len(expired') /\ FreshExpired(i, p)'
      BY <1>1, <2>1, <2>5 DEF FreshExpired
    <3>. QED  BY <3>1 DEF Fresh
  <2>. QED  BY <2>2, <2>3, <2>4, <2>5 DEF Fresh
<1>3. CASE q = p /\ value[p] # v /\ v
  <2>1. pc'[t] = "publish" /\ job'[t] = [point |-> p, val |-> v] /\ v = TRUE
    BY <1>t, <1>3 DEF Set, Write, Goto
  <2>2. FreshThread(t, p)'
    BY <1>t, <2>1 DEF FreshThread, Carrying
  <2>. QED  BY <1>t, <2>2 DEF PulseTime, Fresh
<1>4. CASE q = p /\ ~v
  BY <1>t, <1>1, <1>4 DEF PulseTime
<1>. QED  BY <1>2, <1>3, <1>4

\* CheckPulseQueue takes the pulses that are due.
LEMMA PopPulse ==
  ASSUME TypeInv, Emptied, NEW p \in DoPoint, PulseTime(p), Pop
  PROVE  PulseTime(p)'
<1>t. /\ pc \in [Thread -> {"idle", "publish", "deliver", "stamp", "enqueue", "pop", "reset"}]
      /\ pulses \in Seq(Entry) /\ stamp[Main] \in Int /\ onAge[p] \in Nat
  BY Times DEF TypeInv, TypeOK, Entry, Age, Thread
<1>1. Len(pulses) \in Nat /\ \A i \in 1 .. Len(pulses) : pulses[i] \in Entry
  BY <1>t, LenProperties, ElementOfSeq
<1>2. PICK n \in 0 .. Len(pulses) :
        /\ \A i \in 1 .. n : IsDue(pulses[i])
        /\ expired' = [i \in 1 .. n |-> [point |-> pulses[i].point, inTime |-> InTime(pulses[i])]]
        /\ pulses' = SubSeq(pulses, n + 1, Len(pulses))
  BY DEF Pop, Due
<1>3. /\ Len(expired') = n
      /\ \A i \in 1 .. n : expired'[i] = [point |-> pulses[i].point, inTime |-> InTime(pulses[i])]
  BY <1>2
<1>4. /\ Len(pulses') = Len(pulses) - n
      /\ \A i \in 1 .. Len(pulses) - n : pulses'[i] = pulses[n + i]
  <2>1. \A i \in n + 1 .. Len(pulses) : pulses[i] \in Entry
    BY <1>1
  <2>. QED  BY <1>1, <1>2, <2>1, SubSeqProperties
<1>5. /\ value' = value /\ onAge' = onAge /\ reloads' = reloads
      /\ \A t \in Thread \ {Main} : pc'[t] = pc[t] /\ job'[t] = job[t] /\ stamp'[t] = stamp[t]
      /\ pc[Main] = "pop" /\ expired = <<>>
  BY <1>t DEF Pop, Goto, Emptied
<1>. SUFFICES ASSUME value[p], reloads = 0
              PROVE  Fresh(p)'
  BY <1>5 DEF PulseTime
<1>f. Fresh(p)
  BY DEF PulseTime
<1>6. ASSUME NEW t \in Thread, FreshThread(t, p)
      PROVE  Fresh(p)'
  <2>1. t # Main
    BY <1>5, <1>6 DEF FreshThread, Carrying
  <2>2. FreshThread(t, p)'
    BY <1>5, <1>6, <2>1 DEF FreshThread, Carrying, Young
  <2>. QED  BY <2>2 DEF Fresh
<1>7. ASSUME NEW i \in 1 .. Len(pulses), FreshQueued(i, p)
      PROVE  Fresh(p)'
  <2>1. CASE i > n
    <3>1. i - n \in 1 .. Len(pulses') /\ pulses'[i - n] = pulses[i]
      <4>1. i - n \in 1 .. Len(pulses) - n /\ n + (i - n) = i
        BY <1>1, <2>1
      <4>. QED  BY <1>4, <4>1
    <3>2. FreshQueued(i - n, p)'
      BY <1>5, <1>7, <3>1 DEF FreshQueued, Young
    <3>. QED  BY <3>1, <3>2 DEF Fresh
  <2>2. CASE i <= n
    <3>1. i \in 1 .. n /\ i \in 1 .. Len(expired') /\ pulses[i].age \in Int
      BY <1>1, <1>3, <2>2, Times DEF Entry, Age
    <3>2. ASSUME InTime(pulses[i])
          PROVE  DoPulseMs <= onAge[p]
      <4>1. pulses[i].age - stamp[Main] < 0 \/ pulses[i].age - stamp[Main] >= DoPulseMs
        BY <1>2, <3>1 DEF IsDue
      <4>2. pulses[i].age >= DoPulseMs
        BY <1>t, <3>1, <3>2, <4>1, Times DEF InTime
      <4>. QED  BY <1>t, <1>7, <3>1, <4>2, Times DEF FreshQueued, Young
    <3>3. FreshExpired(i, p)'
      BY <1>3, <1>5, <1>7, <3>1, <3>2 DEF FreshExpired, FreshQueued
    <3>. QED  BY <3>1, <3>3 DEF Fresh
  <2>. QED  BY <1>1, <2>1, <2>2
<1>. QED  BY <1>f, <1>5, <1>6, <1>7 DEF Fresh

\* Main sets the point of the first of them to 0.
LEMMA ResetPulse ==
  ASSUME TypeInv, NEW p \in DoPoint, PulseTime(p), Reset
  PROVE  PulseTime(p)'
<1>. DEFINE q == Head(expired).point
<1>t. /\ pc \in [Thread -> {"idle", "publish", "deliver", "stamp", "enqueue", "pop", "reset"}]
      /\ job \in [Thread -> [point : Point, val : BOOLEAN]] /\ value \in [Point -> BOOLEAN]
      /\ expired \in Seq(Taken) /\ Main \in Thread /\ p \in Point /\ q \in Point
  BY HeadTyped DEF TypeInv, TypeOK, Thread, Point, Taken
<1>1. /\ value' = [value EXCEPT ![q] = FALSE] /\ pulses' = pulses /\ expired' = Tail(expired)
      /\ onAge' = onAge /\ reloads' = reloads /\ stamp' = stamp
      /\ pc[Main] = "reset" /\ expired # <<>>
      /\ \A u \in Thread \ {Main} : pc'[u] = pc[u] /\ job'[u] = job[u]
  BY <1>t DEF Reset, Write, Return, Goto
<1>2. /\ q = expired[1].point /\ Len(expired) \in Nat \ {0}
      /\ Len(Tail(expired)) = Len(expired) - 1
      /\ \A i \in 1 .. Len(Tail(expired)) : Tail(expired)[i] = expired[i + 1]
  BY <1>t, <1>1, HeadTailProperties, EmptySeq
<1>. HIDE DEF q
<1>3. CASE q = p
  BY <1>t, <1>1, <1>3 DEF PulseTime
<1>4. CASE q # p
  <2>. SUFFICES ASSUME value[p], reloads = 0
                PROVE  Fresh(p)'
    BY <1>t, <1>1, <1>4 DEF PulseTime
  <2>1. Fresh(p)
    BY DEF PulseTime
  <2>2. ASSUME NEW u \in Thread, FreshThread(u, p)
        PROVE  Fresh(p)'
    <3>1. u # Main
      BY <1>1, <2>2 DEF FreshThread, Carrying
    <3>2. FreshThread(u, p)'
      BY <1>1, <2>2, <3>1 DEF FreshThread, Carrying, Young
    <3>. QED  BY <3>2 DEF Fresh
  <2>3. ASSUME NEW i \in 1 .. Len(pulses), FreshQueued(i, p)
        PROVE  Fresh(p)'
    <3>1. i \in 1 .. Len(pulses') /\ FreshQueued(i, p)'
      BY <1>1, <2>3 DEF FreshQueued, Young
    <3>. QED  BY <3>1 DEF Fresh
  <2>4. ASSUME NEW i \in 1 .. Len(expired), FreshExpired(i, p)
        PROVE  Fresh(p)'
    <3>1. i # 1
      BY <1>2, <1>4, <2>4 DEF FreshExpired
    <3>2. i - 1 \in 1 .. Len(Tail(expired)) /\ i - 1 + 1 = i
      BY <1>2, <3>1
    <3>3. i - 1 \in 1 .. Len(expired') /\ expired'[i - 1] = expired[i]
      BY <1>1, <1>2, <3>2
    <3>4. FreshExpired(i - 1, p)'
      BY <1>1, <2>4, <3>3 DEF FreshExpired
    <3>. QED  BY <3>3, <3>4 DEF Fresh
  <2>. QED  BY <2>1, <2>2, <2>3, <2>4 DEF Fresh
<1>. QED  BY <1>3, <1>4

\* The clock goes on, or is set back.
LEMMA ClockPulse ==
  ASSUME TypeInv, NEW p \in DoPoint, PulseTime(p), Tick \/ SetClockBack
  PROVE  PulseTime(p)'
<1>t. /\ pulses \in Seq(Entry) /\ onAge \in [DoPoint -> 0 .. DoPulseMs] /\ stamp \in [Thread -> Age]
  BY DEF TypeInv, TypeOK, Entry
<1>1. Len(pulses) \in Nat /\ \A i \in 1 .. Len(pulses) : pulses[i] \in Entry
  BY <1>t, LenProperties, ElementOfSeq
<1>2. /\ \A i \in 1 .. Len(pulses) : pulses[i].age \in Int /\ pulses[i].age <= AgeCap
      /\ \A t \in Thread : stamp[t] \in Int
  BY <1>t, <1>1, Times DEF Entry, Age
<1>x. ~(Tick /\ SetClockBack)
  BY Times DEF Tick, SetClockBack, TypeInv, TypeOK
<1>3. value' = value /\ expired' = expired /\ pc' = pc /\ job' = job /\ reloads' = reloads
  BY DEF Tick, SetClockBack, calls
<1>4. /\ onAge[p] \in Nat /\ onAge[p] <= DoPulseMs
      /\ Tick => onAge'[p] = Least(onAge[p] + 1, DoPulseMs)
      /\ SetClockBack => onAge'[p] = onAge[p]
  BY <1>t, Times DEF Tick, SetClockBack
<1>5. /\ onAge'[p] \in Int
      /\ DoPulseMs <= onAge[p] => DoPulseMs <= onAge'[p]
      /\ Tick => onAge'[p] = onAge[p] + 1 \/ onAge'[p] = DoPulseMs
      /\ onAge[p] <= onAge'[p]
  BY <1>4, Times DEF Least
<1>6. /\ Len(pulses') = Len(pulses)
      /\ \A i \in 1 .. Len(pulses) :
           /\ pulses'[i].point = pulses[i].point /\ pulses'[i].age \in Int
           /\ Tick => pulses'[i].age <= pulses[i].age + 1
           /\ SetClockBack => pulses'[i].age <= pulses[i].age
  <2>1. CASE Tick
    <3>1. pulses' = [i \in 1 .. Len(pulses) |-> [pulses[i] EXCEPT !.age = Least(@ + 1, AgeCap)]]
      BY <2>1 DEF Tick
    <3>2. Len(pulses') = Len(pulses)
      BY <1>1, <3>1
    <3>3. ASSUME NEW i \in 1 .. Len(pulses)
          PROVE  /\ pulses'[i].point = pulses[i].point
                 /\ pulses'[i].age = Least(pulses[i].age + 1, AgeCap)
      BY <1>1, <3>1 DEF Entry
    <3>. QED  BY <1>2, <1>x, <2>1, <3>2, <3>3, Times DEF Least
  <2>2. CASE SetClockBack
    <3>1. pulses' = [i \in 1 .. Len(pulses) |-> [pulses[i] EXCEPT !.age = @ - 1]]
      BY <2>2 DEF SetClockBack
    <3>2. Len(pulses') = Len(pulses)
      BY <1>1, <3>1
    <3>3. ASSUME NEW i \in 1 .. Len(pulses)
          PROVE  pulses'[i].point = pulses[i].point /\ pulses'[i].age = pulses[i].age - 1
      BY <1>1, <3>1 DEF Entry
    <3>. QED  BY <1>2, <1>x, <2>2, <3>2, <3>3
  <2>. QED  BY <2>1, <2>2
<1>7. \A t \in Thread :
        /\ stamp'[t] \in Int
        /\ Tick => stamp'[t] <= stamp[t] + 1
        /\ SetClockBack => stamp'[t] <= stamp[t]
  BY <1>2 DEF Tick, SetClockBack
<1>. SUFFICES ASSUME value[p], reloads = 0
              PROVE  Fresh(p)'
  BY <1>3 DEF PulseTime
<1>f. Fresh(p)
  BY DEF PulseTime
<1>8. ASSUME NEW t \in Thread, FreshThread(t, p)
      PROVE  Fresh(p)'
  <2>1. Young(stamp[t], p) => Young(stamp[t], p)'
    BY <1>2, <1>4, <1>5, <1>7, Times DEF Young
  <2>2. FreshThread(t, p)'
    BY <1>3, <1>8, <2>1 DEF FreshThread, Carrying, Young
  <2>. QED  BY <2>2 DEF Fresh
<1>9. ASSUME NEW i \in 1 .. Len(pulses), FreshQueued(i, p)
      PROVE  Fresh(p)'
  <2>1. Young(pulses[i].age, p)'
    BY <1>2, <1>4, <1>5, <1>6, <1>9, Times DEF Young, FreshQueued
  <2>2. i \in 1 .. Len(pulses') /\ FreshQueued(i, p)'
    BY <1>6, <1>9, <2>1 DEF FreshQueued, Young
  <2>. QED  BY <2>2 DEF Fresh
<1>10. ASSUME NEW i \in 1 .. Len(expired), FreshExpired(i, p)
       PROVE  Fresh(p)'
  <2>1. i \in 1 .. Len(expired') /\ FreshExpired(i, p)'
    BY <1>3, <1>5, <1>10 DEF FreshExpired
  <2>. QED  BY <2>1 DEF Fresh
<1>. QED  BY <1>f, <1>8, <1>9, <1>10 DEF Fresh

\* A step that leaves the points, the queue and the calls alone.
LEMMA SamePulse ==
  ASSUME NEW p \in DoPoint, PulseTime(p),
         UNCHANGED <<value, job, pulses, expired, onAge, reloads>>,
         \A t \in Thread : FreshThread(t, p) => FreshThread(t, p)'
  PROVE  PulseTime(p)'
<1>1. \A i \in 1 .. Len(pulses) : FreshQueued(i, p) => FreshQueued(i, p)'
  BY DEF FreshQueued, Young
<1>2. \A i \in 1 .. Len(expired) : FreshExpired(i, p) => FreshExpired(i, p)'
  BY DEF FreshExpired
<1>3. Fresh(p) => Fresh(p)'
  BY <1>1, <1>2 DEF Fresh
<1>. QED  BY <1>3 DEF PulseTime

\* Main looks for due entries only when it has used up those it took.
LEMMA EmptiedStep ==
  ASSUME TypeInv, Emptied, [Next]_vars
  PROVE  Emptied'
<1>t. /\ pc \in [Thread -> {"idle", "publish", "deliver", "stamp", "enqueue", "pop", "reset"}]
      /\ Main \in Thread
  BY DEF TypeInv, TypeOK, Thread
<1>1. ASSUME NEW t \in Thread, Call(t)
      PROVE  Emptied'
  <2>1. expired' = expired /\ (pc'[Main] \in {"idle", "pop"} => pc[Main] \in {"idle", "pop"})
    BY <1>t, <1>1 DEF Call, Publish, Deliver, EndPublish, Stamp, Enqueue, Return, Goto, Home, calls
  <2>. QED  BY <2>1 DEF Emptied
<1>2. ASSUME NEW t \in Writer, NEW q \in Point, NEW v \in BOOLEAN, Set(t, q, v)
      PROVE  Emptied'
  <2>1. t # Main
    BY PointAssumption
  <2>2. expired' = expired /\ pc'[Main] = pc[Main]
    BY <1>t, <1>2, <2>1 DEF Set, Write, Return, Goto
  <2>. QED  BY <2>2 DEF Emptied
<1>3. ASSUME MainLoop
      PROVE  Emptied'
  BY <1>t, <1>3
     DEF Emptied, MainLoop, CheckPulseQueue, Pop, Reset, EndCheck, Write, Return, Goto, Home
<1>4. ASSUME expired' = expired, pc' = pc
      PROVE  Emptied'
  BY <1>4 DEF Emptied
<1>. QED  BY <1>1, <1>2, <1>3, <1>4
          DEF Next, Tick, SetClockBack, Unsubscribe, Subscribe, LoadConfig, vars, calls

\* Every step keeps the pulses whole.
LEMMA PulseStep ==
  ASSUME TypeInv, PulseInv, [Next]_vars
  PROVE  PulseInv'
<1>. SUFFICES ASSUME NEW p \in DoPoint
              PROVE  PulseTime(p)'
  BY EmptiedStep DEF PulseInv
<1>p. PulseTime(p) /\ Emptied
  BY DEF PulseInv
<1>1. ASSUME CheckPulseQueue \/ EndCheck
      PROVE  PulseTime(p)'
  <2>1. /\ UNCHANGED <<value, job, pulses, expired, onAge, reloads>>
        /\ pc[Main] \in {"idle", "reset"}
        /\ \A t \in Thread \ {Main} : pc'[t] = pc[t] /\ stamp'[t] = stamp[t]
    BY <1>1 DEF CheckPulseQueue, EndCheck, Goto, timing, TypeInv, TypeOK
  <2>2. \A t \in Thread : FreshThread(t, p) => FreshThread(t, p)'
    BY <2>1 DEF FreshThread, Carrying, Young
  <2>. QED  BY <1>p, <2>1, <2>2, SamePulse
<1>2. ASSUME UNCHANGED vars \/ \E s \in Subscriber : Unsubscribe(s) \/ Subscribe(s)
      PROVE  PulseTime(p)'
  <2>1. UNCHANGED <<value, job, pulses, expired, onAge, reloads, pc, stamp>>
    BY <1>2 DEF Unsubscribe, Subscribe, vars, calls, timing
  <2>2. \A t \in Thread : FreshThread(t, p) => FreshThread(t, p)'
    BY <2>1 DEF FreshThread, Carrying, Young
  <2>. QED  BY <1>p, <2>1, <2>2, SamePulse
<1>3. ASSUME NEW result \in Reloads, LoadConfig(result)
      PROVE  PulseTime(p)'
  <2>1. reloads' # 0
    <3>1. reloads \in Nat /\ reloads' = reloads + 1
      BY <1>3, PulseAssumption DEF TypeInv, TypeOK, LoadConfig
    <3>. QED  BY <3>1
  <2>. QED  BY <2>1 DEF PulseTime
<1>. QED  BY <1>p, <1>1, <1>2, <1>3, CallPulse, SetPulse, PopPulse, ResetPulse, ClockPulse
          DEF Next, MainLoop

\* CheckPulseQueue sets a point to 0 doPulseMs_ after it went to 1 and not
\* before, with its own entry and readings of NowMs() the right way round.
THEOREM PulseWholeCorrect == Spec => PulseWhole
<1>1. Init => PulseInv
  BY DEF Init, PulseInv, Emptied, PulseTime, Point
<1>2. TypeInv /\ PulseInv /\ [Next]_vars => PulseInv'
  BY PulseStep
<1>3. TypeInv /\ PulseInv
        => (\A p \in DoPoint :
             (/\ Reset /\ p = Head(expired).point /\ value[p]
              /\ Head(expired).inTime /\ ~OtherPulse(p) /\ reloads = 0)
               => onAge[p] >= DoPulseMs)
  <2>. SUFFICES ASSUME TypeInv, PulseInv, NEW p \in DoPoint, Reset, p = Head(expired).point,
                       value[p], Head(expired).inTime, ~OtherPulse(p), reloads = 0
                PROVE  onAge[p] >= DoPulseMs
    OBVIOUS
  <2>1. expired \in Seq(Taken) /\ expired # <<>> /\ onAge[p] \in Nat
    BY Times DEF TypeInv, TypeOK, Reset, Taken
  <2>2. Len(expired) \in Nat \ {0} /\ Head(expired) = expired[1]
    BY <2>1, EmptySeq
  <2>3. Fresh(p)
    BY DEF PulseInv, PulseTime
  <2>4. PICK i \in 1 .. Len(expired) : FreshExpired(i, p)
    BY <2>3 DEF Fresh, OtherPulse, FreshThread, FreshQueued
  <2>5. i = 1
    BY <2>2, <2>4 DEF OtherPulse, FreshExpired
  <2>. QED  BY <2>1, <2>2, <2>4, <2>5, Times DEF FreshExpired
<1>. QED  BY <1>1, <1>2, <1>3, TypesInvariant, PTL DEF Spec, PulseWhole

=============================================================================
