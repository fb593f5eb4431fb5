------------------------- MODULE ModuleManagerProofs -------------------------
(* Safety of ModuleManager for every number of collectors, with or without  *)
(* console and redundancy, for every set of watched modules: its types, the *)
(* collectors follow the role, the program ends with nothing left running,  *)
(* and a bad file changes nothing.  The Start of any module in Failing may  *)
(* fail.                                                                    *)
EXTENDS ModuleManager, TLAPS

-----------------------------------------------------------------------------
(* Modules.                                                                 *)

\* The modules are numbered: collectors, console, redundancy.
LEMMA ModuleFacts ==
  /\ NumModules \in Nat \ {0} /\ NumModules >= NumCollectors
  /\ Collector \subseteq Module /\ Module \subseteq Nat \ {0}
  /\ NumModules \in Module /\ 1 \in Module
  /\ HasRole => Redundancy = NumModules /\ Redundancy \notin Collector
  /\ HasConsole => Console \in Module /\ Console \notin Collector
  /\ HasConsole /\ HasRole => Console < Redundancy
  /\ ~HasRole => Redundancy = 0
  /\ ~HasConsole => Console = 0
  /\ Console \notin Collector
<1>1. NumCollectors \in Nat \ {0} /\ HasConsole \in BOOLEAN /\ HasRole \in BOOLEAN
  BY ModuleAssumption
<1>2. /\ HasConsole /\ HasRole => NumModules = NumCollectors + 2
      /\ HasConsole /\ ~HasRole => NumModules = NumCollectors + 1
      /\ ~HasConsole /\ HasRole => NumModules = NumCollectors + 1
      /\ ~HasConsole /\ ~HasRole => NumModules = NumCollectors
  BY <1>1 DEF NumModules
<1>. HIDE DEF NumModules
<1>3. CASE HasConsole /\ HasRole
  BY <1>1, <1>2, <1>3 DEF Collector, Module, Console, Redundancy
<1>4. CASE HasConsole /\ ~HasRole
  BY <1>1, <1>2, <1>4 DEF Collector, Module, Console, Redundancy
<1>5. CASE ~HasConsole /\ HasRole
  BY <1>1, <1>2, <1>5 DEF Collector, Module, Console, Redundancy
<1>6. CASE ~HasConsole /\ ~HasRole
  BY <1>1, <1>2, <1>6 DEF Collector, Module, Console, Redundancy
<1>. QED  BY <1>1, <1>3, <1>4, <1>5, <1>6

(* Coarse time stamps are not ahead of the clock by more than their offset.  *)
LEMMA GetTimestampBound ==
  ASSUME NEW f, f.time \in Nat  PROVE GetTimestamp(f) \in 0 .. f.time + 1
<1>. DEFINE x == f.time
            g == Granularity
            q == x \div g
<1>1. g \in Nat \ {0}
  BY ClockAssumption
<1>. HIDE DEF g
<1>2. x \in Nat
  OBVIOUS
<1>. HIDE DEF x
<1>3. q \in Nat /\ q * g <= x
  BY <1>1, <1>2
<1>. HIDE DEF q
<1>4. q * g \in Nat
  BY <1>1, <1>3
<1>5. q * g + 1 \in 0 .. x + 1 /\ 0 \in 0 .. x + 1
  BY <1>2, <1>3, <1>4
<1>. QED  BY <1>5 DEF GetTimestamp, q, g, x

-----------------------------------------------------------------------------
(* Where the threads are.                                                   *)

(* The place in a call fits the call.                                       *)
Place(t) ==
  /\ at[t] \in {"lock", "unlock"} => op[t] \in {"StartModule", "StopModule"}
  /\ at[t] \in {"validate", "load"} => op[t] = "ReloadModule"
  /\ at[t] \in {"start", "doStart"} => op[t] \in {"StartModule", "ReloadModule", "StartAll"}
  /\ at[t] \in {"stop", "doStop", "join"} => op[t] \in {"StopModule", "ReloadModule", "StopAll"}
  /\ at[t] = "callback" => t = "role"
  /\ at[t] = "ended" => t = "watch"

(* What each thread calls, and about which module.                          *)
Callers ==
  /\ InCall("main") => op["main"] \in {"StartAll", "StopAll"} /\ on["main"] \in Module
  /\ InCall("watch") => op["watch"] = "ReloadModule" /\ on["watch"] \in Watched
  /\ at["role"] # "idle" =>
       /\ HasRole /\ op["role"] \in {"StartModule", "StopModule"}
       /\ on["role"] \in 0 .. NumCollectors
  /\ InCall("role") => on["role"] \in Collector
  /\ InCall("console") =>
       /\ HasConsole /\ on["console"] \in Targets
       /\ op["console"] \in {"StartModule", "StopModule", "ReloadModule"}

(* Progress of main.                                                        *)
MainPlace ==
  /\ on["main"] \in 1 .. NumModules + 1
  /\ phase \in {"loading", "stamping", "running", "freeing", "exited"} => at["main"] = "idle"
  /\ phase \in {"loading", "stamping", "starting", "freeing"} => on["main"] \in Module
  /\ phase = "starting" => op["main"] = "StartAll"
  /\ phase \in {"stopping", "destroying"} => op["main"] = "StopAll"

ControlInv == CallTypes /\ phase \in Phase /\ (\A t \in Thread : Place(t)) /\ Callers /\ MainPlace

(* A step inside a call moves one thread, and leaves what it is about.      *)
LEMMA CallFrame ==
  ASSUME ControlInv, NEW t \in Thread, CallStep(t)
  PROVE  /\ UNCHANGED <<op, on, disk, fileTimes, watching, linked>>
         /\ \A u \in Thread \ {t} : at'[u] = at[u]
         /\ InCall(t) /\ on[t] \in Module
         /\ phase' = phase \/ phase' = "crashed"
         /\ at' \in [Thread -> At] /\ Place(t)'
<1>t. at \in [Thread -> At] /\ Place(t)
  BY DEF ControlInv, CallTypes
<1>1. UNCHANGED <<op, on, disk, fileTimes, watching, linked>> /\ (phase' = phase \/ phase' = "crashed")
  BY DEF CallStep, Lock, Unlock, Start, DoStart, Stop, DoStop, Join, Crash, Validate, Load,
     calls, modules
<1>2. InCall(t)
  BY DEF CallStep, Lock, Unlock, Start, DoStart, Stop, DoStop, Join, Crash, Validate, Load, InCall
<1>3. on[t] \in Module
  BY <1>2, ModuleAssumption, ModuleFacts DEF ControlInv, Callers, Thread
<1>4. at' = at \/ \E a \in At : at' = [at EXCEPT ![t] = a]
  BY DEF CallStep, Lock, Unlock, Start, DoStart, Stop, DoStop, Join, Crash, Validate, Load,
     calls, Goto, AfterStart, AfterStop, At, InCall
<1>5. Place(t)'
  <2>1. CASE Lock(t)
    BY <1>t, <1>1, <2>1 DEF Lock, Goto, Place
  <2>2. CASE Unlock(t)
    BY <1>t, <1>1, <2>2 DEF Unlock, Goto, Place
  <2>3. CASE Start(t)
    BY <1>t, <1>1, <2>3 DEF Start, Goto, Place, AfterStart
  <2>4. CASE DoStart(t)
    BY <1>t, <1>1, <2>4 DEF DoStart, Goto, Place, AfterStart
  <2>5. CASE Stop(t)
    BY <1>t, <1>1, <2>5 DEF Stop, Goto, Place, AfterStop
  <2>6. CASE DoStop(t)
    BY <1>t, <1>1, <2>6 DEF DoStop, Goto, Place, AfterStop
  <2>7. CASE Join(t)
    BY <1>t, <1>1, <2>7 DEF Join, Goto, Place, AfterStop
  <2>8. CASE Crash(t)
    BY <1>t, <1>1, <2>8 DEF Crash, calls, Place
  <2>9. CASE Validate(t)
    BY <1>t, <1>1, <2>9 DEF Validate, Goto, Place
  <2>10. CASE Load(t)
    BY <1>t, <1>1, <2>10 DEF Load, Goto, Place
  <2>. QED  BY <2>1, <2>2, <2>3, <2>4, <2>5, <2>6, <2>7, <2>8, <2>9, <2>10 DEF CallStep
<1>. QED  BY <1>t, <1>1, <1>2, <1>3, <1>4, <1>5

\* Every step leaves every thread in a place that fits its call.
LEMMA ControlStep ==
  ASSUME ControlInv, running \in [Module -> BOOLEAN], [Next]_vars
  PROVE  ControlInv'
<1>t. /\ at \in [Thread -> At] /\ op \in [Thread -> Op] /\ on \in [Thread -> 0 .. NumModules + 1]
      /\ was \in [Thread -> BOOLEAN] /\ mgrMtx \in Thread \cup {Nobody} /\ phase \in Phase
      /\ session \in Session
      /\ (\A t \in Thread : Place(t)) /\ Callers /\ MainPlace
  BY DEF ControlInv, CallTypes
<1>m. /\ NumModules \in Nat \ {0} /\ NumCollectors \in Nat \ {0} /\ NumCollectors <= NumModules
      /\ Module = 1 .. NumModules /\ Collector = 1 .. NumCollectors
      /\ Watched \subseteq Module /\ Targets \subseteq Module
      /\ Thread = {"main", "watch", "role", "console"}
  BY ModuleFacts, ModuleAssumption DEF Module, Collector, Thread
<1>c. ASSUME NEW t \in Thread, CallStep(t)
      PROVE  ControlInv'
  <2>0. running[on[t]] \in BOOLEAN
    BY <1>c, CallFrame
  <2>1. /\ UNCHANGED <<op, on>> /\ \A u \in Thread \ {t} : at'[u] = at[u]
        /\ InCall(t) /\ (phase' = phase \/ phase' = "crashed") /\ at' \in [Thread -> At] /\ Place(t)'
    BY <1>c, CallFrame
  <2>2. /\ was' \in [Thread -> BOOLEAN] /\ mgrMtx' \in Thread \cup {Nobody}
        /\ session' \in Session
    <3>0. session' \in Session
      BY <1>c, <1>t DEF CallStep, Lock, Unlock, Start, DoStart, Stop, DoStop, Join, Crash, Validate,
         Load, calls, Session
    <3>1. mgrMtx' \in {mgrMtx, t, Nobody}
      BY <1>c DEF CallStep, Lock, Unlock, Start, DoStart, Stop, DoStop, Join, Crash, Validate, Load
    <3>2. was' \in [Thread -> BOOLEAN]
      <4>1. ASSUME was' # was
            PROVE  was' = [was EXCEPT ![t] = running[on[t]]] /\ running[on[t]] \in BOOLEAN
        BY <1>c, <4>1, <2>0 DEF CallStep, Lock, Unlock, Start, DoStart, Stop, DoStop, Join,
           Crash, Validate, Load, calls
      <4>. QED  BY <1>t, <4>1
    <3>. QED  BY <1>t, <3>0, <3>1, <3>2
  <2>3. \A u \in Thread : Place(u)'
    BY <1>t, <2>1 DEF Place
  <2>4. Callers'
    BY <1>t, <1>m, <2>1 DEF Callers, InCall
  <2>5. MainPlace'
    BY <1>t, <1>m, <2>1 DEF MainPlace, InCall
  <2>. QED  BY <1>t, <2>1, <2>2, <2>3, <2>4, <2>5 DEF ControlInv, CallTypes, Phase
(* A step of main. *)
<1>1. CASE MainStep \/ StopRequest
  <2>1. /\ was' = was /\ mgrMtx' = mgrMtx /\ session' = session /\ phase' \in Phase
        /\ \A u \in {"role", "console"} : at'[u] = at[u] /\ op'[u] = op[u] /\ on'[u] = on[u]
        /\ op'["watch"] = op["watch"] /\ on'["watch"] = on["watch"]
        /\ at'["watch"] = at["watch"] \/ at'["watch"] \in {"idle", "ended"}
    BY <1>t, <1>1, <1>m DEF MainStep, StopRequest, LoadConfig, RecordTimestamp, StartNext, LinkRedundancy,
       StopNext, Destroy, Free, Call, Goto, calls, Phase
  <2>2. at' \in [Thread -> At] /\ op' \in [Thread -> Op] /\ on' \in [Thread -> 0 .. NumModules + 1]
    BY <1>t, <1>1, <1>m DEF MainStep, StopRequest, LoadConfig, RecordTimestamp, StartNext, LinkRedundancy,
       StopNext, Destroy, Free, Call, Goto, calls, At, Op, MainPlace
  <2>3. /\ Place("main")' /\ (InCall("main") => op["main"] \in {"StartAll", "StopAll"} /\ on["main"] \in Module)'
        /\ MainPlace'
    <3>1. CASE LoadConfig
      BY <1>t, <1>m, <3>1 DEF LoadConfig, calls, Place, MainPlace, InCall
    <3>2. CASE RecordTimestamp
      BY <1>t, <1>m, <3>2 DEF RecordTimestamp, Call, Goto, Place, MainPlace, InCall
    <3>3. CASE StartNext
      BY <1>t, <1>m, <3>3 DEF StartNext, Call, Goto, Place, MainPlace, InCall
    <3>4. CASE LinkRedundancy
      BY <1>t, <1>m, <3>4 DEF LinkRedundancy, Place, MainPlace, InCall
    <3>5. CASE StopNext
      BY <1>t, <1>m, <3>5 DEF StopNext, Call, Goto, Place, MainPlace, InCall
    <3>6. CASE Destroy
      BY <1>t, <1>m, <3>6 DEF Destroy, Call, Goto, Place, MainPlace, InCall
    <3>7. CASE Free
      BY <1>t, <1>m, <3>7 DEF Free, Call, Goto, Place, MainPlace, InCall
    <3>8. CASE StopRequest
      BY <1>t, <1>m, <3>8 DEF StopRequest, Call, Goto, Place, MainPlace, InCall
    <3>. QED  BY <1>1, <3>1, <3>2, <3>3, <3>4, <3>5, <3>6, <3>7, <3>8 DEF MainStep
  <2>4. \A u \in Thread : Place(u)'
    BY <1>t, <1>m, <2>1, <2>3 DEF Place
  <2>5. Callers'
    BY <1>t, <2>1, <2>3 DEF Callers, InCall
  <2>. QED  BY <1>t, <2>1, <2>2, <2>3, <2>4, <2>5 DEF ControlInv, CallTypes
(* A step of another thread outside of its calls. *)
<1>2. CASE \/ CollectCallback \/ WatchEnd \/ (\E i \in Module : WatchScan(i))
           \/ (\E r \in {"Standby", "Master"} : ChangeRole(r))
           \/ \E i \in Module, o \in {"StartModule", "StopModule", "ReloadModule"} : Command(o, i)
  <2>1. /\ was' = was /\ mgrMtx' = mgrMtx /\ session' = session /\ phase' = phase
        /\ at'["main"] = at["main"] /\ op'["main"] = op["main"] /\ on'["main"] = on["main"]
    BY <1>t, <1>2, <1>m DEF CollectCallback, WatchEnd, WatchScan, ChangeRole, Command, Call, Goto
  <2>2. at' \in [Thread -> At] /\ op' \in [Thread -> Op] /\ on' \in [Thread -> 0 .. NumModules + 1]
    <3>1. CASE CollectCallback
      BY <1>t, <3>1, <1>m DEF CollectCallback, Call, Goto, At, Op, Callers
    <3>2. CASE WatchEnd \/ \E i \in Module : WatchScan(i)
      BY <1>t, <3>2, <1>m DEF WatchEnd, WatchScan, Call, Goto, At, Op
    <3>3. CASE \E r \in {"Standby", "Master"} : ChangeRole(r)
      BY <1>t, <3>3, <1>m DEF ChangeRole, Call, Goto, At, Op
    <3>4. CASE \E i \in Module, o \in {"StartModule", "StopModule", "ReloadModule"} : Command(o, i)
      BY <1>t, <3>4, <1>m DEF Command, Call, Goto, At, Op
    <3>. QED  BY <1>2, <3>1, <3>2, <3>3, <3>4
  <2>3. (\A u \in Thread : Place(u)') /\ Callers'
    <3>1. CASE CollectCallback
      BY <1>t, <3>1, <1>m DEF CollectCallback, Call, Goto, Place, Callers, InCall
    <3>2. CASE WatchEnd
      BY <1>t, <3>2, <1>m DEF WatchEnd, Goto, Place, Callers, InCall
    <3>3. ASSUME NEW i \in Module, WatchScan(i)
          PROVE  (\A u \in Thread : Place(u)') /\ Callers'
      BY <1>t, <3>3, <1>m DEF WatchScan, Call, Goto, Place, Callers, InCall
    <3>4. ASSUME NEW r \in {"Standby", "Master"}, ChangeRole(r)
          PROVE  (\A u \in Thread : Place(u)') /\ Callers'
      BY <1>t, <3>4, <1>m DEF ChangeRole, Call, Goto, Place, Callers, InCall
    <3>5. ASSUME NEW i \in Module, NEW o \in {"StartModule", "StopModule", "ReloadModule"}, Command(o, i)
          PROVE  (\A u \in Thread : Place(u)') /\ Callers'
      BY <1>t, <3>5, <1>m DEF Command, Call, Goto, Place, Callers, InCall
    <3>. QED  BY <1>2, <3>1, <3>2, <3>3, <3>4, <3>5
  <2>4. MainPlace'
    BY <1>t, <2>1 DEF MainPlace
  <2>. QED  BY <1>t, <2>1, <2>2, <2>3, <2>4 DEF ControlInv, CallTypes
<1>3. CASE Tick \/ (\E i \in Module, c \in Content : Save(i, c)) \/ Halted \/ UNCHANGED vars
  <2>1. UNCHANGED <<at, op, on, was, session, mgrMtx, phase>>
    BY <1>3 DEF Tick, Save, Halted, vars, calls
  <2>. QED  BY <1>t, <2>1 DEF ControlInv, CallTypes, Place, Callers, MainPlace, InCall
<1>. QED  BY <1>c, <1>1, <1>2, <1>3 DEF Next, Environment

\* A stopped module whose Start does not fail runs after Start.
LEMMA DoStartRuns ==
  ASSUME running \in [Module -> BOOLEAN], alive \in [Module -> BOOLEAN],
         NEW t, NEW i \in Module, DoStart(t), on[t] = i, ~alive[i], i \notin Failing
  PROVE  running'[i] = TRUE /\ alive'[i] = TRUE
<1>1. StartReturns(i) = {TRUE}
  BY DEF StartReturns
<1>2. running' = [running EXCEPT ![i] = TRUE] /\ alive' = [alive EXCEPT ![i] = alive[i] \/ TRUE]
  BY <1>1 DEF DoStart
<1>3. (alive[i] \/ TRUE) = TRUE
  OBVIOUS
<1>. QED  BY <1>2, <1>3

\* Stop clears running_ and leaves impl_->running to the join, except in a
\* console whose running_ is clear already.
LEMMA DoStopEffect ==
  ASSUME running \in [Module -> BOOLEAN], alive \in [Module -> BOOLEAN], at \in [Thread -> At],
         NEW t \in Thread, NEW i \in Module, DoStop(t), on[t] = i
  PROVE  /\ alive'[i] = FALSE
         /\ \A k \in Module \ {i} : running'[k] = running[k] /\ alive'[k] = alive[k]
         /\ i # Console \/ alive[i] => running'[i] = running[i] /\ at'[t] = "join"
         /\ i = Console /\ ~alive[i] => running'[i] = FALSE /\ at'[t] = AfterStop(t)
<1>. DEFINE over == i = Console /\ ~alive[i]
<1>1. /\ alive' = [alive EXCEPT ![i] = FALSE]
      /\ running' = [running EXCEPT ![i] = running[i] /\ ~over]
      /\ at' = [at EXCEPT ![t] = IF over THEN AfterStop(t) ELSE "join"]
  BY DEF DoStop, Goto
<1>2. running'[i] = (running[i] /\ ~over)
  BY <1>1
<1>3. CASE over
  BY <1>1, <1>2, <1>3
<1>4. CASE ~over
  BY <1>1, <1>2, <1>4
<1>. QED  BY <1>3, <1>4

-----------------------------------------------------------------------------
(* Types.                                                                   *)

TypeInv == TypeOK /\ ControlInv

\* The modules keep their types ...
LEMMA ModuleTypesStep ==
  ASSUME TypeInv, [Next]_vars
  PROVE  ModuleTypes'
<1>t. /\ running \in [Module -> BOOLEAN] /\ alive \in [Module -> BOOLEAN]
      /\ loaded \in [Module -> Config] /\ \A i \in Module : file[i].config \in Config
  BY DEF TypeInv, TypeOK, ModuleTypes, FileTypes
<1>1. ASSUME NEW t \in Thread, CallStep(t)
      PROVE  ModuleTypes'
  <2>1. on[t] \in Module
    BY <1>1, CallFrame DEF TypeInv
  <2>2. loaded' \in [Module -> Config]
    BY <1>t, <1>1, <2>1 DEF CallStep, Lock, Unlock, Start, DoStart, Stop, DoStop, Join, Crash,
       Validate, Load, modules
  <2>3. alive' \in [Module -> BOOLEAN]
    <3>1. CASE DoStart(t)
      <4>1. PICK started \in BOOLEAN : alive' = [alive EXCEPT ![on[t]] = alive[on[t]] \/ started]
        BY <3>1 DEF DoStart, StartReturns
      <4>. QED  BY <1>t, <4>1
    <3>2. CASE ~DoStart(t)
      BY <1>t, <1>1, <2>1, <3>2 DEF CallStep, Lock, Unlock, Start, Stop, DoStop, Join, Crash,
         Validate, Load, modules
    <3>. QED  BY <3>1, <3>2
  <2>4. running' \in [Module -> BOOLEAN]
    <3>1. CASE DoStart(t)
      <4>1. PICK started \in BOOLEAN : running' = [running EXCEPT ![on[t]] = started]
        BY <3>1 DEF DoStart, StartReturns
      <4>. QED  BY <1>t, <4>1
    <3>2. CASE ~DoStart(t)
      BY <1>t, <1>1, <3>2 DEF CallStep, Lock, Unlock, Start, Stop, DoStop, Join, Crash, Validate,
         Load, modules
    <3>. QED  BY <3>1, <3>2
  <2>. QED  BY <2>2, <2>3, <2>4 DEF ModuleTypes
<1>2. CASE LoadConfig \/ Free
  <2>1. phase \in {"loading", "freeing"}
    BY <1>2 DEF LoadConfig, Free
  <2>2. on["main"] \in Module
    BY <2>1 DEF TypeInv, ControlInv, MainPlace
  <2>. QED  BY <1>t, <1>2, <2>2 DEF LoadConfig, Free, ModuleTypes
<1>3. CASE UNCHANGED modules
  BY <1>t, <1>3 DEF ModuleTypes, modules
<1>4. CASE RecordTimestamp \/ StartNext \/ LinkRedundancy \/ StopNext \/ Destroy \/ CollectCallback
           \/ WatchEnd \/ (\E i \in Module : WatchScan(i)) \/ Environment \/ Halted \/ UNCHANGED vars
  BY <1>3, <1>4 DEF RecordTimestamp, StartNext, LinkRedundancy, StopNext, Destroy, CollectCallback,
     WatchEnd, WatchScan, Environment, StopRequest, Tick, ChangeRole, Command, Save, Halted, vars
<1>. HIDE DEF ModuleTypes
<1>. QED  BY <1>1, <1>2, <1>4 DEF Next, MainStep

\* ... the files and time stamps ...
LEMMA FileTypesStep ==
  ASSUME TypeInv, [Next]_vars
  PROVE  FileTypes'
<1>t. /\ file \in [Module -> [config : Config, time : 0 .. MaxTime]]
      /\ fileTimes \in [Module -> 0 .. MaxTime + 1] /\ clock \in 0 .. MaxTime /\ saves \in 0 .. MaxSaves
      /\ MaxTime \in Nat /\ MaxSaves \in Nat
  BY ClockAssumption DEF TypeInv, TypeOK, FileTypes
<1>g. ASSUME NEW i \in Module
      PROVE  GetTimestamp(file[i]) \in 0 .. MaxTime + 1
  <2>. DEFINE f == file[i]
  <2>1. f.time \in Nat /\ f.time <= MaxTime
    BY <1>t
  <2>. HIDE DEF f
  <2>2. GetTimestamp(f) \in 0 .. f.time + 1
    BY <2>1, GetTimestampBound
  <2>3. \A x \in 0 .. f.time + 1 : x \in 0 .. MaxTime + 1
    BY <1>t, <2>1
  <2>. QED  BY <2>2, <2>3 DEF f
<1>1. CASE RecordTimestamp
  <2>1. on["main"] \in Module
    BY <1>1 DEF RecordTimestamp, TypeInv, ControlInv, MainPlace
  <2>. QED  BY <1>t, <1>g, <1>1, <2>1 DEF RecordTimestamp, FileTypes, disk
<1>2. ASSUME NEW i \in Module, WatchScan(i)
      PROVE  FileTypes'
  BY <1>t, <1>g, <1>2 DEF WatchScan, FileTypes, disk
<1>3. ASSUME NEW i \in Module, NEW c \in Content, Save(i, c)
      PROVE  FileTypes'
  <2>1. saves + 1 \in 0 .. MaxSaves
    BY <1>t, <1>3 DEF Save
  <2>2. [config |-> [content |-> c, version |-> saves + 1], time |-> clock]
          \in [config : Config, time : 0 .. MaxTime]
    BY <1>t, <2>1 DEF Config
  <2>. QED  BY <1>t, <1>3, <2>1, <2>2 DEF Save, FileTypes
<1>4. CASE Tick
  BY <1>t, <1>4 DEF Tick, FileTypes
<1>5. ASSUME UNCHANGED <<disk, fileTimes>>
      PROVE  FileTypes'
  BY <1>t, <1>5 DEF FileTypes, disk
<1>6. ASSUME NEW t \in Thread, CallStep(t)
      PROVE  FileTypes'
  BY <1>5, <1>6, CallFrame DEF TypeInv
<1>7. CASE LoadConfig \/ Free \/ StartNext \/ LinkRedundancy \/ StopNext \/ Destroy \/ CollectCallback
           \/ WatchEnd \/ StopRequest \/ (\E r \in {"Standby", "Master"} : ChangeRole(r))
           \/ (\E i \in Module, o \in {"StartModule", "StopModule", "ReloadModule"} : Command(o, i))
           \/ Halted \/ UNCHANGED vars
  BY <1>5, <1>7 DEF LoadConfig, Free, StartNext, LinkRedundancy, StopNext, Destroy, CollectCallback,
     WatchEnd, StopRequest, ChangeRole, Command, Halted, vars
<1>. HIDE DEF FileTypes
<1>. QED  BY <1>1, <1>2, <1>3, <1>4, <1>6, <1>7 DEF Next, MainStep, Environment

\* ... and the manager.
LEMMA ManagerTypesStep ==
  ASSUME TypeInv, [Next]_vars
  PROVE  ManagerTypes'
<1>t. /\ phase \in Phase /\ watching \in BOOLEAN /\ linked \in BOOLEAN
      /\ role \in {"Idle", "Standby", "Master"} /\ running \in [Module -> BOOLEAN]
  BY DEF TypeInv, TypeOK, ManagerTypes, ModuleTypes
<1>1. phase' \in Phase
  BY ControlStep, <1>t DEF TypeInv, ControlInv
<1>2. role' \in {"Idle", "Standby", "Master"}
  BY <1>t DEF Next, CallStep, Lock, Unlock, Start, DoStart, Stop, DoStop, Join, Crash, Validate,
     Load, MainStep, LoadConfig, RecordTimestamp, StartNext, LinkRedundancy, StopNext, Destroy, Free,
     CollectCallback, WatchEnd, WatchScan, Environment, StopRequest, Tick, ChangeRole, Command, Save,
     Halted, vars
<1>3. CASE LinkRedundancy
  <2>1. (HasRole /\ running[NumModules]) \in BOOLEAN /\ (Watched # {}) \in BOOLEAN
    OBVIOUS
  <2>2. linked' \in BOOLEAN /\ watching' \in BOOLEAN
    BY <1>3, <2>1 DEF LinkRedundancy
  <2>. QED  BY <1>1, <1>2, <2>2 DEF ManagerTypes
<1>4. CASE ~LinkRedundancy
  <2>1. linked' = linked /\ watching' \in {watching, FALSE}
    BY <1>4 DEF Next, CallStep, Lock, Unlock, Start, DoStart, Stop, DoStop, Join, Crash, Validate,
       Load, MainStep, LoadConfig, RecordTimestamp, StartNext, StopNext, Destroy, Free,
       CollectCallback, WatchEnd, WatchScan, Environment, StopRequest, Tick, ChangeRole, Command, Save,
       Halted, vars
  <2>. QED  BY <1>t, <1>1, <1>2, <2>1 DEF ManagerTypes
<1>. QED  BY <1>3, <1>4

\* The types, with the places of the threads that they rest on.
THEOREM TypesInvariant == Spec => []TypeInv
<1>1. Init => TypeInv
  <2>. SUFFICES ASSUME Init  PROVE TypeInv
    OBVIOUS
  <2>m. 1 \in Module /\ NumModules \in Nat \ {0} /\ Module = 1 .. NumModules
    BY ModuleFacts DEF Module
  <2>1. /\ at \in [Thread -> At] /\ op \in [Thread -> Op] /\ was \in [Thread -> BOOLEAN]
        /\ mgrMtx \in Thread \cup {Nobody} /\ phase \in Phase
        /\ on \in [Thread -> 0 .. NumModules + 1]
        /\ session \in Session
    BY <2>m DEF Init, At, Op, Phase, Session
  <2>2. running \in [Module -> BOOLEAN] /\ alive \in [Module -> BOOLEAN]
    BY DEF Init
  <2>3. /\ [content |-> "good", version |-> 0] \in Config /\ 0 \in 0 .. MaxTime /\ 0 \in 0 .. MaxSaves
        /\ 0 \in 0 .. MaxTime + 1
    BY ClockAssumption DEF Config, Content
  <2>4. loaded \in [Module -> Config] /\ FileTypes
    BY <2>3 DEF Init, FileTypes
  <2>5. ManagerTypes
    BY <2>1 DEF Init, ManagerTypes
  <2>6. /\ \A t \in Thread : at[t] = (IF t = "watch" THEN "ended" ELSE "idle")
        /\ phase = "loading" /\ on["main"] = 1
    BY DEF Init, Thread
  <2>7. (\A t \in Thread : Place(t)) /\ Callers /\ MainPlace
    BY <2>m, <2>6 DEF Place, Callers, MainPlace, InCall, Thread
  <2>. QED  BY <2>1, <2>2, <2>4, <2>5, <2>7
            DEF TypeInv, TypeOK, ControlInv, CallTypes, ModuleTypes
<1>2. TypeInv /\ [Next]_vars => TypeInv'
  <2>. SUFFICES ASSUME TypeInv, [Next]_vars  PROVE TypeInv'
    OBVIOUS
  <2>1. ControlInv'
    BY ControlStep DEF TypeInv, TypeOK, ModuleTypes
  <2>. QED  BY <2>1, ModuleTypesStep, FileTypesStep, ManagerTypesStep DEF TypeInv, TypeOK, ControlInv
<1>. QED  BY <1>1, <1>2, PTL DEF Spec

(* Whatever the threads do, the variables of the module manager keep their  *)
(* types: no call is about a module that is not in modules_, and no time    *)
(* stamp is ahead of the clock.                                             *)
THEOREM TypeCorrect == Spec => []TypeOK
<1>1. TypeInv => TypeOK
  BY DEF TypeInv
<1>. QED  BY <1>1, TypesInvariant, PTL

-----------------------------------------------------------------------------
(* Collectors follow the role.                                              *)

(* Collectors that only StartAll and the role start or stop.                *)
Untouched == Collector \ (Watched \cup Targets \cup Failing)

(* The program has not been asked to stop.                                  *)
InService == phase \in {"loading", "stamping", "starting", "running"}

(* Before StartAll nothing runs.                                            *)
Early ==
  phase \in {"loading", "stamping"} =>
    /\ at["watch"] = "ended" /\ \A t \in Thread : ~InCall(t)
    /\ \A i \in Module : ~alive[i] /\ ~running[i]

(* startup_delay_ms: the role is taken when StartAll is over.               *)
Startup ==
  phase \in {"loading", "stamping", "starting"} => at["role"] = "idle" /\ role = "Idle"

(* impl_->running of a collector tells whether its threads run, except for  *)
(* the moment in which they are joined.                                     *)
Settled(i) ==
  /\ \A t \in {"main", "role"} : at[t] = "doStart" /\ on[t] = i => ~running[i]
  /\ at["role"] \in {"doStop", "join"} /\ on["role"] = i => running[i]
  /\ at["role"] = "join" /\ on["role"] = i => ~alive[i]
  /\ ~(at["role"] = "join" /\ on["role"] = i) => running[i] = alive[i]

(* collectCb_ is done with collector i.                                     *)
Passed(i) == i < on["role"] \/ (i = on["role"] /\ at["role"] \in {"unlock", "callback"})
CallbackDone ==
  phase = "running" /\ linked /\ at["role"] # "idle" =>
    \A i \in Untouched : Passed(i) => alive[i] = (op["role"] = "StartModule")

(* The callback does what the role asks for, and has done it at its end.    *)
Followed ==
  phase = "running" /\ linked /\ role # "Idle" =>
    IF at["role"] = "idle" THEN \A i \in Untouched : alive[i] = (role = "Master")
                           ELSE (op["role"] = "StartModule") = (role = "Master")

FollowInv ==
  InService => /\ Early /\ Startup /\ (\A i \in Untouched : Settled(i))
               /\ CallbackDone /\ Followed

\* A program that has not been asked to stop had not been before.
LEMMA InServiceBefore ==
  ASSUME [Next]_vars, InService'
  PROVE  InService /\ ~StopRequest /\ ~StopNext /\ ~Destroy /\ ~Free
BY DEF InService, Next, CallStep, Lock, Unlock, Start, DoStart, Stop, DoStop, Join, Crash,
   Validate, Load, MainStep, LoadConfig, RecordTimestamp, StartNext, LinkRedundancy, StopNext,
   Destroy, Free, CollectCallback, WatchEnd, WatchScan, Environment, StopRequest, Tick, ChangeRole,
   Command, Save, Halted, vars

(* Calls of WatchLoop and of the operator do not touch these collectors.    *)
LEMMA OthersFollowStep ==
  ASSUME TypeInv, InService, FollowInv, NEW t \in {"watch", "console"}, CallStep(t), InService'
  PROVE  FollowInv'
<1>1. /\ UNCHANGED <<op, on, linked>> /\ phase' = phase /\ InCall(t) /\ t \in Thread
      /\ at'["main"] = at["main"] /\ at'["role"] = at["role"]
  BY CallFrame DEF TypeInv, InService, Thread
<1>2. on[t] \notin Untouched /\ Untouched \subseteq Module
  BY <1>1, ModuleFacts DEF TypeInv, ControlInv, Callers, Untouched
<1>3. \A i \in Untouched : alive'[i] = alive[i] /\ running'[i] = running[i]
  BY <1>2 DEF TypeInv, TypeOK, ModuleTypes, CallStep, Lock, Unlock, Start, DoStart, Stop, DoStop, Join,
     Crash, Validate, Load, modules
<1>4. role' = role \/ role' = "Idle"
  BY DEF CallStep, Lock, Unlock, Start, DoStart, Stop, DoStop, Join, Crash, Validate, Load
<1>5. phase \notin {"loading", "stamping"}
  BY <1>1 DEF FollowInv, Early
<1>6. Early' /\ Startup'
  BY <1>1, <1>4, <1>5 DEF FollowInv, Early, Startup
<1>7. \A i \in Untouched : Settled(i)'
  BY <1>1, <1>3 DEF FollowInv, Settled
<1>8. CallbackDone'
  BY <1>1, <1>3 DEF FollowInv, CallbackDone, Passed
<1>9. Followed'
  BY <1>1, <1>3, <1>4 DEF FollowInv, Followed
<1>. QED  BY <1>6, <1>7, <1>8, <1>9 DEF FollowInv

(* StartAll, before there is a role.                                        *)
LEMMA MainFollowStep ==
  ASSUME TypeInv, InService, FollowInv, CallStep("main"), InService'
  PROVE  FollowInv'
<1>t. /\ running \in [Module -> BOOLEAN] /\ alive \in [Module -> BOOLEAN] /\ Place("main") /\ MainPlace
      /\ "main" \in Thread
  BY DEF TypeInv, TypeOK, ModuleTypes, ControlInv, Thread
<1>1. /\ UNCHANGED <<op, on, linked>> /\ phase' = phase /\ InCall("main")
      /\ at'["role"] = at["role"] /\ on["main"] \in Module
  BY <1>t, CallFrame DEF TypeInv, InService, Thread
<1>2. phase = "starting" /\ op["main"] = "StartAll"
  BY <1>t, <1>1 DEF MainPlace, InCall, InService
<1>3. at["role"] = "idle" /\ role = "Idle"
  BY <1>2 DEF FollowInv, Startup
<1>4. Start("main") \/ DoStart("main")
  BY <1>t, <1>1, <1>2 DEF CallStep, Place, Lock, Unlock, Stop, DoStop, Join, Crash, Validate, Load,
     InService
<1>5. Early' /\ Startup' /\ CallbackDone' /\ Followed'
  <2>1. role' = "Idle"
    BY <1>3, <1>4 DEF Start, DoStart
  <2>. QED  BY <1>1, <1>2, <1>3, <2>1 DEF Early, Startup, CallbackDone, Followed
<1>6. ASSUME NEW i \in Untouched
      PROVE  Settled(i)'
  <2>1. i \in Module /\ Settled(i) /\ running[i] = alive[i]
    BY <1>3, ModuleFacts DEF FollowInv, Untouched, Settled
  <2>2. at'["role"] = "idle" /\ (at'["main"] = "doStart" => Start("main") /\ ~running[on["main"]])
    <3>1. CASE Start("main")
      BY <1>t, <1>1, <1>2, <1>3, <3>1 DEF Start, Goto, AfterStart, TypeInv, TypeOK, CallTypes
    <3>2. CASE DoStart("main")
      BY <1>t, <1>1, <1>2, <1>3, <3>2 DEF DoStart, Goto, AfterStart, TypeInv, TypeOK, CallTypes
    <3>. QED  BY <1>4, <3>1, <3>2
  <2>3. CASE DoStart("main") /\ on["main"] = i
    <3>1. i \notin Failing
      BY DEF Untouched
    <3>2. at["main"] = "doStart" /\ ~running[i]
      BY <2>1, <2>3 DEF DoStart, Settled
    <3>3. running'[i] = TRUE /\ alive'[i] = TRUE
      BY <1>t, <2>1, <2>3, <3>1, <3>2, DoStartRuns
    <3>4. at'["main"] # "doStart"
      BY <2>3, <2>2, <1>t DEF Start, DoStart
    <3>. QED  BY <2>2, <3>3, <3>4 DEF Settled
  <2>4. CASE ~(DoStart("main") /\ on["main"] = i)
    <3>1. running'[i] = running[i] /\ alive'[i] = alive[i]
      BY <1>t, <1>4, <2>1, <2>4 DEF Start, DoStart, modules
    <3>. QED  BY <1>1, <2>1, <2>2, <3>1 DEF Settled
  <2>. QED  BY <2>3, <2>4
<1>. QED  BY <1>5, <1>6 DEF FollowInv

(* The redundancy manager's thread starts or stops one collector.           *)
LEMMA RoleFollowStep ==
  ASSUME TypeInv, InService, FollowInv, CallStep("role"), InService'
  PROVE  FollowInv'
<1>. DEFINE j == on["role"]
<1>t. /\ running \in [Module -> BOOLEAN] /\ alive \in [Module -> BOOLEAN] /\ Place("role")
      /\ "role" \in Thread /\ at \in [Thread -> At]
  BY DEF TypeInv, TypeOK, ModuleTypes, ControlInv, CallTypes, Thread
<1>1. /\ UNCHANGED <<op, on, linked>> /\ phase' = phase /\ InCall("role")
      /\ at'["main"] = at["main"] /\ at'["watch"] = at["watch"]
  BY <1>t, CallFrame DEF TypeInv, InService, Thread
<1>2. /\ j \in Collector /\ HasRole /\ op["role"] \in {"StartModule", "StopModule"}
      /\ j \in Module /\ j # Redundancy /\ j # Console /\ j \in Nat
      /\ Untouched \subseteq Module /\ Module \subseteq Nat
  BY <1>1, ModuleFacts DEF TypeInv, ControlInv, Callers, InCall, Untouched
<1>. HIDE DEF j
<1>3. phase = "running" /\ at["main"] = "idle"
  BY <1>1 DEF FollowInv, Startup, InCall, InService, TypeInv, ControlInv, MainPlace
<1>4. role' = role
  BY <1>2 DEF CallStep, Lock, Unlock, Start, DoStart, Stop, DoStop, Join, Crash, Validate, Load, j
<1>5. /\ at["role"] \in {"lock", "unlock", "start", "doStart", "stop", "doStop", "join"}
      /\ ~Crash("role") /\ ~Validate("role") /\ ~Load("role")
  BY <1>t, <1>1, <1>2 DEF Place, InCall, At, InService, Crash, Validate, Load
(* What becomes of collector j, and of the place of the thread. *)
<1>6. /\ \A i \in Module \ {j} : running'[i] = running[i] /\ alive'[i] = alive[i]
      /\ at'["role"] # "idle" /\ (at["role"] = "join" => at'["role"] = "unlock")
      /\ at'["role"] = "doStart" => ~running'[j] /\ running'[j] = running[j] /\ alive'[j] = alive[j]
      /\ at'["role"] = "doStop" => running'[j] /\ running'[j] = running[j] /\ alive'[j] = alive[j]
      /\ at'["role"] = "join" => running'[j] = running[j] /\ ~alive'[j] /\ at["role"] = "doStop"
      /\ at'["role"] = "callback" =>
           at["role"] = "unlock" /\ running'[j] = running[j] /\ alive'[j] = alive[j]
      /\ at'["role"] \in {"start", "stop"} => running'[j] = running[j] /\ alive'[j] = alive[j]
                                           /\ at["role"] = "lock"
      /\ at'["role"] \in {"doStart", "doStop", "join", "callback", "start", "stop", "unlock"}
  <2>1. CASE Lock("role")
    BY <1>t, <1>2, <2>1 DEF Lock, Goto, modules
  <2>2. CASE Unlock("role")
    BY <1>t, <1>2, <2>2 DEF Unlock, Goto, modules
  <2>3. CASE Start("role")
    BY <1>t, <1>2, <2>3 DEF Start, Goto, modules, AfterStart, Place, j
  <2>4. CASE DoStart("role")
    BY <1>t, <1>2, <2>4 DEF DoStart, Goto, AfterStart, Place, j
  <2>5. CASE Stop("role")
    BY <1>t, <1>2, <2>5 DEF Stop, Goto, modules, AfterStop, Place, j
  <2>6. CASE DoStop("role")
    BY <1>t, <1>2, <2>6, DoStopEffect DEF DoStop, j
  <2>7. CASE Join("role")
    BY <1>t, <1>2, <2>7 DEF Join, Goto, AfterStop, Place, j
  <2>. QED  BY <1>5, <2>1, <2>2, <2>3, <2>4, <2>5, <2>6, <2>7 DEF CallStep
(* The call is over: the collector is what the call asks for. *)
<1>7. ASSUME j \in Untouched, at'["role"] = "unlock"
      PROVE  running'[j] = alive'[j] /\ alive'[j] = (op["role"] = "StartModule")
  <2>s. Settled(j)
    BY <1>7 DEF FollowInv
  <2>1. CASE Start("role") \/ DoStart("role")
    <3>1. op["role"] = "StartModule"
      BY <1>t, <1>2, <2>1 DEF Start, DoStart, Place
    <3>2. running'[j] = TRUE /\ alive'[j] = TRUE
      <4>1. CASE Start("role")
        <5>1. running[j] /\ UNCHANGED <<running, alive>> /\ at["role"] = "start"
          BY <1>t, <1>7, <4>1 DEF Start, Goto, modules, j
        <5>2. running[j] = alive[j]
          BY <2>s, <5>1 DEF Settled
        <5>. QED  BY <1>t, <1>2, <5>1, <5>2
      <4>2. CASE DoStart("role")
        <5>1. on["role"] = j /\ at["role"] = "doStart" /\ j \notin Failing
          BY <1>7, <4>2 DEF DoStart, j, Untouched
        <5>2. ~alive[j]
          BY <2>s, <5>1 DEF Settled
        <5>. QED  BY <1>t, <1>2, <4>2, <5>1, <5>2, DoStartRuns
      <4>. QED  BY <2>1, <4>1, <4>2
    <3>. QED  BY <3>1, <3>2
  <2>2. CASE Stop("role") \/ Join("role")
    <3>1. op["role"] # "StartModule"
      BY <1>t, <1>2, <2>2 DEF Stop, Join, Place
    <3>2. running'[j] = FALSE /\ alive'[j] = FALSE
      <4>1. CASE Stop("role")
        <5>1. ~running[j] /\ UNCHANGED <<running, alive>> /\ at["role"] = "stop"
          BY <1>t, <1>7, <4>1 DEF Stop, Goto, modules, j
        <5>2. running[j] = alive[j]
          BY <2>s, <5>1 DEF Settled
        <5>. QED  BY <1>t, <1>2, <5>1, <5>2
      <4>2. CASE Join("role")
        <5>1. running'[j] = FALSE /\ alive' = alive /\ at["role"] = "join"
          BY <1>t, <1>2, <4>2 DEF Join, j
        <5>2. alive[j] = FALSE
          BY <1>t, <1>2, <2>s, <5>1 DEF Settled, j
        <5>. QED  BY <5>1, <5>2
      <4>. QED  BY <2>2, <4>1, <4>2
    <3>. QED  BY <3>1, <3>2
  <2>3. CASE DoStop("role")
    <3>1. at'["role"] = "join"
      BY <1>t, <1>2, <2>3, DoStopEffect DEF j
    <3>. QED  BY <1>7, <3>1
  <2>. QED  BY <1>5, <1>7, <1>t, <2>1, <2>2, <2>3 DEF CallStep, Lock, Unlock, Goto
<1>8. Early' /\ Startup'
  BY <1>1, <1>3 DEF Early, Startup
<1>9. ASSUME NEW i \in Untouched
      PROVE  Settled(i)'
  <2>1. Settled(i) /\ i \in Module
    BY <1>2 DEF FollowInv
  <2>2. CASE i # j
    BY <1>1, <1>2, <1>3, <1>6, <2>1, <2>2 DEF Settled, j
  <2>3. CASE i = j
    <3>1. at["role"] # "join" => running[j] = alive[j]
      BY <2>1, <2>3 DEF Settled
    <3>2. at["role"] = "doStop" => running[j]
      BY <2>1, <2>3 DEF Settled, j
    <3>3. at'["role"] # "join" => running'[j] = alive'[j]
      <4>1. CASE at'["role"] = "unlock"
        BY <1>7, <2>3, <4>1
      <4>2. ASSUME at'["role"] \notin {"unlock", "join"}
            PROVE  running'[j] = running[j] /\ alive'[j] = alive[j] /\ at["role"] # "join"
        BY <1>6, <4>2
      <4>. QED  BY <3>1, <4>1, <4>2
    <3>4. /\ at'["role"] = "doStart" => ~running'[j]
          /\ at'["role"] \in {"doStop", "join"} => running'[j]
          /\ at'["role"] = "join" => ~alive'[j]
      BY <1>6, <3>2
    <3>. QED  BY <1>1, <1>3, <2>3, <3>3, <3>4 DEF Settled, j
  <2>. QED  BY <2>2, <2>3
<1>10. CallbackDone'
  <2>. SUFFICES ASSUME linked, NEW i \in Untouched, Passed(i)'
                PROVE  alive'[i] = (op["role"] = "StartModule")
    BY <1>1 DEF CallbackDone
  <2>1. \A k \in Untouched : Passed(k) => alive[k] = (op["role"] = "StartModule")
    BY <1>1, <1>3 DEF FollowInv, CallbackDone, InCall
  <2>2. CASE i # j
    <3>1. Passed(i)
      BY <1>1, <2>2 DEF Passed, j
    <3>. QED  BY <1>2, <1>6, <2>1, <2>2, <3>1
  <2>3. CASE i = j
    <3>1. at'["role"] \in {"unlock", "callback"}
      BY <1>1, <1>2, <2>3 DEF Passed, j
    <3>2. CASE at'["role"] = "callback"
      <4>1. at["role"] = "unlock" /\ alive'[j] = alive[j]
        BY <1>6, <3>2
      <4>2. Passed(j)
        BY <4>1 DEF Passed, j
      <4>. QED  BY <2>1, <2>3, <4>1, <4>2
    <3>. QED  BY <1>7, <2>3, <3>1, <3>2
  <2>. QED  BY <2>2, <2>3
<1>11. Followed'
  BY <1>1, <1>3, <1>4, <1>6 DEF FollowInv, Followed, InCall
<1>. QED  BY <1>8, <1>9, <1>10, <1>11 DEF FollowInv

\* Every step keeps FollowInv, given that StartAll is over by the time a role is taken.
LEMMA FollowStep ==
  ASSUME HasRole => DelayCovers, TypeInv, FollowInv, [Next]_vars
  PROVE  FollowInv'
<1>. SUFFICES ASSUME InService'  PROVE FollowInv'
  BY DEF FollowInv
<1>s. InService /\ ~StopRequest /\ ~StopNext /\ ~Destroy /\ ~Free
  BY InServiceBefore
<1>t. /\ at \in [Thread -> At] /\ op \in [Thread -> Op] /\ on \in [Thread -> 0 .. NumModules + 1]
      /\ Thread = {"main", "watch", "role", "console"} /\ MainPlace /\ Callers
  BY DEF TypeInv, ControlInv, CallTypes, Thread
<1>f. /\ Early /\ Startup /\ (\A i \in Untouched : Settled(i)) /\ CallbackDone /\ Followed
  BY <1>s DEF FollowInv
<1>m. /\ Untouched \subseteq Collector /\ Collector = 1 .. NumCollectors /\ Collector \subseteq Module
      /\ NumCollectors \in Nat \ {0}
      /\ (HasRole => Redundancy \in Module) /\ (HasConsole => Console \in Module)
  BY ModuleFacts, ModuleAssumption DEF Untouched, Collector
<1>c. ASSUME NEW t \in Thread, CallStep(t)
      PROVE  FollowInv'
  BY <1>c, <1>s, <1>t, OthersFollowStep, MainFollowStep, RoleFollowStep
<1>1. CASE LoadConfig \/ RecordTimestamp \/ StartNext
  <2>1. /\ UNCHANGED <<running, alive, role, linked>> /\ phase \in {"loading", "stamping", "starting"}
        /\ phase' \in {"loading", "stamping", "starting"} /\ at["main"] = "idle"
        /\ phase' \in {"loading", "stamping"} => phase \in {"loading", "stamping"} /\ at'["main"] = "idle"
    BY <1>t, <1>1 DEF LoadConfig, RecordTimestamp, StartNext, Call, Goto, MainPlace, calls, modules
  <2>2. /\ \A u \in Thread \ {"main"} : at'[u] = at[u]
        /\ at'["main"] \in {"idle", "start"}
    BY <1>t, <1>1, <2>1 DEF LoadConfig, RecordTimestamp, StartNext, Call, Goto, calls
  <2>3. at["role"] = "idle" /\ role = "Idle"
    BY <1>f, <2>1 DEF Startup
  <2>4. Early' /\ Startup'
    BY <1>t, <1>f, <2>1, <2>2, <2>3 DEF Early, Startup, InCall
  <2>5. \A i \in Untouched : Settled(i)'
    BY <1>t, <1>f, <2>1, <2>2, <2>3 DEF Settled
  <2>6. CallbackDone' /\ Followed'
    BY <2>1 DEF CallbackDone, Followed
  <2>. QED  BY <2>4, <2>5, <2>6 DEF FollowInv
<1>2. CASE LinkRedundancy
  <2>1. /\ UNCHANGED <<running, alive, role, op, on>> /\ phase = "starting" /\ phase' = "running"
        /\ at'["main"] = at["main"] /\ at'["role"] = at["role"]
    BY <1>t, <1>2 DEF LinkRedundancy, modules
  <2>2. at["role"] = "idle" /\ role = "Idle"
    BY <1>f, <2>1 DEF Startup
  <2>. QED  BY <1>f, <2>1, <2>2 DEF FollowInv, Early, Startup, Settled, CallbackDone, Followed
<1>3. CASE WatchEnd \/ \E i \in Module : WatchScan(i)
  <2>1. UNCHANGED <<phase, running, alive, role, linked>> /\ at["watch"] = "idle"
        /\ \A u \in Thread \ {"watch"} : at'[u] = at[u] /\ op'[u] = op[u] /\ on'[u] = on[u]
    BY <1>t, <1>3 DEF WatchEnd, WatchScan, Call, Goto, modules
  <2>2. phase \notin {"loading", "stamping"}
    BY <1>f, <2>1 DEF Early
  <2>. QED  BY <1>t, <1>f, <2>1, <2>2
            DEF FollowInv, Early, Startup, Settled, CallbackDone, Passed, Followed
<1>4. ASSUME NEW i \in Module, NEW o \in {"StartModule", "StopModule", "ReloadModule"}, Command(o, i)
      PROVE  FollowInv'
  <2>1. UNCHANGED <<phase, running, alive, role, linked>> /\ alive[Console] /\ HasConsole
        /\ \A u \in Thread \ {"console"} : at'[u] = at[u] /\ op'[u] = op[u] /\ on'[u] = on[u]
    BY <1>t, <1>4 DEF Command, Call, Goto, modules
  <2>2. phase \notin {"loading", "stamping"}
    BY <1>f, <1>m, <2>1 DEF Early
  <2>. QED  BY <1>t, <1>f, <2>1, <2>2
            DEF FollowInv, Early, Startup, Settled, CallbackDone, Passed, Followed
(* A new role: the callback begins. *)
<1>5. ASSUME NEW r \in {"Standby", "Master"}, ChangeRole(r)
      PROVE  FollowInv'
  <2>1. /\ UNCHANGED <<phase, running, alive, linked>> /\ role' = r /\ alive[Redundancy] /\ HasRole
        /\ at["role"] = "idle" /\ at'["role"] = "callback" /\ at'["main"] = at["main"]
        /\ on'["main"] = on["main"] /\ on'["role"] = 0
        /\ op'["role"] = (IF r = "Master" THEN "StartModule" ELSE "StopModule")
    BY <1>t, <1>5 DEF ChangeRole, Call, Goto, modules
  <2>2. phase = "running"
    BY <1>5, <1>s, <1>f, <1>m, <2>1 DEF Early, InService, ChangeRole
  <2>3. Early' /\ Startup'
    BY <2>1, <2>2 DEF Early, Startup
  <2>4. \A i \in Untouched : Settled(i)'
    BY <1>f, <2>1 DEF Settled
  <2>5. \A i \in Untouched : ~Passed(i)'
    BY <1>m, <2>1 DEF Passed
  <2>6. (op["role"] = "StartModule")' = (role = "Master")' /\ at'["role"] # "idle"
    BY <2>1
  <2>. QED  BY <2>3, <2>4, <2>5, <2>6 DEF FollowInv, CallbackDone, Followed
(* The callback goes on to the next collector, or ends. *)
<1>6. CASE CollectCallback
  <2>1. /\ UNCHANGED <<phase, running, alive, linked, role>> /\ at["role"] = "callback"
        /\ at'["main"] = at["main"] /\ on'["main"] = on["main"]
    BY <1>t, <1>6 DEF CollectCallback, Call, Goto, modules
  <2>2. /\ phase = "running" /\ on["role"] \in 0 .. NumCollectors
        /\ \A i \in Untouched : running[i] = alive[i]
    BY <1>s, <1>t, <1>f, <2>1 DEF Startup, InService, Callers, Settled
  <2>3. Early' /\ Startup'
    BY <2>1, <2>2 DEF Early, Startup
  <2>4. CASE linked /\ on["role"] < NumCollectors
    <3>1. at'["role"] = "lock" /\ op'["role"] = op["role"] /\ on'["role"] = on["role"] + 1
      BY <1>t, <1>6, <2>4 DEF CollectCallback, Call, Goto
    <3>2. \A i \in Untouched : Passed(i)' => Passed(i)
      BY <1>m, <2>1, <2>2, <3>1 DEF Passed
    <3>3. \A i \in Untouched : Settled(i)'
      BY <1>f, <2>1, <2>2, <3>1 DEF Settled
    <3>4. CallbackDone' /\ Followed'
      BY <1>f, <2>1, <2>2, <3>1, <3>2 DEF CallbackDone, Followed
    <3>. QED  BY <2>3, <3>3, <3>4 DEF FollowInv
  <2>5. CASE ~(linked /\ on["role"] < NumCollectors)
    <3>1. at'["role"] = "idle"
      BY <1>t, <1>6, <2>5 DEF CollectCallback, Call, Goto
    <3>2. linked => \A i \in Untouched : Passed(i)
      BY <1>m, <2>1, <2>2, <2>5 DEF Passed
    <3>3. \A i \in Untouched : Settled(i)'
      BY <1>f, <2>1, <2>2, <3>1 DEF Settled
    <3>4. ASSUME linked, role # "Idle", NEW i \in Untouched
          PROVE  alive[i] = (role = "Master")
      BY <1>f, <2>1, <2>2, <3>2, <3>4 DEF CallbackDone, Followed
    <3>5. CallbackDone' /\ Followed'
      BY <2>1, <3>1, <3>4 DEF CallbackDone, Followed
    <3>. QED  BY <2>3, <3>3, <3>5 DEF FollowInv
  <2>. QED  BY <2>4, <2>5
<1>7. CASE Tick \/ (\E i \in Module, c \in Content : Save(i, c)) \/ Halted \/ UNCHANGED vars
  <2>1. UNCHANGED <<phase, running, alive, role, linked, at, op, on>>
    BY <1>7 DEF Tick, Save, Halted, vars, calls, modules
  <2>. QED  BY <1>f, <2>1
            DEF FollowInv, Early, Startup, Settled, CallbackDone, Passed, Followed, InCall
<1>. HIDE DEF FollowInv
<1>. QED  BY <1>s, <1>c, <1>1, <1>2, <1>3, <1>4, <1>5, <1>6, <1>7 DEF Next, MainStep, Environment

(* collectCb_ (main.cxx: the role switch manages the collectors), for every *)
(* number of them: while no switch is under way a Master runs and a Standby *)
(* has stopped each collector that neither a reload nor the operator        *)
(* touches and whose Start does not fail.  startup_delay_ms must outlast    *)
(* StartAll: a role that is taken before collectCb_ is set reaches no       *)
(* collector.                                                               *)
THEOREM FollowRoleCorrect ==
  ASSUME HasRole => DelayCovers
  PROVE  Spec => []CollectorsFollowRole
<1>1. Init => FollowInv
  <2>. SUFFICES ASSUME Init  PROVE FollowInv
    OBVIOUS
  <2>1. /\ phase = "loading" /\ role = "Idle" /\ linked = FALSE
        /\ \A i \in Module : running[i] = FALSE /\ alive[i] = FALSE
        /\ \A t \in Thread : at[t] = (IF t = "watch" THEN "ended" ELSE "idle")
    BY DEF Init
  <2>2. Untouched \subseteq Module
    BY ModuleFacts DEF Untouched
  <2>. QED  BY <2>1, <2>2 DEF FollowInv, Early, Startup, Settled, CallbackDone, Followed, InCall, Thread
<1>2. TypeInv /\ FollowInv /\ [Next]_vars => FollowInv'
  BY FollowStep
<1>3. FollowInv => CollectorsFollowRole
  BY DEF FollowInv, InService, Followed, CollectorsFollowRole, Untouched
<1>. QED  BY <1>1, <1>2, <1>3, TypesInvariant, PTL DEF Spec

-----------------------------------------------------------------------------
(* The end of the program.                                                  *)

(* The modules whose own threads enter the manager.                         *)
Entering == {m \in {Console, Redundancy} : m # 0}
Owner(m) == IF m = Redundancy THEN "role" ELSE "console"

(* While such a module is stopped its thread is outside of the manager, and *)
(* only main and WatchLoop, at most one of them at a time, start or stop it: *)
(* a session has not come to the Stop of its own console.                   *)
Sound(m) ==
  /\ alive[m] => running[m]
  /\ running[m] /\ ~alive[m] => \E t \in {"main", "watch"} : on[t] = m /\ at[t] = "join"
  /\ ~running[m] => at[Owner(m)] = "idle"
  /\ on[Owner(m)] = m => at[Owner(m)] \notin {"doStart", "join", "load"}
  /\ \A t \in {"main", "watch"} : on[t] = m =>
       /\ at[t] = "doStart" => ~running[m]
       /\ at[t] = "doStop" => alive[m]
       /\ at[t] = "join" => ~alive[m]

(* WatchLoop runs neither during StartAll nor during StopAll.               *)
WatchApart ==
  \/ at["watch"] = "ended"
  \/ phase \in {"running", "crashed"}
  \/ phase = "stopping" /\ on["main"] = NumModules + 1 /\ at["main"] = "idle"

(* StopAll has been at module m, and it stays stopped.                      *)
StoppedOnce(m) ==
  \/ phase \in {"destroying", "freeing", "exited"}
  \/ phase = "stopping" /\ (on["main"] < m \/ (on["main"] = m /\ at["main"] = "idle"))
Stopped == \A m \in Entering : StoppedOnce(m) => ~running[m]

(* The destructors have been at the modules before this one.                *)
Freed ==
  /\ phase = "freeing" => \A i \in Module : i < on["main"] => ~alive[i]
  /\ phase = "exited" => \A i \in Module : ~alive[i]

(* mgrMtx_ is held by a thread that is in a call under it.                  *)
Holder ==
  mgrMtx # Nobody =>
    /\ mgrMtx \in {"role", "console"} /\ InCall(mgrMtx)
    /\ op[mgrMtx] \in {"StartModule", "StopModule"}

ShutdownParts == (\A m \in Entering : Sound(m)) /\ WatchApart /\ Stopped /\ Freed

(* After a session has stopped its own console nothing is promised.         *)
ShutdownInv == Holder /\ (session = "attached" => ShutdownParts)

(* The console and the redundancy manager are no collectors, the operator   *)
(* does not name the latter, and Join waits for their threads.              *)
LEMMA EnteringFacts ==
  ASSUME Redundancy \notin Targets, session = "attached"
  PROVE  \A m \in Entering :
           /\ m \in Module /\ m \in 1 .. NumModules /\ m \notin Collector
           /\ Owner(m) \in {"role", "console"} /\ (Joinable(m) => at[Owner(m)] = "idle")
           /\ m = Redundancy => HasRole /\ Owner(m) = "role" /\ m \notin Targets
           /\ m # Redundancy => m = Console /\ HasConsole /\ Owner(m) = "console"
<1>. SUFFICES ASSUME NEW m \in Entering
              PROVE  /\ m \in Module /\ m \in 1 .. NumModules /\ m \notin Collector
                     /\ Owner(m) \in {"role", "console"} /\ (Joinable(m) => at[Owner(m)] = "idle")
                     /\ m = Redundancy => HasRole /\ Owner(m) = "role" /\ m \notin Targets
                     /\ m # Redundancy => m = Console /\ HasConsole /\ Owner(m) = "console"
  OBVIOUS
<1>1. CASE m = Redundancy
  <2>1. m # 0
    BY DEF Entering
  <2>2. HasRole
    BY <1>1, <2>1, ModuleFacts
  <2>. QED  BY <1>1, <2>2, ModuleFacts DEF Owner, Joinable, Module
<1>2. CASE m # Redundancy
  <2>1. m = Console /\ m # 0
    BY <1>2 DEF Entering
  <2>2. HasConsole
    BY <2>1, ModuleFacts
  <2>. QED  BY <1>2, <2>1, <2>2, ModuleFacts, ModuleAssumption DEF Owner, Joinable, Module
<1>. QED  BY <1>1, <1>2

(* Main and WatchLoop are never in a call at the same time, and once the    *)
(* modules are being freed nobody is in one.                                *)
LEMMA Apart ==
  ASSUME TypeInv, ShutdownInv, session = "attached", phase # "crashed"
  PROVE  /\ ~(InCall("main") /\ InCall("watch"))
         /\ phase \in {"freeing", "exited"} =>
              at["main"] = "idle" /\ at["watch"] = "ended" /\ at["role"] = "idle" /\ at["console"] = "idle"
<1>1. MainPlace /\ Callers /\ (\A t \in Thread : Place(t)) /\ WatchApart
  BY DEF TypeInv, ControlInv, ShutdownInv, ShutdownParts
<1>2. ~(InCall("main") /\ InCall("watch"))
  BY <1>1 DEF WatchApart, MainPlace, InCall
<1>3. ASSUME phase \in {"freeing", "exited"}
      PROVE  at["role"] = "idle" /\ at["console"] = "idle"
  <2>1. \A m \in Entering : at[Owner(m)] = "idle"
    BY <1>3 DEF ShutdownInv, ShutdownParts, Stopped, StoppedOnce, Sound
  <2>2. at["role"] = "idle"
    BY <1>1, <2>1, ModuleFacts DEF Callers, Entering, Owner
  <2>3. HasConsole => at["console"] = "idle"
    <3>1. ASSUME HasConsole  PROVE Console \in Entering /\ Console # Redundancy
      BY <3>1, ModuleFacts, ModuleAssumption DEF Entering
    <3>. QED  BY <2>1, <3>1 DEF Owner
  <2>4. ~HasConsole => at["console"] = "idle"
    BY <1>1 DEF Callers, InCall, Place, Thread
  <2>. QED  BY <2>2, <2>3, <2>4
<1>. QED  BY <1>1, <1>2, <1>3 DEF MainPlace, WatchApart

(* A step of a call: what becomes of such a module.                         *)
LEMMA CallSoundStep ==
  ASSUME Redundancy \notin Targets, TypeInv, ShutdownInv, phase # "crashed",
         session = "attached", session' = "attached",
         NEW t \in Thread, CallStep(t), NEW m \in Entering
  PROVE  /\ Sound(m)'
         /\ running'[m] /\ ~running[m] => t \in {"main", "watch"} /\ at[t] = "doStart" /\ on[t] = m
<1>t. /\ running \in [Module -> BOOLEAN] /\ alive \in [Module -> BOOLEAN] /\ at \in [Thread -> At]
      /\ Place(t) /\ Sound(m) /\ Thread = {"main", "watch", "role", "console"}
  BY DEF TypeInv, TypeOK, ModuleTypes, CallTypes, ControlInv, ShutdownInv, ShutdownParts, Thread
<1>m. /\ m \in Module /\ m \notin Collector /\ Owner(m) \in {"role", "console"}
      /\ Joinable(m) => at[Owner(m)] = "idle"
      /\ m = Redundancy => Owner(m) = "role" /\ m \notin Targets
      /\ m # Redundancy => m = Console /\ Owner(m) = "console"
  BY EnteringFacts
<1>1. /\ UNCHANGED <<op, on>> /\ InCall(t) /\ \A u \in Thread \ {t} : at'[u] = at[u]
  BY CallFrame DEF TypeInv
<1>2. t \in {"role", "console"} /\ on[t] = m => t = "console" /\ m = Console /\ Owner(m) = "console"
  BY <1>m, <1>1 DEF TypeInv, ControlInv, Callers
<1>3. CASE on[t] # m
  <2>1. running'[m] = running[m] /\ alive'[m] = alive[m]
    BY <1>t, <1>m, <1>3 DEF CallStep, Lock, Unlock, Start, DoStart, Stop, DoStop, Join, Crash,
       Validate, Load, modules
  <2>2. ~running[m] => at'[Owner(m)] = "idle"
    BY <1>t, <1>m, <1>1 DEF Sound, InCall
  <2>3. \A u \in {"main", "watch", Owner(m)} : on'[u] = m => at'[u] = at[u] /\ on'[u] = on[u]
    BY <1>t, <1>m, <1>1, <1>3
  <2>4. \A u \in {"main", "watch"} : on[u] = m => at'[u] = at[u] /\ on'[u] = on[u]
    BY <1>t, <1>1, <1>3
  <2>. QED  BY <1>t, <1>1, <2>1, <2>2, <2>3, <2>4 DEF Sound
(* A session that names its own console: the console runs. *)
<1>4. CASE on[t] = m /\ t \in {"role", "console"}
  <2>1. /\ t = "console" /\ m = Console /\ Owner(m) = t
        /\ running[m] /\ at[t] \notin {"doStart", "join", "load"}
    BY <1>t, <1>1, <1>2, <1>4 DEF Sound, InCall
  <2>2. ~DoStop(t)
    <3>1. ASSUME DoStop(t)  PROVE session' # "attached"
      BY <1>4, <2>1, <3>1 DEF DoStop
    <3>. QED  BY <3>1
  <2>3. UNCHANGED <<running, alive>> /\ at'[t] \notin {"doStart", "join", "load"}
    BY <1>t, <1>4, <2>1, <2>2 DEF CallStep, Lock, Unlock, Start, DoStart, Stop, Join, Crash, Validate,
       Load, modules, calls, Goto, AfterStart
  <2>4. \A u \in {"main", "watch"} : at'[u] = at[u]
    BY <1>t, <1>1, <2>1
  <2>. QED  BY <1>t, <1>1, <2>1, <2>3, <2>4 DEF Sound
<1>5. CASE on[t] = m /\ t \in {"main", "watch"}
  <2>1. \A u \in {"main", "watch"} \ {t} : at[u] \notin {"doStart", "doStop", "join"} /\ at'[u] = at[u]
    BY <1>t, <1>1, <1>5, Apart DEF InCall
  <2>2. at'[Owner(m)] = at[Owner(m)]
    BY <1>t, <1>m, <1>1, <1>5
  <2>3. /\ alive[m] => running[m]
        /\ running[m] /\ ~alive[m] => at[t] = "join"
        /\ ~running[m] => at[Owner(m)] = "idle"
        /\ at[t] = "doStart" => ~running[m]
        /\ at[t] = "doStop" => alive[m]
        /\ at[t] = "join" => ~alive[m]
    BY <1>t, <1>5, <2>1 DEF Sound
  <2>4. /\ alive'[m] => running'[m]
        /\ running'[m] /\ ~alive'[m] => at'[t] = "join"
        /\ ~running'[m] => at[Owner(m)] = "idle"
        /\ at'[t] = "doStart" => ~running'[m]
        /\ at'[t] = "doStop" => alive'[m]
        /\ at'[t] = "join" => ~alive'[m]
        /\ running'[m] /\ ~running[m] => at[t] = "doStart"
    <3>1. CASE Lock(t) \/ Unlock(t)
      BY <1>t, <2>3, <3>1 DEF Lock, Unlock, modules, Goto
    <3>2. CASE Start(t)
      BY <1>t, <1>5, <2>3, <3>2 DEF Start, modules, Goto, AfterStart
    <3>3. CASE DoStart(t)
      <4>1. ~alive[m] /\ at[t] = "doStart" /\ at[Owner(m)] = "idle"
        BY <2>3, <3>3 DEF DoStart
      <4>2. PICK started \in BOOLEAN : /\ running' = [running EXCEPT ![m] = started]
                                       /\ alive' = [alive EXCEPT ![m] = alive[m] \/ started]
        BY <1>5, <3>3 DEF DoStart, StartReturns
      <4>3. running'[m] = started /\ alive'[m] = (alive[m] \/ started)
        BY <1>t, <1>m, <4>2
      <4>4. at'[t] \in {"unlock", "idle"}
        BY <1>t, <3>3 DEF DoStart, Goto, AfterStart
      <4>. QED  BY <4>1, <4>3, <4>4
    <3>4. CASE Stop(t)
      BY <1>t, <1>5, <2>3, <3>4 DEF Stop, modules, Goto, AfterStop
    <3>5. CASE DoStop(t)
      <4>1. at[t] = "doStop" /\ alive[m] /\ running[m]
        BY <2>3, <3>5 DEF DoStop
      <4>2. alive'[m] = FALSE /\ running'[m] = running[m] /\ at'[t] = "join"
        BY <1>t, <1>m, <1>5, <3>5, <4>1, DoStopEffect
      <4>. QED  BY <4>1, <4>2
    <3>6. CASE Join(t)
      <4>1. running'[m] = FALSE /\ alive' = alive /\ at[t] = "join" /\ Joinable(m)
            /\ at'[t] \in {"unlock", "load", "idle"}
        BY <1>t, <1>m, <1>5, <3>6 DEF Join, Goto, AfterStop
      <4>. QED  BY <1>m, <2>3, <4>1
    <3>7. CASE Crash(t)
      BY <2>3, <3>7 DEF Crash, modules, calls
    <3>8. CASE Validate(t) \/ Load(t)
      BY <1>t, <2>3, <3>8 DEF Validate, Load, modules, Goto
    <3>. QED  BY <3>1, <3>2, <3>3, <3>4, <3>5, <3>6, <3>7, <3>8 DEF CallStep
  <2>5. on[Owner(m)] = m => at[Owner(m)] \notin {"doStart", "join", "load"}
    BY <1>t DEF Sound
  <2>. QED  BY <1>1, <1>5, <2>1, <2>2, <2>4, <2>5 DEF Sound
<1>. QED  BY <1>t, <1>3, <1>4, <1>5

(* mgrMtx_ and its holder.                                                  *)
LEMMA HolderStep ==
  ASSUME TypeInv, ShutdownInv, [Next]_vars
  PROVE  Holder'
<1>t. /\ at \in [Thread -> At] /\ op \in [Thread -> Op] /\ on \in [Thread -> 0 .. NumModules + 1]
      /\ Holder /\ Callers /\ (\A t \in Thread : Place(t))
      /\ Thread = {"main", "watch", "role", "console"} /\ mgrMtx \in Thread \cup {Nobody}
  BY DEF TypeInv, TypeOK, CallTypes, ControlInv, ShutdownInv, Thread
<1>n. Nobody \notin Thread
  BY DEF Nobody, Thread
<1>c. ASSUME NEW t \in Thread, CallStep(t)
      PROVE  Holder'
  <2>1. /\ UNCHANGED <<op, on>> /\ InCall(t) /\ \A u \in Thread \ {t} : at'[u] = at[u]
    BY <1>c, CallFrame DEF TypeInv
  <2>2. CASE Lock(t)
    <3>1. mgrMtx' = t /\ at'[t] \in {"start", "stop"} /\ at[t] = "lock"
      BY <1>t, <2>2 DEF Lock, Goto
    <3>2. op[t] \in {"StartModule", "StopModule"} /\ t \in {"role", "console"}
      BY <1>t, <2>1, <3>1 DEF Place, Callers
    <3>. QED  BY <2>1, <3>1, <3>2 DEF Holder, InCall
  <2>3. CASE Unlock(t)
    BY <2>3 DEF Unlock, Holder
  <2>4. CASE ~Lock(t) /\ ~Unlock(t)
    <3>1. mgrMtx' = mgrMtx
      BY <1>c, <2>4 DEF CallStep, Start, DoStart, Stop, DoStop, Join, Crash, Validate, Load
    <3>2. ASSUME op[t] \in {"StartModule", "StopModule"}
          PROVE  InCall(t)'
      BY <1>c, <1>t, <2>1, <2>4, <3>2
         DEF CallStep, Start, DoStart, Stop, DoStop, Join, Crash, Validate, Load, calls, Goto,
             AfterStart, AfterStop, InCall, Place
    <3>. QED  BY <1>t, <2>1, <3>1, <3>2 DEF Holder, InCall
  <2>. QED  BY <2>2, <2>3, <2>4
<1>1. CASE MainStep \/ StopRequest
  <2>1. mgrMtx' = mgrMtx
        /\ \A u \in {"role", "console"} : at'[u] = at[u] /\ op'[u] = op[u]
    BY <1>t, <1>1 DEF MainStep, StopRequest, LoadConfig, RecordTimestamp, StartNext, LinkRedundancy,
       StopNext, Destroy, Free, Call, Goto, calls
  <2>. QED  BY <1>t, <2>1 DEF Holder, InCall
<1>2. CASE WatchEnd \/ \E i \in Module : WatchScan(i)
  <2>1. mgrMtx' = mgrMtx
        /\ \A u \in {"role", "console"} : at'[u] = at[u] /\ op'[u] = op[u]
    BY <1>t, <1>2 DEF WatchEnd, WatchScan, Call, Goto
  <2>. QED  BY <1>t, <2>1 DEF Holder, InCall
<1>3. CASE CollectCallback \/ \E r \in {"Standby", "Master"} : ChangeRole(r)
  <2>1. mgrMtx' = mgrMtx /\ at'["console"] = at["console"] /\ op'["console"] = op["console"]
        /\ ~InCall("role")
    BY <1>t, <1>3 DEF CollectCallback, ChangeRole, Call, Goto, InCall
  <2>. QED  BY <1>t, <2>1 DEF Holder, InCall
<1>4. CASE \E i \in Module, o \in {"StartModule", "StopModule", "ReloadModule"} : Command(o, i)
  <2>1. mgrMtx' = mgrMtx /\ at'["role"] = at["role"] /\ op'["role"] = op["role"]
        /\ ~InCall("console")
    BY <1>t, <1>4 DEF Command, Call, Goto, InCall
  <2>. QED  BY <1>t, <2>1 DEF Holder, InCall
<1>5. CASE Tick \/ (\E i \in Module, c \in Content : Save(i, c)) \/ Halted \/ UNCHANGED vars
  <2>1. UNCHANGED <<at, op, mgrMtx>>
    BY <1>5 DEF Tick, Save, Halted, vars, calls
  <2>. QED  BY <1>t, <2>1 DEF Holder, InCall
<1>. QED  BY <1>c, <1>1, <1>2, <1>3, <1>4, <1>5 DEF Next, Environment

(* A step of a call, during StartAll, in service and during StopAll.        *)
LEMMA CallShutdownStep ==
  ASSUME Redundancy \notin Targets, TypeInv, ShutdownInv, phase # "crashed",
         session = "attached", session' = "attached", NEW t \in Thread, CallStep(t)
  PROVE  WatchApart' /\ Stopped' /\ Freed'
<1>t. /\ MainPlace /\ WatchApart /\ Stopped /\ Place("main") /\ at \in [Thread -> At]
      /\ running \in [Module -> BOOLEAN] /\ alive \in [Module -> BOOLEAN]
      /\ Thread = {"main", "watch", "role", "console"} /\ NumModules \in Nat \ {0}
  BY ModuleFacts DEF TypeInv, TypeOK, ModuleTypes, CallTypes, ControlInv, ShutdownInv, ShutdownParts, Thread
<1>m. \A m \in Entering : m \in Module /\ m \in 1 .. NumModules
  BY EnteringFacts
<1>1. /\ UNCHANGED <<op, on>> /\ InCall(t) /\ (phase' = phase \/ phase' = "crashed")
      /\ \A u \in Thread \ {t} : at'[u] = at[u]
  BY CallFrame DEF TypeInv
<1>2. phase \notin {"freeing", "exited"}
  BY <1>t, <1>1, Apart DEF InCall
<1>3. Freed'
  BY <1>1, <1>2 DEF Freed
<1>4. WatchApart'
  <2>1. CASE t = "main"
    <3>1. at["watch"] = "ended" /\ at'["watch"] = at["watch"]
      BY <1>t, <1>1, <2>1 DEF WatchApart, MainPlace, InCall
    <3>. QED  BY <3>1 DEF WatchApart
  <2>2. CASE t # "main"
    <3>1. at'["main"] = at["main"] /\ (at["watch"] = "ended" => at'["watch"] = "ended")
      BY <1>t, <1>1, <2>2 DEF InCall
    <3>. QED  BY <1>t, <1>1, <3>1 DEF WatchApart
  <2>. QED  BY <2>1, <2>2
<1>5. Stopped'
  <2>. SUFFICES ASSUME NEW m \in Entering, StoppedOnce(m)', running'[m]
                PROVE  FALSE
    BY DEF Stopped
  <2>1. phase' = phase /\ phase \in {"stopping", "destroying"}
    BY <1>1, <1>2 DEF StoppedOnce
  <2>2. CASE StoppedOnce(m)
    <3>1. t \in {"main", "watch"} /\ at[t] = "doStart"
      BY <1>t, <2>2, CallSoundStep DEF Stopped
    <3>2. t = "main"
      BY <1>m, <1>t, <1>1, <2>1, <2>2, <3>1 DEF WatchApart, StoppedOnce, InCall
    <3>3. op["main"] \in {"StartModule", "ReloadModule", "StartAll"}
      BY <1>t, <3>1, <3>2 DEF Place
    <3>. QED  BY <1>t, <2>1, <3>3 DEF MainPlace
  <2>3. CASE ~StoppedOnce(m)
    <3>1. t = "main" /\ on[t] = m /\ phase = "stopping" /\ at'["main"] = "idle"
      <4>1. phase = "stopping" /\ on["main"] = m /\ at["main"] # "idle" /\ at'["main"] = "idle"
        BY <1>1, <2>1, <2>3 DEF StoppedOnce
      <4>. QED  BY <1>t, <1>1, <4>1
    <3>2. op[t] = "StopAll"
      BY <1>t, <3>1 DEF MainPlace
    <3>3. ~running'[m]
      <4>1. Stop(t) \/ DoStop(t) \/ Join(t)
        BY <1>t, <1>1, <3>1, <3>2 DEF CallStep, Lock, Unlock, Start, DoStart, Crash,
           Validate, Load, Goto, Place, calls
      <4>2. CASE Stop(t)
        <5>1. ~running[m] /\ running' = running
          BY <1>t, <3>1, <4>2 DEF Stop, Goto, modules
        <5>. QED  BY <5>1
      <4>3. CASE Join(t)
        <5>1. running'[m] = FALSE
          BY <1>t, <1>m, <3>1, <4>3 DEF Join
        <5>. QED  BY <5>1
      <4>4. CASE DoStop(t)
        <5>1. ~(m # Console \/ alive[m])
          BY <1>t, <1>m, <3>1, <4>4, DoStopEffect
        <5>. QED  BY <1>t, <1>m, <3>1, <4>4, <5>1, DoStopEffect
      <4>. QED  BY <4>1, <4>2, <4>3, <4>4
    <3>. QED  BY <3>3
  <2>. QED  BY <2>2, <2>3
<1>. QED  BY <1>3, <1>4, <1>5

(* The destructor of a module.                                              *)
LEMMA FreeStep ==
  ASSUME Redundancy \notin Targets, TypeInv, ShutdownInv, session = "attached", Free
  PROVE  (\A m \in Entering : Sound(m)') /\ WatchApart' /\ Stopped' /\ Freed'
<1>. DEFINE i == on["main"]
<1>t. /\ running \in [Module -> BOOLEAN] /\ alive \in [Module -> BOOLEAN]
      /\ on \in [Thread -> 0 .. NumModules + 1] /\ Thread = {"main", "watch", "role", "console"}
      /\ at \in [Thread -> At] /\ NumModules \in Nat \ {0} /\ Module = 1 .. NumModules
  BY ModuleFacts DEF TypeInv, TypeOK, ModuleTypes, CallTypes, Thread, Module
<1>1. phase = "freeing" /\ i \in Module
  BY DEF Free, TypeInv, ControlInv, MainPlace
<1>2. at["main"] = "idle" /\ at["watch"] = "ended" /\ at["role"] = "idle" /\ at["console"] = "idle"
  BY <1>1, Apart
<1>3. /\ at' \in [Thread -> At] /\ at' = at /\ phase' \in {"freeing", "exited"}
  <2>1. at' = at \/ at' = [at EXCEPT !["main"] = "idle"]
    BY DEF Free, Call, Goto
  <2>. QED  BY <1>t, <1>1, <1>2, <2>1 DEF Free
<1>4. \A m \in Entering : ~running[m] /\ m \in Module /\ Sound(m) /\ at[Owner(m)] = "idle"
  BY <1>1, <1>2, EnteringFacts DEF ShutdownInv, ShutdownParts, Stopped, StoppedOnce
<1>5. alive' = [alive EXCEPT ![i] = FALSE] /\ (running' = running \/ running' = [running EXCEPT ![i] = FALSE])
  BY DEF Free
<1>6. \A m \in Entering : ~running'[m] /\ ~alive'[m]
  BY <1>t, <1>4, <1>5 DEF Sound
<1>7. \A m \in Entering : Sound(m)'
  BY <1>2, <1>3, <1>4, <1>6 DEF Sound
<1>8. WatchApart' /\ Stopped'
  BY <1>2, <1>3, <1>6 DEF WatchApart, Stopped
<1>9. Freed'
  <2>1. \A k \in Module : k < i => ~alive[k]
    BY <1>1 DEF ShutdownInv, ShutdownParts, Freed
  <2>2. \A k \in Module : k < i \/ k = i => ~alive'[k]
    BY <1>t, <1>1, <1>5, <2>1
  <2>3. \/ phase' = "freeing" /\ on'["main"] \in {i, i + 1}
        \/ phase' = "exited" /\ i = NumModules
    BY <1>t, <1>1 DEF Free, Call
  <2>4. CASE phase' = "freeing" /\ on'["main"] \in {i, i + 1}
    <3>1. \A k \in Module : k < on'["main"] => k < i \/ k = i
      BY <1>t, <1>1, <2>4
    <3>. QED  BY <2>2, <2>4, <3>1 DEF Freed
  <2>5. CASE phase' = "exited" /\ i = NumModules
    <3>1. \A k \in Module : k < i \/ k = i
      BY <1>t, <2>5
    <3>. QED  BY <2>2, <2>5, <3>1 DEF Freed
  <2>. QED  BY <2>3, <2>4, <2>5
<1>. QED  BY <1>7, <1>8, <1>9

\* A session that is attached has been so from the beginning.
LEMMA AttachedBefore ==
  ASSUME TypeInv, [Next]_vars, session' = "attached"
  PROVE  session = "attached"
BY DEF Next, CallStep, Lock, Unlock, Start, DoStart, Stop, DoStop, Join, Crash, Validate, Load, MainStep,
   LoadConfig, RecordTimestamp, StartNext, LinkRedundancy, StopNext, Destroy, Free, CollectCallback,
   WatchEnd, WatchScan, Environment, StopRequest, Tick, ChangeRole, Command, Save, Halted, vars, calls

\* Every step keeps ShutdownInv.
LEMMA ShutdownStep ==
  ASSUME Redundancy \notin Targets, TypeInv, ShutdownInv, [Next]_vars
  PROVE  ShutdownInv'
<1>h. Holder'
  BY HolderStep
<1>. SUFFICES ASSUME session' = "attached"  PROVE ShutdownParts'
  BY <1>h DEF ShutdownInv
<1>a. session = "attached"
  BY AttachedBefore
<1>t. /\ at \in [Thread -> At] /\ op \in [Thread -> Op] /\ on \in [Thread -> 0 .. NumModules + 1]
      /\ MainPlace /\ WatchApart /\ Stopped /\ Freed /\ (\A m \in Entering : Sound(m))
      /\ Thread = {"main", "watch", "role", "console"} /\ NumModules \in Nat \ {0}
      /\ \A t \in Thread : Place(t)
  BY <1>a, ModuleFacts DEF TypeInv, TypeOK, CallTypes, ControlInv, ShutdownInv, ShutdownParts, Thread
<1>m. \A m \in Entering : m \in Module /\ m \in 1 .. NumModules /\ Owner(m) \in {"role", "console"}
  BY <1>a, EnteringFacts
<1>c. ASSUME phase # "crashed", NEW t \in Thread, CallStep(t)
      PROVE  ShutdownParts'
  BY <1>a, <1>c, CallSoundStep, CallShutdownStep DEF ShutdownParts
<1>1. CASE Free
  BY <1>a, <1>1, FreeStep DEF ShutdownParts
(* The other steps of main touch no module that has been started. *)
<1>2. CASE LoadConfig \/ RecordTimestamp \/ StartNext \/ LinkRedundancy \/ StopRequest \/ StopNext \/ Destroy
  <2>1. /\ UNCHANGED <<running, alive>> /\ at'["role"] = at["role"] /\ at'["console"] = at["console"]
        /\ on'["watch"] = on["watch"] /\ at["main"] = "idle" /\ at'["main"] \in {"idle", "start", "stop"}
        /\ on'["role"] = on["role"] /\ on'["console"] = on["console"]
        /\ at'["watch"] = at["watch"] \/ (at["watch"] = "ended" /\ at'["watch"] \in {"idle", "ended"})
    BY <1>t, <1>2 DEF LoadConfig, RecordTimestamp, StartNext, LinkRedundancy, StopRequest, StopNext,
       Destroy, Call, Goto, calls, modules, MainPlace, WatchApart
  <2>2. \A m \in Entering : Sound(m)'
    <3>. SUFFICES ASSUME NEW m \in Entering  PROVE Sound(m)'
      OBVIOUS
    <3>1. Sound(m) /\ at'[Owner(m)] = at[Owner(m)] /\ on'[Owner(m)] = on[Owner(m)]
      BY <1>t, <1>m, <2>1
    <3>2. at'["main"] \notin {"doStart", "doStop", "join"} /\ at["main"] # "join"
      BY <2>1
    <3>3. \/ at'["watch"] = at["watch"] /\ on'["watch"] = on["watch"]
          \/ at'["watch"] \notin {"doStart", "doStop", "join"} /\ at["watch"] # "join"
      BY <2>1
    <3>. QED  BY <2>1, <3>1, <3>2, <3>3 DEF Sound
  <2>3. WatchApart'
    <3>1. CASE LoadConfig \/ RecordTimestamp \/ StartNext \/ StopNext \/ Destroy
      BY <1>t, <3>1 DEF LoadConfig, RecordTimestamp, StartNext, StopNext, Destroy, Call, Goto, calls,
         WatchApart
    <3>2. CASE LinkRedundancy
      BY <3>2 DEF LinkRedundancy, WatchApart
    <3>3. CASE StopRequest
      BY <1>t, <3>3 DEF StopRequest, Call, Goto, WatchApart
    <3>. QED  BY <1>2, <3>1, <3>2, <3>3
  <2>4. Stopped'
    <3>. SUFFICES ASSUME NEW m \in Entering, StoppedOnce(m)'
                  PROVE  StoppedOnce(m)
      BY <1>t, <2>1 DEF Stopped
    <3>1. CASE LoadConfig \/ RecordTimestamp \/ StartNext \/ LinkRedundancy
      BY <3>1 DEF LoadConfig, RecordTimestamp, StartNext, LinkRedundancy, StoppedOnce
    <3>2. CASE StopRequest
      BY <1>t, <1>m, <3>2 DEF StopRequest, Call, StoppedOnce
    <3>3. CASE StopNext
      BY <1>t, <1>m, <3>3 DEF StopNext, Call, Goto, StoppedOnce
    <3>4. CASE Destroy
      BY <1>t, <1>m, <3>4 DEF Destroy, Call, StoppedOnce
    <3>. QED  BY <1>2, <3>1, <3>2, <3>3, <3>4
  <2>5. Freed'
    <3>1. phase' = "freeing" => on'["main"] = 1
      BY <1>t, <1>2 DEF LoadConfig, RecordTimestamp, StartNext, LinkRedundancy, StopRequest, StopNext,
         Destroy, Call
    <3>2. phase' # "exited"
      BY <1>2 DEF LoadConfig, RecordTimestamp, StartNext, LinkRedundancy, StopRequest, StopNext, Destroy
    <3>3. \A i \in Module : ~(i < 1)
      BY DEF Module
    <3>. QED  BY <3>1, <3>2, <3>3 DEF Freed
  <2>. QED  BY <2>2, <2>3, <2>4, <2>5 DEF ShutdownParts
<1>3. CASE WatchEnd \/ \E i \in Module : WatchScan(i)
  <2>1. /\ UNCHANGED <<phase, running, alive>> /\ at["watch"] = "idle" /\ at'["watch"] \in {"ended", "validate"}
        /\ \A u \in Thread \ {"watch"} : at'[u] = at[u] /\ on'[u] = on[u]
    BY <1>t, <1>3 DEF WatchEnd, WatchScan, Call, Goto, modules
  <2>2. \A m \in Entering : Sound(m)'
    BY <1>t, <1>m, <2>1 DEF Sound
  <2>3. WatchApart' /\ Stopped' /\ Freed'
    BY <1>t, <2>1 DEF WatchApart, Stopped, StoppedOnce, Freed
  <2>. QED  BY <2>2, <2>3 DEF ShutdownParts
<1>4. CASE CollectCallback \/ \E r \in {"Standby", "Master"} : ChangeRole(r)
  <2>1. /\ UNCHANGED <<phase, running, alive>> /\ (at["role"] # "idle" \/ alive[Redundancy])
        /\ \A u \in Thread \ {"role"} : at'[u] = at[u] /\ on'[u] = on[u]
        /\ at'["role"] \notin {"doStart", "join", "load"}
    <3>1. CASE CollectCallback
      BY <1>t, <3>1 DEF CollectCallback, Call, Goto, modules
    <3>2. CASE \E r \in {"Standby", "Master"} : ChangeRole(r)
      BY <1>t, <3>2 DEF ChangeRole, Call, Goto, modules
    <3>. QED  BY <1>4, <3>1, <3>2
  <2>2. ASSUME NEW m \in Entering, ~running[m]
        PROVE  Owner(m) # "role"
    <3>1. ASSUME m = Redundancy  PROVE FALSE
      BY <1>t, <2>1, <2>2, <3>1 DEF Sound, Owner
    <3>. QED  BY <3>1 DEF Owner
  <2>3. \A m \in Entering : Sound(m)'
    <3>. SUFFICES ASSUME NEW m \in Entering  PROVE Sound(m)'
      OBVIOUS
    <3>1. CASE Owner(m) = "role"
      BY <1>t, <2>1, <2>2, <3>1 DEF Sound
    <3>2. CASE Owner(m) = "console"
      BY <1>t, <2>1, <3>2 DEF Sound
    <3>. QED  BY <1>m, <3>1, <3>2
  <2>4. WatchApart' /\ Stopped' /\ Freed'
    BY <1>t, <2>1 DEF WatchApart, Stopped, StoppedOnce, Freed
  <2>. QED  BY <2>3, <2>4 DEF ShutdownParts
<1>5. CASE \E i \in Module, o \in {"StartModule", "StopModule", "ReloadModule"} : Command(o, i)
  <2>1. /\ UNCHANGED <<phase, running, alive>> /\ HasConsole /\ alive[Console]
        /\ \A u \in Thread \ {"console"} : at'[u] = at[u] /\ on'[u] = on[u]
        /\ at'["console"] \notin {"doStart", "join", "load"}
    BY <1>t, <1>5 DEF Command, Call, Goto, modules
  <2>2. ASSUME NEW m \in Entering, ~running[m]
        PROVE  Owner(m) = "role"
    <3>1. ASSUME m # Redundancy  PROVE FALSE
      BY <1>t, <2>1, <2>2, <3>1 DEF Sound, Entering
    <3>. QED  BY <3>1 DEF Owner
  <2>3. \A m \in Entering : Sound(m)'
    <3>. SUFFICES ASSUME NEW m \in Entering  PROVE Sound(m)'
      OBVIOUS
    <3>1. CASE Owner(m) = "console"
      BY <1>t, <2>1, <2>2, <3>1 DEF Sound
    <3>2. CASE Owner(m) = "role"
      BY <1>t, <2>1, <3>2 DEF Sound
    <3>. QED  BY <1>m, <3>1, <3>2
  <2>4. WatchApart' /\ Stopped' /\ Freed'
    BY <1>t, <2>1 DEF WatchApart, Stopped, StoppedOnce, Freed
  <2>. QED  BY <2>3, <2>4 DEF ShutdownParts
<1>6. CASE Tick \/ (\E i \in Module, c \in Content : Save(i, c)) \/ Halted \/ UNCHANGED vars
  <2>1. UNCHANGED <<phase, running, alive, at, on>>
    BY <1>6 DEF Tick, Save, Halted, vars, calls, modules
  <2>. QED  BY <1>t, <2>1 DEF ShutdownParts, Sound, WatchApart, Stopped, StoppedOnce, Freed
<1>. HIDE DEF ShutdownParts
<1>. QED  BY <1>c, <1>1, <1>2, <1>3, <1>4, <1>5, <1>6 DEF Next, MainStep, Environment

(* StopAll and the destructors: the program never ends with a thread of a   *)
(* module left, with a thread inside the manager that is gone, or with      *)
(* mgrMtx_ held, however reloads, role switches and console commands fall   *)
(* into StartAll and StopAll, and whichever Start fails.  ShutdownComplete  *)
(* excepts a session that has stopped or reloaded its own console: Stop     *)
(* detaches it, and nobody waits for it any more.  The operator must leave  *)
(* the redundancy module alone: with a console "start" of it in the middle  *)
(* of StartAll the inner Start runs twice, impl_->running ends up false and *)
(* StopAll skips it.                                                        *)
THEOREM ShutdownCorrect ==
  ASSUME Redundancy \notin Targets
  PROVE  Spec => []ShutdownComplete
<1>1. Init => ShutdownInv
  <2>. SUFFICES ASSUME Init  PROVE ShutdownInv
    OBVIOUS
  <2>1. /\ phase = "loading" /\ mgrMtx = Nobody /\ session = "attached"
        /\ \A i \in Module : running[i] = FALSE /\ alive[i] = FALSE
        /\ \A t \in Thread : at[t] = (IF t = "watch" THEN "ended" ELSE "idle")
    BY DEF Init
  <2>2. \A m \in Entering : m \in Module /\ Owner(m) \in {"role", "console"}
    BY <2>1, EnteringFacts
  <2>3. \A m \in Entering : Sound(m)
    BY <2>1, <2>2 DEF Sound, Thread
  <2>. QED  BY <2>1, <2>3 DEF ShutdownInv, ShutdownParts, WatchApart, Stopped, StoppedOnce, Freed, Holder, Thread
<1>2. TypeInv /\ ShutdownInv /\ [Next]_vars => ShutdownInv'
  BY ShutdownStep
<1>3. TypeInv /\ ShutdownInv => ShutdownComplete
  <2>. SUFFICES ASSUME TypeInv, ShutdownInv, phase = "exited", session = "attached"
                PROVE  /\ \A i \in Module : ~alive[i]
                       /\ \A t \in Thread \ {"main"} : at[t] \in {"idle", "ended"}
                       /\ mgrMtx = Nobody
    BY DEF ShutdownComplete
  <2>1. at["watch"] = "ended" /\ at["role"] = "idle" /\ at["console"] = "idle"
    BY Apart
  <2>. QED  BY <2>1 DEF ShutdownInv, ShutdownParts, Freed, Holder, InCall, Thread
<1>. QED  BY <1>1, <1>2, <1>3, TypesInvariant, PTL DEF Spec

-----------------------------------------------------------------------------
(* Hot reload of a bad file.                                                *)

(* WatchLoop is reloading module i.                                         *)
Watching(i) == on["watch"] = i /\ InCall("watch")

(* Nothing but good files can be read before WatchLoop starts.              *)
Began ==
  phase \in {"loading", "stamping", "starting"} =>
    /\ at["watch"] = "ended"
    /\ \A i \in Module : file[i].config.content = "good"

GoodLoaded == InService => \A i \in Watched : loaded[i].content = "good"

(* The watched modules whose Start does not fail.                           *)
Reliable == Watched \ Failing

(* StartAll has started those that it has passed, and no others run.        *)
Started ==
  /\ phase \in {"loading", "stamping"} => \A i \in Reliable : ~running[i] /\ ~alive[i]
  /\ phase = "starting" => \A i \in Reliable :
       /\ i > on["main"] \/ (i = on["main"] /\ at["main"] # "idle") => ~running[i] /\ ~alive[i]
       /\ i < on["main"] \/ (i = on["main"] /\ at["main"] = "idle") => running[i]

(* The Stop and the Start of a reload follow only on a file found good, ... *)
FoundGood(i) == Watching(i) /\ at["watch"] # "validate" => file[i].config.content = "good"

(* ... and only between the two does a module not run whose Start works.    *)
Kept(i) ==
  /\ ~Watching(i) => running[i]
  /\ Watching(i) =>
       /\ at["watch"] \in {"validate", "stop", "doStop", "join"} => running[i]
       /\ at["watch"] \in {"load", "start", "doStart"} => ~running[i]
       /\ at["watch"] \in {"join", "load", "start", "doStart"} => ~alive[i]
       /\ at["watch"] # "validate" => was["watch"] = TRUE

KeepInv ==
  /\ Began /\ GoodLoaded /\ Started
  /\ phase = "running" => (\A i \in Watched : FoundGood(i)) /\ \A i \in Reliable : Kept(i)

(* Only main and WatchLoop start, stop and load the watched modules.        *)
LEMMA WatchedApart ==
  ASSUME Watched \cap Targets = {}, HasRole => Watched \cap Collector = {}, TypeInv,
         NEW t \in {"role", "console"}, CallStep(t)
  PROVE  \A i \in Watched : running'[i] = running[i] /\ alive'[i] = alive[i] /\ loaded'[i] = loaded[i]
<1>1. InCall(t) /\ t \in Thread
  BY CallFrame DEF TypeInv, Thread
<1>2. on[t] \notin Watched
  BY <1>1 DEF TypeInv, ControlInv, Callers, InCall
<1>. QED  BY <1>2, ModuleAssumption
          DEF TypeInv, TypeOK, ModuleTypes, CallStep, Lock, Unlock, Start, DoStart, Stop, DoStop, Join,
              Crash, Validate, Load, modules

(* One step of a reload: what it loads.                                     *)
LEMMA WatchLoadStep ==
  ASSUME TypeInv, KeepInv, phase = "running", CallStep("watch")
  PROVE  \A i \in Watched : FoundGood(i)' /\ loaded'[i].content = "good"
<1>t. /\ loaded \in [Module -> Config] /\ at \in [Thread -> At] /\ "watch" \in Thread
      /\ Watched \subseteq Module
  BY ModuleAssumption DEF TypeInv, TypeOK, ModuleTypes, CallTypes, Thread
<1>1. UNCHANGED <<op, on, disk>> /\ InCall("watch") /\ on["watch"] \in Watched
  BY <1>t, CallFrame DEF TypeInv, ControlInv, Callers
<1>2. \A i \in Watched : FoundGood(i) /\ loaded[i].content = "good"
  BY DEF KeepInv, GoodLoaded, InService
<1>3. file' = file
  BY <1>1 DEF disk
<1>4. CASE Validate("watch")
  <2>1. loaded' = loaded
    BY <1>4 DEF Validate, modules
  <2>2. at'["watch"] = "idle" \/ file[on["watch"]].config.content = "good"
    BY <1>t, <1>4 DEF Validate, Goto
  <2>. QED  BY <1>1, <1>2, <1>3, <2>1, <2>2 DEF FoundGood, Watching, InCall
<1>5. CASE Load("watch")
  <2>1. at["watch"] = "load" /\ file[on["watch"]].config.content = "good"
    BY <1>1, <1>2, <1>5 DEF Load, FoundGood, Watching
  <2>2. loaded' = [loaded EXCEPT ![on["watch"]] = file[on["watch"]].config]
    BY <1>5, <2>1 DEF Load
  <2>3. \A i \in Watched : loaded'[i].content = "good"
    BY <1>t, <1>2, <2>1, <2>2
  <2>. QED  BY <1>1, <1>2, <1>3, <2>1, <2>3 DEF FoundGood, Watching, InCall
<1>6. CASE ~Validate("watch") /\ ~Load("watch")
  <2>1. loaded' = loaded /\ at["watch"] # "validate"
    BY <1>6 DEF CallStep, Lock, Unlock, Start, DoStart, Stop, DoStop, Join, Crash, Validate, Load, modules,
       InCall
  <2>. QED  BY <1>1, <1>2, <1>3, <2>1 DEF FoundGood, Watching, InCall
<1>. QED  BY <1>4, <1>5, <1>6

(* One step of a reload: which modules run.                                 *)
LEMMA WatchKeepStep ==
  ASSUME TypeInv, KeepInv, phase = "running", CallStep("watch"), phase' = "running"
  PROVE  \A i \in Reliable : Kept(i)'
<1>t. /\ running \in [Module -> BOOLEAN] /\ alive \in [Module -> BOOLEAN]
      /\ at \in [Thread -> At] /\ was \in [Thread -> BOOLEAN] /\ "watch" \in Thread
      /\ Watched \subseteq Module /\ Reliable \subseteq Watched
  BY ModuleAssumption DEF TypeInv, TypeOK, ModuleTypes, CallTypes, Thread, Reliable
<1>1. /\ UNCHANGED <<op, on, disk>> /\ InCall("watch") /\ on["watch"] \in Watched
      /\ op["watch"] = "ReloadModule" /\ Place("watch")
  BY <1>t, CallFrame DEF TypeInv, ControlInv, Callers
<1>2. ASSUME NEW i \in Reliable, on["watch"] # i
      PROVE  Kept(i)'
  <2>1. running'[i] = running[i] /\ i \in Module
    BY <1>t, <1>2 DEF CallStep, Lock, Unlock, Start, DoStart, Stop, DoStop, Join, Crash, Validate,
       Load, modules
  <2>2. running[i]
    BY <1>2 DEF KeepInv, Kept, Watching
  <2>. QED  BY <1>1, <1>2, <2>1, <2>2 DEF Kept, Watching
<1>3. ASSUME NEW j \in Reliable, on["watch"] = j
      PROVE  Kept(j)'
  <2>1. Kept(j) /\ Watching(j) /\ FoundGood(j) /\ j \in Module /\ j \notin Failing
    BY <1>t, <1>1, <1>3 DEF KeepInv, Watching, Reliable
  <2>2. /\ at["watch"] \in {"validate", "stop", "doStop", "join", "load", "start", "doStart"}
        /\ at["watch"] \in {"validate", "stop", "doStop", "join"} => running[j]
        /\ at["watch"] \in {"load", "start", "doStart"} => ~running[j]
        /\ at["watch"] \in {"join", "load", "start", "doStart"} => ~alive[j]
        /\ at["watch"] # "validate" => was["watch"] = TRUE /\ file[j].config.content = "good"
    BY <1>t, <1>1, <2>1 DEF Place, Kept, FoundGood, InCall, At
  <2>3. CASE Validate("watch")
    <3>1. UNCHANGED <<running, alive>> /\ running[j] = TRUE
      BY <1>t, <2>1, <2>2, <2>3 DEF Validate, modules
    <3>2. \/ at'["watch"] = "stop" /\ was'["watch"] = running[j]
          \/ at'["watch"] = "idle"
      BY <1>3, <1>t, <2>3 DEF Validate, Goto
    <3>. QED  BY <1>1, <1>3, <3>1, <3>2 DEF Kept, Watching, InCall
  <2>4. CASE Load("watch")
    <3>1. UNCHANGED <<running, alive, was>> /\ at["watch"] = "load"
      BY <2>4 DEF Load
    <3>2. at'["watch"] = "start"
      BY <1>3, <1>t, <2>2, <2>4, <3>1 DEF Load, Goto
    <3>3. ~running'[j] /\ ~alive'[j] /\ was'["watch"] = TRUE
      BY <2>2, <3>1
    <3>. QED  BY <1>1, <1>3, <3>2, <3>3 DEF Kept, Watching, InCall
  <2>5. CASE Stop("watch")
    <3>1. UNCHANGED <<running, alive, was>> /\ at["watch"] = "stop" /\ at'["watch"] = "doStop"
      BY <1>3, <1>t, <2>2, <2>5 DEF Stop, Goto, modules
    <3>. QED  BY <1>1, <1>3, <2>2, <3>1 DEF Kept, Watching, InCall
  <2>6. CASE DoStop("watch")
    <3>1. was' = was /\ at["watch"] = "doStop" /\ alive'[j] = FALSE
      BY <1>3, <1>t, <2>1, <2>6, DoStopEffect DEF DoStop
    <3>2. \/ at'["watch"] = "join" /\ running'[j] = running[j]
          \/ at'["watch"] = "load" /\ running'[j] = FALSE
      BY <1>3, <1>t, <1>1, <2>1, <2>6, DoStopEffect DEF AfterStop
    <3>. QED  BY <1>1, <1>3, <2>2, <3>1, <3>2 DEF Kept, Watching, InCall
  <2>7. CASE Join("watch")
    <3>1. UNCHANGED <<alive, was>> /\ at["watch"] = "join" /\ running'[j] = FALSE /\ at'["watch"] = "load"
      BY <1>3, <1>t, <1>1, <2>1, <2>7 DEF Join, Goto, AfterStop
    <3>. QED  BY <1>1, <1>3, <2>2, <3>1 DEF Kept, Watching, InCall
  <2>8. CASE Start("watch")
    <3>1. UNCHANGED <<running, alive, was>> /\ at["watch"] = "start" /\ at'["watch"] = "doStart"
      BY <1>3, <1>t, <2>2, <2>8 DEF Start, Goto, modules
    <3>. QED  BY <1>1, <1>3, <2>2, <3>1 DEF Kept, Watching, InCall
  <2>9. CASE DoStart("watch")
    <3>1. at["watch"] = "doStart" /\ at'["watch"] = "idle"
      BY <1>t, <1>1, <2>9 DEF DoStart, Goto, AfterStart
    <3>2. running'[j] = TRUE
      BY <1>3, <1>t, <2>1, <2>2, <2>9, <3>1, DoStartRuns
    <3>. QED  BY <3>1, <3>2 DEF Kept, Watching, InCall
  <2>. QED  BY <1>t, <1>1, <2>2, <2>3, <2>4, <2>5, <2>6, <2>7, <2>8, <2>9 DEF CallStep, Lock, Unlock, Crash
<1>. QED  BY <1>2, <1>3

(* StartAll, one module.                                                    *)
LEMMA MainKeepStep ==
  ASSUME TypeInv, KeepInv, InService, CallStep("main"), InService'
  PROVE  KeepInv'
<1>t. /\ running \in [Module -> BOOLEAN] /\ alive \in [Module -> BOOLEAN] /\ at \in [Thread -> At]
      /\ "main" \in Thread /\ Reliable \subseteq Module /\ Place("main") /\ MainPlace
  BY ModuleAssumption DEF TypeInv, TypeOK, ModuleTypes, CallTypes, ControlInv, Thread, Reliable
<1>1. /\ UNCHANGED <<op, on, disk>> /\ phase' = phase /\ InCall("main") /\ on["main"] \in Module
      /\ at'["watch"] = at["watch"]
  BY <1>t, CallFrame DEF TypeInv, InService, Thread
<1>j. SUFFICES ASSUME NEW j \in Module, on["main"] = j
               PROVE  KeepInv'
  BY <1>1
<1>2. phase = "starting" /\ op["main"] = "StartAll" /\ file' = file
  BY <1>t, <1>1 DEF MainPlace, InCall, InService, disk
<1>3. Start("main") \/ DoStart("main")
  BY <1>t, <1>1, <1>2 DEF CallStep, Place, Lock, Unlock, Stop, DoStop, Join, Crash, Validate, Load,
     InService
<1>4. loaded' = loaded /\ at'["main"] \in {"doStart", "idle"}
  BY <1>t, <1>2, <1>3 DEF Start, DoStart, modules, Goto, AfterStart
<1>5. Began' /\ GoodLoaded'
  BY <1>1, <1>2, <1>4 DEF KeepInv, Began, GoodLoaded, InService
<1>6. ASSUME NEW i \in Reliable, i # j
      PROVE  running'[i] = running[i] /\ alive'[i] = alive[i]
  BY <1>j, <1>t, <1>3, <1>6 DEF Start, DoStart, modules
<1>7. ASSUME j \in Reliable
      PROVE  /\ at'["main"] = "doStart" => ~running'[j] /\ ~alive'[j]
             /\ at'["main"] = "idle" => running'[j]
  <2>1. ~running[j] /\ ~alive[j]
    BY <1>j, <1>1, <1>2, <1>7 DEF KeepInv, Started, InCall
  <2>2. CASE Start("main")
    BY <1>j, <1>t, <1>2, <2>1, <2>2 DEF Start, Goto, modules
  <2>3. CASE DoStart("main")
    <3>1. running'[j] = TRUE
      BY <1>j, <1>t, <1>7, <2>1, <2>3, DoStartRuns DEF Reliable
    <3>2. at'["main"] = "idle"
      BY <1>t, <1>2, <2>3 DEF DoStart, Goto, AfterStart
    <3>. QED  BY <2>1, <3>1, <3>2
  <2>. QED  BY <1>3, <2>2, <2>3
<1>8. Started'
  <2>. SUFFICES ASSUME NEW i \in Reliable
                PROVE  /\ i > j \/ (i = j /\ at'["main"] # "idle") => ~running'[i] /\ ~alive'[i]
                       /\ i < j \/ (i = j /\ at'["main"] = "idle") => running'[i]
    BY <1>j, <1>1, <1>2 DEF Started
  <2>1. i \in Nat /\ j \in Nat
    BY <1>t, ModuleFacts
  <2>2. CASE i = j
    BY <1>4, <1>7, <2>1, <2>2
  <2>3. CASE i # j
    BY <1>j, <1>2, <1>6, <2>1, <2>3 DEF KeepInv, Started
  <2>. QED  BY <2>2, <2>3
<1>. QED  BY <1>1, <1>2, <1>5, <1>8 DEF KeepInv

\* Every step keeps KeepInv.
LEMMA KeepStep ==
  ASSUME CalmEditor, Watched \cap Targets = {}, HasRole => Watched \cap Collector = {},
         TypeInv, KeepInv, [Next]_vars
  PROVE  KeepInv'
<1>t. /\ at \in [Thread -> At] /\ op \in [Thread -> Op] /\ on \in [Thread -> 0 .. NumModules + 1]
      /\ loaded \in [Module -> Config] /\ file \in [Module -> [config : Config, time : 0 .. MaxTime]]
      /\ MainPlace /\ Thread = {"main", "watch", "role", "console"}
      /\ NumModules \in Nat \ {0} /\ Module = 1 .. NumModules
      /\ Watched \subseteq Module /\ Reliable \subseteq Watched
  BY ModuleFacts, ModuleAssumption
     DEF Reliable, TypeInv, TypeOK, ModuleTypes, FileTypes, CallTypes, ControlInv, Thread, Module
<1>. SUFFICES ASSUME InService'  PROVE KeepInv'
  BY DEF KeepInv, InService, Began, GoodLoaded, Started
<1>s. InService /\ ~StopRequest /\ ~StopNext /\ ~Destroy /\ ~Free
  BY InServiceBefore
<1>k. /\ Began /\ Started /\ \A i \in Watched : loaded[i].content = "good"
      /\ phase = "running" => (\A i \in Watched : FoundGood(i)) /\ \A i \in Reliable : Kept(i)
  BY <1>s DEF KeepInv, GoodLoaded
(* A step inside a call. *)
<1>1. ASSUME CallStep("watch")
      PROVE  KeepInv'
  <2>1. phase' = phase /\ phase = "running"
    <3>1. InCall("watch") /\ phase' = phase
      BY <1>1, CallFrame DEF TypeInv, InService, Thread
    <3>. QED  BY <1>s, <1>k, <3>1 DEF InService, Began, InCall
  <2>2. /\ \A i \in Watched : FoundGood(i)' /\ loaded'[i].content = "good"
        /\ \A i \in Reliable : Kept(i)'
    BY <1>1, <2>1, WatchLoadStep, WatchKeepStep
  <2>. QED  BY <2>1, <2>2 DEF KeepInv, Began, GoodLoaded, Started
<1>2. ASSUME NEW t \in {"role", "console"}, CallStep(t)
      PROVE  KeepInv'
  <2>1. /\ UNCHANGED <<on, disk>> /\ phase' = phase /\ at'["main"] = at["main"] /\ at'["watch"] = at["watch"]
    BY <1>2, CallFrame DEF TypeInv, InService, Thread
  <2>2. \A i \in Watched : running'[i] = running[i] /\ alive'[i] = alive[i] /\ loaded'[i] = loaded[i]
    BY <1>2, WatchedApart
  <2>3. was'["watch"] = was["watch"] /\ file' = file
    BY <1>2, <2>1 DEF TypeInv, TypeOK, CallTypes, CallStep, Lock, Unlock, Start, DoStart, Stop, DoStop,
       Join, Crash, Validate, Load, calls, Thread, disk
  <2>4. Began' /\ Started' /\ GoodLoaded'
    BY <1>t, <1>k, <2>1, <2>2, <2>3 DEF Began, Started, GoodLoaded
  <2>5. ASSUME phase = "running"
        PROVE  (\A i \in Watched : FoundGood(i)') /\ \A i \in Reliable : Kept(i)'
    BY <1>t, <1>k, <2>1, <2>2, <2>3, <2>5 DEF FoundGood, Kept, Watching, InCall
  <2>. QED  BY <2>1, <2>4, <2>5 DEF KeepInv
<1>3. ASSUME CallStep("main")
      PROVE  KeepInv'
  BY <1>3, <1>s, MainKeepStep
(* The steps of main between its calls. *)
<1>4. CASE LoadConfig
  <2>1. /\ UNCHANGED <<running, alive, at, on, file>> /\ phase = "loading" /\ phase' = "stamping"
        /\ loaded' = [loaded EXCEPT ![on["main"]] = file[on["main"]].config] /\ on["main"] \in Module
    BY <1>t, <1>4 DEF LoadConfig, calls, disk, MainPlace
  <2>2. \A i \in Watched : loaded'[i].content = "good"
    BY <1>t, <1>k, <2>1 DEF Began
  <2>. QED  BY <1>k, <2>1, <2>2 DEF KeepInv, Began, Started, GoodLoaded
<1>5. CASE RecordTimestamp \/ StartNext
  <2>1. /\ UNCHANGED <<running, alive, loaded, file>> /\ at'["watch"] = at["watch"]
        /\ \/ phase = "stamping" /\ phase' = "loading"
           \/ phase = "stamping" /\ phase' = "starting" /\ on'["main"] = 1 /\ at'["main"] = "start"
           \/ phase = "starting" /\ phase' = "starting" /\ on'["main"] = on["main"] + 1
              /\ at["main"] = "idle" /\ at'["main"] = "start" /\ on["main"] \in Nat
    BY <1>t, <1>5 DEF RecordTimestamp, StartNext, Call, Goto, modules, disk, MainPlace
  <2>2. Started'
    <3>1. CASE phase = "stamping"
      <4>1. \A i \in Reliable : ~running'[i] /\ ~alive'[i] /\ ~(i < 1)
        BY <1>t, <1>k, <2>1, <3>1 DEF Started
      <4>. QED  BY <2>1, <3>1, <4>1 DEF Started
    <3>2. CASE phase = "starting"
      <4>1. \A i \in Reliable : /\ i > on["main"] => ~running[i] /\ ~alive[i]
                                /\ i < on["main"] \/ i = on["main"] => running[i]
        BY <1>k, <2>1, <3>2 DEF Started
      <4>2. \A i \in Reliable : /\ i > on["main"] <=> i > on["main"] + 1 \/ i = on["main"] + 1
                                /\ i < on["main"] + 1 <=> i < on["main"] \/ i = on["main"]
        BY <1>t, <2>1, <3>2
      <4>. QED  BY <2>1, <3>2, <4>1, <4>2 DEF Started
    <3>. QED  BY <2>1, <3>1, <3>2
  <2>. QED  BY <1>k, <2>1, <2>2 DEF KeepInv, Began, GoodLoaded
<1>6. CASE LinkRedundancy
  <2>1. /\ UNCHANGED <<running, alive, loaded>> /\ phase = "starting" /\ phase' = "running"
        /\ at["main"] = "idle" /\ on["main"] = NumModules /\ at'["watch"] \in {"idle", "ended"}
    BY <1>t, <1>6 DEF LinkRedundancy, modules
  <2>2. \A i \in Reliable : running[i]
    <3>1. \A i \in Reliable : i < NumModules \/ i = NumModules
      BY <1>t
    <3>. QED  BY <1>k, <2>1, <3>1 DEF Started
  <2>. QED  BY <1>k, <2>1, <2>2 DEF KeepInv, Began, Started, GoodLoaded, FoundGood, Kept, Watching, InCall
(* WatchLoop between its reloads. *)
<1>7. CASE WatchEnd \/ \E i \in Module : WatchScan(i)
  <2>1. /\ UNCHANGED <<phase, running, alive, loaded>> /\ at["watch"] = "idle"
        /\ at'["watch"] \in {"ended", "validate"}
    BY <1>t, <1>7 DEF WatchEnd, WatchScan, Call, Goto, modules
  <2>2. phase = "running"
    BY <1>s, <1>k, <2>1 DEF Began, InService
  <2>3. \A i \in Reliable : running[i]
    BY <1>k, <2>1, <2>2 DEF Kept, Watching, InCall
  <2>. QED  BY <1>k, <2>1, <2>2, <2>3 DEF KeepInv, Began, Started, GoodLoaded, FoundGood, Kept, Watching, InCall
(* The other threads, and the disk. *)
<1>8. CASE \/ CollectCallback \/ (\E r \in {"Standby", "Master"} : ChangeRole(r))
           \/ (\E i \in Module, o \in {"StartModule", "StopModule", "ReloadModule"} : Command(o, i))
  <2>1. /\ UNCHANGED <<phase, running, alive, loaded, file, was>>
        /\ \A u \in {"main", "watch"} : at'[u] = at[u] /\ on'[u] = on[u]
    <3>1. CASE CollectCallback
      BY <1>t, <3>1 DEF CollectCallback, Call, Goto, modules, disk
    <3>2. CASE \E r \in {"Standby", "Master"} : ChangeRole(r)
      BY <1>t, <3>2 DEF ChangeRole, Call, Goto, modules, disk
    <3>3. CASE \E i \in Module, o \in {"StartModule", "StopModule", "ReloadModule"} : Command(o, i)
      BY <1>t, <3>3 DEF Command, Call, Goto, modules, disk
    <3>. QED  BY <1>8, <3>1, <3>2, <3>3
  <2>. QED  BY <1>k, <2>1 DEF KeepInv, Began, Started, GoodLoaded, FoundGood, Kept, Watching, InCall
<1>9. ASSUME NEW i \in Module, NEW c \in Content, Save(i, c)
      PROVE  KeepInv'
  <2>1. /\ UNCHANGED <<phase, running, alive, loaded, at, on, was>>
        /\ phase = "running" /\ at["watch"] = "idle"
    BY <1>9 DEF Save, calls, modules
  <2>. QED  BY <1>k, <2>1 DEF KeepInv, Began, Started, GoodLoaded, FoundGood, Kept, Watching, InCall
<1>10. CASE Tick \/ Halted \/ UNCHANGED vars
  <2>1. UNCHANGED <<phase, running, alive, loaded, at, on, was, file>>
    BY <1>10 DEF Tick, Halted, vars, calls, modules, disk
  <2>. QED  BY <1>k, <2>1 DEF KeepInv, Began, Started, GoodLoaded, FoundGood, Kept, Watching, InCall
<1>. HIDE DEF KeepInv
<1>. QED  BY <1>s, <1>1, <1>2, <1>3, <1>4, <1>5, <1>6, <1>7, <1>8, <1>9, <1>10
          DEF Next, MainStep, Environment, Thread

(* Hot reload of any number of modules: whenever WatchLoop sleeps, every    *)
(* watched module has a configuration that was good, whatever has been      *)
(* saved over its file, and every one whose Start does not fail runs with   *)
(* it.  The file must not change between ValidateConfig and LoadConfig,     *)
(* which read it one after the other, and no operator or role switch may    *)
(* stop a watched module.                                                   *)
THEOREM KeepsOldConfigCorrect ==
  ASSUME CalmEditor, Watched \cap Targets = {}, HasRole => Watched \cap Collector = {}
  PROVE  Spec => []KeepsOldConfig
<1>1. Init => KeepInv
  <2>. SUFFICES ASSUME Init  PROVE KeepInv
    OBVIOUS
  <2>1. /\ phase = "loading" /\ at["watch"] = "ended" /\ Watched \subseteq Module
        /\ \A i \in Module : /\ running[i] = FALSE /\ alive[i] = FALSE
                             /\ loaded[i].content = "good" /\ file[i].config.content = "good"
    BY ModuleAssumption DEF Init, Thread
  <2>. QED  BY <2>1 DEF KeepInv, Began, Started, GoodLoaded, Reliable
<1>2. TypeInv /\ KeepInv /\ [Next]_vars => KeepInv'
  BY KeepStep
<1>3. KeepInv => KeepsOldConfig
  BY DEF KeepInv, GoodLoaded, InService, Kept, Watching, InCall, KeepsOldConfig, Reliable
<1>. QED  BY <1>1, <1>2, <1>3, TypesInvariant, PTL DEF Spec
=============================================================================
