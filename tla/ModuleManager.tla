--------------------------- MODULE ModuleManager ---------------------------
(***************************************************************************)
(* The module manager (src/src/module_manager.cxx) and the four threads    *)
(* that operate on its modules:                                            *)
(*   "main"     LoadConfig, StartAll, StopAll and the destructors          *)
(*   "watch"    WatchLoop, which reloads a module whose file has changed   *)
(*   "role"     the redundancy manager's threads, on a change of role      *)
(*   "console"  one session of the debug console: start, stop, reload      *)
(* A module is its position in modules_.  at[t] is where thread t stands,  *)
(* op[t] the call it is in, on[t] the module the call is about:            *)
(*   "lock"     waits for mgrMtx_            "unlock"  releases it         *)
(*   "start"    Module::Start, tests running "doStart" the inner Start     *)
(*   "stop"     Module::Stop, tests running  "doStop"  clears running_     *)
(*   "join"     waits for the module's threads                             *)
(*   "validate", "load"  the file accesses of ReloadModule                 *)
(*   "callback" collectCb_, between two collectors                         *)
(***************************************************************************)
EXTENDS Naturals

CONSTANTS
  NumCollectors, \* the collectors are the first modules of app_modules.ini
  HasConsole,    \* debug_console is enabled
  HasRole,       \* redundancy is enabled; it is the last module
  DelayCovers,   \* startup_delay_ms outlasts the rest of StartAll
  Watched,       \* modules with auto_reload=1
  Targets,       \* modules the operator names in console commands
  Failing,       \* modules whose Start may fail: a port that cannot be bound, no channels
  CalmEditor,    \* files are saved only while WatchLoop sleeps
  MinGap,        \* least time between two saves of a file
  Threshold,     \* HasChanged's 500 ms, in clock units
  Granularity,   \* clock units per step of the file system's time stamps
  MaxTime,       \* bound: the clock
  MaxSaves       \* bound: saves in one behaviour

Collector  == 1 .. NumCollectors
Console    == IF HasConsole THEN NumCollectors + 1 ELSE 0
NumModules == NumCollectors + (IF HasConsole THEN 1 ELSE 0) + (IF HasRole THEN 1 ELSE 0)
Redundancy == IF HasRole THEN NumModules ELSE 0
Module     == 1 .. NumModules
Thread     == {"main", "watch", "role", "console"}
Nobody     == "nobody"

ASSUME ModuleAssumption ==
  /\ NumCollectors \in Nat \ {0}
  /\ {HasConsole, HasRole, DelayCovers, CalmEditor} \subseteq BOOLEAN
  /\ Watched \subseteq Module /\ Targets \subseteq Module /\ Failing \subseteq Module

ASSUME ClockAssumption ==
  /\ {MinGap, Threshold, MaxTime, MaxSaves} \subseteq Nat
  /\ Granularity \in Nat \ {0}

VARIABLES
  phase,     \* progress of main, see Phase
  running,   \* impl_->running of each module
  alive,     \* running_ of the object inside it: its threads run
  loaded,    \* the configuration each module has loaded
  file,      \* the configuration files
  fileTimes, \* fileTimes_
  watching,  \* running_ of the manager
  mgrMtx,    \* holder of mgrMtx_
  linked,    \* collectCb_ is set
  role,      \* role_ of the redundancy manager
  at, op, on, was,  \* the threads, see above; was is wasRunning of a reload
  session,   \* has the console's session stopped its own console, see Session
  clock, saves

calls   == <<at, op, on, was, session>>
modules == <<running, alive, loaded>>
disk    == <<file, clock, saves>>
vars    == <<phase, modules, disk, fileTimes, watching, mgrMtx, linked, role, calls>>

Phase   == {"loading", "stamping", "starting", "running", "stopping", "destroying",
            "freeing", "exited", "crashed"}
At      == {"idle", "lock", "unlock", "start", "doStart", "stop", "doStop", "join",
            "validate", "load", "callback", "ended"}

\* DebugConsole::Stop inside a session: it detaches that session, or, where
\* another Stop was under way, returned at once ("crossed").
Session == {"attached", "crossed", "detached"}
Op      == {"none", "StartModule", "StopModule", "ReloadModule", "StartAll", "StopAll"}

\* "invalid" files are refused by ValidateConfig only, the others by LoadConfig
\* too; a "missing" file has been taken away.
Content == {"good", "invalid", "unreadable", "missing"}
Config  == [content : Content, version : 0 .. MaxSaves]

-----------------------------------------------------------------------------
(* FileWatch *)

\* Mutant: time stamps in another unit than the clock.
GetTimestampScaled(f) == (f.time \div Granularity) * 1000 + 2

\* A missing file has the time stamp 0.
GetTimestamp(f) ==
  IF f.config.content = "missing" THEN 0 ELSE (f.time \div Granularity) * Granularity + 1

\* Mutant: the threshold swallows a save made a moment later.
HasChangedCoarse(old, new) == new > old + Threshold + MinGap

HasChanged(old, new) ==
  IF old = 0 \/ new = 0 THEN old = 0 /\ new # 0
  ELSE new > old + Threshold \/ old > new + Threshold

-----------------------------------------------------------------------------
(* Start, Stop, StartModule, StopModule and ReloadModule, by any thread *)

Goto(t, a) == at' = [at EXCEPT ![t] = a]

\* Thread t is inside a call of the manager.
InCall(t) == at[t] \notin {"idle", "ended", "callback"}

Call(t, a, o, i) ==
  /\ Goto(t, a)
  /\ op' = [op EXCEPT ![t] = o]
  /\ on' = [on EXCEPT ![t] = i]

\* Where a call continues once its Start, or its Stop, of the module is over.
AfterStart(t) == IF op[t] = "StartModule" THEN "unlock" ELSE "idle"
AfterStop(t)  == CASE op[t] = "StopModule"   -> "unlock"
                   [] op[t] = "ReloadModule" -> "load"
                   [] OTHER                  -> "idle"

Lock(t) ==
  /\ at[t] = "lock" /\ mgrMtx = Nobody
  /\ mgrMtx' = t
  /\ Goto(t, IF op[t] = "StartModule" THEN "start" ELSE "stop")
  /\ UNCHANGED <<phase, modules, disk, fileTimes, watching, linked, role, op, on, was, session>>

Unlock(t) ==
  /\ at[t] = "unlock"
  /\ mgrMtx' = Nobody
  /\ Goto(t, IF t = "role" THEN "callback" ELSE "idle")
  /\ UNCHANGED <<phase, modules, disk, fileTimes, watching, linked, role, op, on, was, session>>

Start(t) ==
  /\ at[t] = "start"
  /\ Goto(t, IF running[on[t]] THEN AfterStart(t) ELSE "doStart")
  /\ UNCHANGED <<phase, modules, disk, fileTimes, watching, mgrMtx, linked, role, op, on, was, session>>

\* What Start() of the object inside module i returns: true of the console
\* that runs already, false of every other object that does.
StartReturns(i) ==
  IF alive[i] THEN {i = Console} ELSE IF i \in Failing THEN BOOLEAN ELSE {TRUE}

\* impl_->running = Start() of the inner object; a failed one is only reported.
DoStart(t) ==
  LET i == on[t] IN
  /\ at[t] = "doStart"
  /\ \E started \in StartReturns(i) :
       /\ running' = [running EXCEPT ![i] = started]
       /\ alive' = [alive EXCEPT ![i] = alive[i] \/ started]
       /\ role' = IF i = Redundancy /\ started THEN "Idle" ELSE role
  /\ Goto(t, AfterStart(t))
  /\ UNCHANGED <<phase, loaded, disk, fileTimes, watching, mgrMtx, linked, op, on, was, session>>

Stop(t) ==
  /\ at[t] = "stop"
  /\ Goto(t, IF running[on[t]] THEN "doStop" ELSE AfterStop(t))
  /\ UNCHANGED <<phase, modules, disk, fileTimes, watching, mgrMtx, linked, role, op, on, was, session>>

\* running_ of the object inside is cleared.  The console's Stop does nothing
\* when it is clear already; in a session of its own it detaches that session.
DoStop(t) ==
  LET i == on[t]
      over == i = Console /\ ~alive[i]
  IN
  /\ at[t] = "doStop"
  /\ alive' = [alive EXCEPT ![i] = FALSE]
  /\ running' = [running EXCEPT ![i] = @ /\ ~over]
  /\ session' = IF t # "console" \/ i # Console THEN session
                ELSE IF ~over THEN "detached"
                ELSE IF session = "attached" THEN "crossed" ELSE session
  /\ Goto(t, IF over THEN AfterStop(t) ELSE "join")
  /\ UNCHANGED <<phase, loaded, disk, fileTimes, watching, mgrMtx, linked, role, op, on, was>>

\* The module's own threads that may be inside the manager have returned; no
\* Stop waits for a session that has been detached.
Joinable(i) ==
  /\ i = Redundancy => at["role"] = "idle"
  /\ i = Console => at["console"] = "idle" \/ session = "detached"

Join(t) ==
  /\ at[t] = "join" /\ Joinable(on[t])
  /\ running' = [running EXCEPT ![on[t]] = FALSE]
  /\ Goto(t, AfterStop(t))
  /\ UNCHANGED <<phase, alive, loaded, disk, fileTimes, watching, mgrMtx, linked, role, op, on, was, session>>

\* Two threads are at the std::threads of one module (the second join throws,
\* and nothing catches), or a thread uses the modules while they are freed.
Crash(t) ==
  /\ InCall(t)
  /\ \/ at[t] = "join" /\ \E u \in Thread \ {t} : at[u] \in {"join", "doStart"} /\ on[u] = on[t]
     \/ phase = "freeing"
  /\ phase' = "crashed"
  /\ UNCHANGED <<modules, disk, fileTimes, watching, mgrMtx, linked, role, calls>>

\* Mutant: a file that does not validate is reported and reloaded all the same.
ValidateAnyway(t) ==
  /\ at[t] = "validate"
  /\ was' = [was EXCEPT ![t] = running[on[t]]]
  /\ Goto(t, "stop")
  /\ UNCHANGED <<phase, modules, disk, fileTimes, watching, mgrMtx, linked, role, op, on, session>>

\* ReloadModule up to wasRunning: a bad file ends it, the module untouched.
Validate(t) ==
  /\ at[t] = "validate"
  /\ IF file[on[t]].config.content = "good"
     THEN Goto(t, "stop") /\ was' = [was EXCEPT ![t] = running[on[t]]]
     ELSE Goto(t, "idle") /\ UNCHANGED was
  /\ UNCHANGED <<phase, modules, disk, fileTimes, watching, mgrMtx, linked, role, op, on, session>>

\* ReloadModule's second reading of the file, after Stop.
Load(t) ==
  LET new == file[on[t]].config
      readable == new.content \in {"good", "invalid"}
  IN
  /\ at[t] = "load"
  /\ loaded' = IF readable THEN [loaded EXCEPT ![on[t]] = new] ELSE loaded
  /\ Goto(t, IF readable /\ was[t] THEN "start" ELSE "idle")
  /\ UNCHANGED <<phase, running, alive, disk, fileTimes, watching, mgrMtx, linked, role, op, on, was, session>>

-----------------------------------------------------------------------------
(* main *)

\* LoadConfig, one module: the file is read, then its time stamp.
LoadConfig ==
  LET i == on["main"] IN
  /\ phase = "loading"
  /\ loaded' = [loaded EXCEPT ![i] = file[i].config]
  /\ phase' = "stamping"
  /\ UNCHANGED <<running, alive, disk, fileTimes, watching, mgrMtx, linked, role, calls>>

RecordTimestamp ==
  LET i == on["main"] IN
  /\ phase = "stamping"
  /\ fileTimes' = IF i \in Watched
                  THEN [fileTimes EXCEPT ![i] = GetTimestamp(file[i])] ELSE fileTimes
  /\ IF i < NumModules
     THEN phase' = "loading" /\ Call("main", "idle", "none", i + 1)
     ELSE phase' = "starting" /\ Call("main", "start", "StartAll", 1)
  /\ UNCHANGED <<modules, disk, watching, mgrMtx, linked, role, was, session>>

StartNext ==
  /\ phase = "starting" /\ at["main"] = "idle" /\ on["main"] < NumModules
  /\ Call("main", "start", "StartAll", on["main"] + 1)
  /\ UNCHANGED <<phase, modules, disk, fileTimes, watching, mgrMtx, linked, role, was, session>>

\* The end of StartAll: collectCb_ is registered, WatchLoop is started.
LinkRedundancy ==
  /\ phase = "starting" /\ at["main"] = "idle" /\ on["main"] = NumModules
  /\ phase' = "running"
  /\ linked' = (HasRole /\ running[NumModules])
  /\ watching' = (Watched # {})
  /\ at' = [at EXCEPT !["watch"] = IF Watched # {} THEN "idle" ELSE "ended"]
  /\ UNCHANGED <<modules, disk, fileTimes, mgrMtx, role, op, on, was, session>>

\* Mutant: main leaves it to the destructors to stop the modules.
StopRequestReturns ==
  /\ phase = "running"
  /\ phase' = "freeing"
  /\ watching' = FALSE
  /\ Call("main", "idle", "none", 1)
  /\ UNCHANGED <<modules, disk, fileTimes, mgrMtx, linked, role, was, session>>

\* g_running is cleared; StopAll begins with running_ = false.
StopRequest ==
  /\ phase = "running"
  /\ phase' = "stopping"
  /\ watching' = FALSE
  /\ Call("main", "idle", "StopAll", NumModules + 1)
  /\ UNCHANGED <<modules, disk, fileTimes, mgrMtx, linked, role, was, session>>

\* Mutant: StopAll under mgrMtx_, as StartModule and StopModule are.
StopNextLocked ==
  /\ phase \in {"stopping", "destroying"} /\ at["main"] = "idle" /\ on["main"] > 1
  /\ at["watch"] = "ended" /\ mgrMtx \in {Nobody, "main"}
  /\ mgrMtx' = "main"
  /\ Call("main", "stop", "StopAll", on["main"] - 1)
  /\ UNCHANGED <<phase, modules, disk, fileTimes, watching, linked, role, was, session>>

\* StopAll: WatchLoop is joined, then the modules are stopped from the last
\* to the first, without mgrMtx_.
StopNext ==
  /\ phase \in {"stopping", "destroying"} /\ at["main"] = "idle" /\ on["main"] > 1
  /\ at["watch"] = "ended"
  /\ Call("main", "stop", "StopAll", on["main"] - 1)
  /\ UNCHANGED <<phase, modules, disk, fileTimes, watching, mgrMtx, linked, role, was, session>>

\* main returns: ~ModuleManager runs StopAll once more, then modules_ goes.
Destroy ==
  /\ phase \in {"stopping", "destroying"} /\ at["main"] = "idle" /\ on["main"] = 1
  /\ IF phase = "stopping"
     THEN phase' = "destroying" /\ Call("main", "idle", "StopAll", NumModules + 1)
     ELSE phase' = "freeing" /\ Call("main", "idle", "none", 1)
  /\ UNCHANGED <<modules, disk, fileTimes, watching, mgrMtx, linked, role, was, session>>

\* The destructor of one module and of the object inside it, whose Stop runs
\* whatever impl_->running says.
Free ==
  LET i == on["main"] IN
  /\ phase = "freeing"
  /\ alive' = [alive EXCEPT ![i] = FALSE]
  /\ IF alive[i]
     THEN UNCHANGED <<phase, running, at, op, on>>
     ELSE /\ Joinable(i)
          /\ running' = [running EXCEPT ![i] = FALSE]
          /\ IF i < NumModules
             THEN Call("main", "idle", "none", i + 1) /\ UNCHANGED phase
             ELSE phase' = "exited" /\ UNCHANGED <<at, op, on>>
  /\ UNCHANGED <<loaded, disk, fileTimes, watching, mgrMtx, linked, role, was, session>>

-----------------------------------------------------------------------------
(* WatchLoop; running_ is not looked at in the middle of a sweep *)

WatchScan(i) ==
  LET new == GetTimestamp(file[i]) IN
  /\ at["watch"] = "idle" /\ i \in Watched
  /\ HasChanged(fileTimes[i], new)
  /\ fileTimes' = [fileTimes EXCEPT ![i] = new]
  /\ Call("watch", "validate", "ReloadModule", i)
  /\ UNCHANGED <<phase, modules, disk, watching, mgrMtx, linked, role, was, session>>

WatchEnd ==
  /\ at["watch"] = "idle" /\ ~watching
  /\ Goto("watch", "ended")
  /\ UNCHANGED <<phase, modules, disk, fileTimes, watching, mgrMtx, linked, role, op, on, was, session>>

-----------------------------------------------------------------------------
(* The redundancy manager and the console *)

\* A thread of the redundancy manager has decided and SetRole writes role_.
ChangeRole(r) ==
  /\ HasRole /\ at["role"] = "idle" /\ alive[Redundancy] /\ role # r
  /\ DelayCovers => phase # "starting"
  /\ role' = r
  /\ Call("role", "callback", IF r = "Master" THEN "StartModule" ELSE "StopModule", 0)
  /\ UNCHANGED <<phase, modules, disk, fileTimes, watching, mgrMtx, linked, was, session>>

\* Mutant: the list of collectors in the callback misses the last one.
CollectCallbackShort ==
  /\ at["role"] = "callback"
  /\ IF linked /\ on["role"] + 1 < NumCollectors
     THEN Call("role", "lock", op["role"], on["role"] + 1)
     ELSE Call("role", "idle", "none", 0)
  /\ UNCHANGED <<phase, modules, disk, fileTimes, watching, mgrMtx, linked, role, was, session>>

\* collectCb_ starts or stops the collectors one by one, if it is set.
CollectCallback ==
  /\ at["role"] = "callback"
  /\ IF linked /\ on["role"] < NumCollectors
     THEN Call("role", "lock", op["role"], on["role"] + 1)
     ELSE Call("role", "idle", "none", 0)
  /\ UNCHANGED <<phase, modules, disk, fileTimes, watching, mgrMtx, linked, role, was, session>>

\* Commands "start", "stop" and "reload" of the debug console.
Command(o, i) ==
  /\ HasConsole /\ at["console"] = "idle" /\ alive[Console] /\ i \in Targets
  /\ Call("console", IF o = "ReloadModule" THEN "validate" ELSE "lock", o, i)
  /\ UNCHANGED <<phase, modules, disk, fileTimes, watching, mgrMtx, linked, role, was, session>>

-----------------------------------------------------------------------------
(* The disk *)

\* Someone edits a file; what the modules first load is good.
Save(i, c) ==
  /\ i \in Watched /\ saves < MaxSaves /\ clock >= file[i].time + MinGap
  /\ CalmEditor => phase = "running" /\ at["watch"] = "idle"
  /\ phase \in {"loading", "stamping", "starting"} => c = "good"
  /\ file' = [file EXCEPT ![i] = [config |-> [content |-> c, version |-> saves + 1], time |-> clock]]
  /\ saves' = saves + 1
  /\ UNCHANGED <<phase, modules, clock, fileTimes, watching, mgrMtx, linked, role, calls>>

Tick ==
  /\ clock < MaxTime /\ saves < MaxSaves
  /\ clock' = clock + 1
  /\ UNCHANGED <<phase, modules, file, saves, fileTimes, watching, mgrMtx, linked, role, calls>>

-----------------------------------------------------------------------------
Init ==
  LET fresh == [content |-> "good", version |-> 0] IN
  /\ phase = "loading"
  /\ running = [i \in Module |-> FALSE]
  /\ alive = [i \in Module |-> FALSE]
  /\ loaded = [i \in Module |-> fresh]
  /\ file = [i \in Module |-> [config |-> fresh, time |-> 0]]
  /\ fileTimes = [i \in Module |-> 0]
  /\ watching = FALSE /\ mgrMtx = Nobody /\ linked = FALSE /\ role = "Idle"
  /\ at = [t \in Thread |-> IF t = "watch" THEN "ended" ELSE "idle"]
  /\ op = [t \in Thread |-> "none"]
  /\ on = [t \in Thread |-> IF t = "main" THEN 1 ELSE 0]
  /\ was = [t \in Thread |-> FALSE] /\ session = "attached"
  /\ clock = 0 /\ saves = 0

CallStep(t) ==
  \/ Lock(t) \/ Unlock(t)
  \/ Start(t) \/ DoStart(t)
  \/ Stop(t) \/ DoStop(t) \/ Join(t) \/ Crash(t)
  \/ Validate(t) \/ Load(t)

MainStep ==
  LoadConfig \/ RecordTimestamp \/ StartNext \/ LinkRedundancy \/ StopNext \/ Destroy \/ Free

Environment ==
  \/ StopRequest \/ Tick
  \/ \E r \in {"Standby", "Master"} : ChangeRole(r)
  \/ \E i \in Module : \/ \E o \in {"StartModule", "StopModule", "ReloadModule"} : Command(o, i)
                       \/ \E c \in Content : Save(i, c)

Halted == phase \in {"exited", "crashed"} /\ UNCHANGED vars

Next ==
  \/ /\ phase \notin {"exited", "crashed"}
     /\ \/ \E t \in Thread : CallStep(t)
        \/ MainStep \/ CollectCallback \/ WatchEnd
        \/ \E i \in Module : WatchScan(i)
        \/ Environment
  \/ Halted

Spec == Init /\ [][Next]_vars

\* Every thread that is not blocked runs on; the watch thread sweeps again
\* and again.  Strong fairness on mgrMtx_: an operator types too slowly to keep
\* it from another thread for good.  Nobody need change the role, type, save
\* or stop the program.
Fairness ==
  /\ \A t \in Thread : /\ WF_vars(phase # "crashed" /\ CallStep(t))
                        /\ SF_vars(phase # "crashed" /\ Lock(t))
  /\ WF_vars(phase # "crashed" /\ MainStep)
  /\ WF_vars(phase # "crashed" /\ CollectCallback)
  /\ WF_vars(phase # "crashed" /\ WatchEnd)
  /\ \A i \in Module : WF_vars(phase # "crashed" /\ WatchScan(i))

FairSpec == Spec /\ Fairness
-----------------------------------------------------------------------------
(* Properties *)

CallTypes ==
  /\ at \in [Thread -> At] /\ op \in [Thread -> Op]
  /\ on \in [Thread -> 0 .. NumModules + 1] /\ was \in [Thread -> BOOLEAN]
  /\ mgrMtx \in Thread \cup {Nobody} /\ session \in Session

ModuleTypes ==
  /\ running \in [Module -> BOOLEAN] /\ alive \in [Module -> BOOLEAN]
  /\ loaded \in [Module -> Config]

FileTypes ==
  /\ file \in [Module -> [config : Config, time : 0 .. MaxTime]]
  /\ fileTimes \in [Module -> 0 .. MaxTime + 1]
  /\ clock \in 0 .. MaxTime /\ saves \in 0 .. MaxSaves

ManagerTypes ==
  /\ phase \in Phase /\ watching \in BOOLEAN /\ linked \in BOOLEAN
  /\ role \in {"Idle", "Standby", "Master"}

TypeOK == CallTypes /\ ModuleTypes /\ FileTypes /\ ManagerTypes

\* collectCb_ (main.cxx: the role switch manages the collectors): between two
\* switches a Master collects and a Standby does not, with every collector that
\* neither a hot reload nor the operator touches and whose Start does not fail.
CollectorsFollowRole ==
  phase = "running" /\ linked /\ alive[Redundancy] /\ at["role"] = "idle" /\ role # "Idle"
    => \A i \in Collector \ (Watched \cup Targets \cup Failing) : alive[i] = (role = "Master")

\* StopAll and the destructors: when the program ends no module's threads are
\* left, and no other thread is inside the manager that is being destroyed, as
\* long as no session has stopped or reloaded its own console.
ShutdownComplete ==
  phase = "exited" /\ session = "attached" =>
    /\ \A i \in Module : ~alive[i]
    /\ \A t \in Thread \ {"main"} : at[t] \in {"idle", "ended"}
    /\ mgrMtx = Nobody

\* Stopping the program never hangs: no thread that StopAll joins waits for a
\* mutex that is not given back.  (A second join may still crash it.)
StopReturns == phase = "stopping" ~> phase \in {"exited", "crashed"}

\* Hot reload: a configuration that stays on disk is the one in use in the end.
ReloadCatchesUp ==
  \A i \in Watched :
    <>[](phase = "running")
      => <>[](file[i].config.content = "good" => loaded[i].version = file[i].config.version)

\* Hot reload of a bad file keeps the old configuration, and keeps it running
\* unless the module's Start fails.
KeepsOldConfig ==
  phase = "running" /\ at["watch"] = "idle"
    => \A i \in Watched : loaded[i].content = "good" /\ (i \in Failing \/ running[i])
=============================================================================
