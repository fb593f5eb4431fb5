---------------------------- MODULE DataRecorder ---------------------------
(* The data recorder (data_recorder.cxx): the thread that publishes changes  *)
(* of a DI point, the timer thread that keeps the connection and saves the   *)
(* samples of an AI point, the module's Start and Stop, and the MySQL server.*)
(* A connection is a number; mysql_ names the one in use, 0 is nullptr.      *)
(*                                                                           *)
(* Timer: "sleep" -> "check" -> "connect" -> "swapped" (mysql_ exchanged,    *)
(* the old connection to be closed) -> "tables" -> "write" -> "sweep" ->     *)
(* "sleep"; "ended" after Stop().  Publisher: "idle" -> "event" -> "locked"  *)
(* (has mysqlMtx_) -> "querying" (di_log) -> "logged" -> "querying"          *)
(* (rt_status) -> "idle".                                                    *)
EXTENDS Naturals, FiniteSets

CONSTANTS
  Interval,       \* interval_ms of the AI point, in ticks of the clock
  MaxNow,         \* bound on the clock
  MaxBreaks,      \* bound on the failures of the server
  MaxStarts,      \* bound on the starts of the module
  MaxDiChanges    \* bound on the changes of the DI point

(* An interval of 0 or less has no aligned times: AlignTimestamp leaves the  *)
(* time as it is.                                                            *)
ASSUME RecorderAssumption ==
  /\ Interval \in Nat \ {0}
  /\ {MaxNow, MaxBreaks, MaxStarts, MaxDiChanges} \subseteq Nat

VARIABLES
  up,             \* does the server answer
  made,           \* connections made so far: 1 .. made
  broken,         \* connections that the server has lost
  closed,         \* connections given to mysql_close()
  mysql,          \* mysql_
  old,            \* what exchange() returned, to be closed
  recording,      \* DataRecorder::running_
  module,         \* DataRecorderModule: "stopped", "running", "stopping"
  timer,          \* where the timer thread is
  publisher,      \* where the publishing thread is
  using,          \* the connection that the publisher's query has loaded
  stage,          \* the table of that query
  sweeping,       \* the connection that DropOldTables has loaded
  now,            \* NowMs()
  lastSave,       \* lastSaveMs of the AI point
  samples,        \* rows of ai_log, by aligned time
  again,          \* the file was loaded anew, or the clock set back
  starts, breaks, diChanges   \* bounds

server == <<up, broken>>
handles == <<made, closed, mysql, old>>
control == <<recording, module>>
event == <<publisher, using, stage>>
sampling == <<now, lastSave, samples, again>>
limits == <<starts, breaks, diChanges>>
recorderVars == <<server, handles, control, timer, event, sweeping, sampling, limits>>

MutexFree == publisher \in {"idle", "event"}
Usable(h) == h # 0 /\ h \notin broken \cup closed
Slot(t) == t \div Interval

RecorderInit ==
  /\ up \in BOOLEAN
  /\ made = 0 /\ broken = {} /\ closed = {} /\ mysql = 0 /\ old = 0
  /\ recording = FALSE /\ module = "stopped" /\ timer = "ended"
  /\ publisher = "idle" /\ using = 0 /\ stage = "log" /\ sweeping = 0
  /\ now = Interval /\ lastSave = 0 /\ again = FALSE
  /\ samples = [s \in Slot(Interval)..Slot(MaxNow) |-> 0]
  /\ starts = 0 /\ breaks = 0 /\ diChanges = 0

-----------------------------------------------------------------------------
(* The module.                                                               *)

(* ParseConfig puts every point in anew, with lastSaveMs 0. *)
ParseConfig == lastSave' = 0 /\ again' = (starts > 0)

(* A connection that was made but whose tables were not is closed again.     *)
StartRecorder(outcome) ==
  /\ module = "stopped" /\ starts < MaxStarts
  /\ starts' = starts + 1
  /\ ParseConfig
  /\ CASE outcome = "connected" -> /\ up /\ made' = made + 1 /\ mysql' = made + 1
                                   /\ UNCHANGED closed
       [] outcome = "no tables" -> /\ up /\ made' = made + 1 /\ mysql' = 0
                                   /\ closed' = closed \cup {made + 1}
       [] outcome = "failed"    -> UNCHANGED <<made, mysql, closed>>
  /\ recording' = TRUE /\ module' = "running" /\ timer' = "sleep"
  /\ UNCHANGED <<server, old, event, sweeping, now, samples, breaks, diChanges>>

StopBegins ==
  /\ module = "running"
  /\ module' = "stopping" /\ recording' = FALSE
  /\ UNCHANGED <<server, handles, timer, event, sweeping, sampling, limits>>

(* DisconnectMySQL, without mysqlMtx_. *)
StopEnds ==
  /\ module = "stopping" /\ timer = "ended"
  /\ module' = "stopped"
  /\ closed' = IF mysql = 0 THEN closed ELSE closed \cup {mysql}
  /\ mysql' = 0
  /\ UNCHANGED <<server, made, old, recording, timer, event, sweeping, sampling, limits>>

-----------------------------------------------------------------------------
(* TimerThread.                                                              *)

Tick ==
  /\ timer = "sleep"
  /\ timer' = IF recording THEN "check" ELSE "ended"
  /\ UNCHANGED <<server, handles, control, event, sweeping, sampling, limits>>

(* Mutant: only a connection that there was is made again. *)
CheckPing ==
  /\ timer = "check" /\ (mysql = 0 \/ MutexFree)
  /\ timer' = IF mysql = 0 \/ Usable(mysql) THEN "write" ELSE "connect"
  /\ UNCHANGED <<server, handles, control, event, sweeping, sampling, limits>>

(* No connection at all, or a ping (under mysqlMtx_) that fails. *)
Check ==
  /\ timer = "check" /\ (mysql = 0 \/ MutexFree)
  /\ timer' = IF Usable(mysql) THEN "write" ELSE "connect"
  /\ UNCHANGED <<server, handles, control, event, sweeping, sampling, limits>>

Connect ==
  /\ timer = "connect" /\ up
  /\ made' = made + 1 /\ mysql' = made + 1 /\ old' = mysql
  /\ timer' = "swapped"
  /\ UNCHANGED <<server, closed, control, event, sweeping, sampling, limits>>

ConnectFails ==
  /\ timer = "connect" /\ ~up
  /\ timer' = "sleep"
  /\ UNCHANGED <<server, handles, control, event, sweeping, sampling, limits>>

CloseOld ==
  /\ timer = "swapped"
  /\ closed' = IF old = 0 THEN closed ELSE closed \cup {old}
  /\ old' = 0
  /\ timer' = "tables"
  /\ UNCHANGED <<server, made, mysql, control, event, sweeping, sampling, limits>>

CreateTables ==
  /\ timer = "tables" /\ MutexFree
  /\ timer' = "write"
  /\ UNCHANGED <<server, handles, control, event, sweeping, sampling, limits>>

(* Mutant: the interval counts the tick of the last sample. *)
ElapsedInclusive == IF now < lastSave THEN MaxNow + Interval ELSE now - lastSave + 1

(* The difference of two unsigned times. *)
Elapsed == IF now < lastSave THEN MaxNow + Interval ELSE now - lastSave

(* last_seen and WriteAI under one lock.  A sample that is due counts as     *)
(* saved, written or not.                                                    *)
WriteAI ==
  /\ timer = "write" /\ MutexFree
  /\ timer' = "sweep"
  /\ IF mysql = 0 \/ Elapsed < Interval THEN UNCHANGED <<samples, lastSave>>
     ELSE /\ lastSave' = now
          /\ samples' = IF Usable(mysql) THEN [samples EXCEPT ![Slot(now)] = @ + 1]
                                         ELSE samples
  /\ UNCHANGED <<server, handles, control, event, sweeping, now, again, limits>>

(* Every so many ticks DropOldTables, without mysqlMtx_. *)
DropOldTables ==
  /\ timer = "sweep"
  /\ IF sweeping = 0 /\ mysql # 0
       THEN sweeping' = mysql /\ UNCHANGED timer
       ELSE sweeping' = 0 /\ timer' = "sleep"
  /\ UNCHANGED <<server, handles, control, event, sampling, limits>>

SkipSweep ==
  /\ timer = "sweep" /\ sweeping = 0
  /\ timer' = "sleep"
  /\ UNCHANGED <<server, handles, control, event, sweeping, sampling, limits>>

-----------------------------------------------------------------------------
(* OnDIChange in the thread that changes the point: unsubscribing does not   *)
(* stop a call that has begun.                                               *)

Publish ==
  /\ publisher = "idle" /\ diChanges < MaxDiChanges
  /\ diChanges' = diChanges + 1
  /\ publisher' = IF module = "running" /\ mysql # 0 THEN "event" ELSE "idle"
  /\ UNCHANGED <<server, handles, control, timer, using, stage, sweeping, sampling,
                 starts, breaks>>

Lock ==
  /\ publisher = "event"
  /\ publisher' = "locked" /\ stage' = "log"
  /\ UNCHANGED <<server, handles, control, timer, using, sweeping, sampling, limits>>

(* ExecSQLPrintLocked loads mysql_ and passes it on; nullptr ends the call. *)
Load ==
  /\ publisher = "locked"
  /\ using' = mysql
  /\ publisher' = IF mysql = 0 THEN "idle" ELSE "querying"
  /\ UNCHANGED <<server, handles, control, timer, stage, sweeping, sampling, limits>>

Query ==
  /\ publisher = "querying"
  /\ using' = 0
  /\ IF stage = "log" THEN publisher' = "locked" /\ stage' = "rt"
                      ELSE publisher' = "idle" /\ stage' = "log"
  /\ UNCHANGED <<server, handles, control, timer, sweeping, sampling, limits>>

-----------------------------------------------------------------------------
(* Server and clock.                                                         *)

ServerFails ==
  /\ up /\ breaks < MaxBreaks
  /\ breaks' = breaks + 1
  /\ up' = FALSE /\ broken' = 1..made
  /\ UNCHANGED <<handles, control, timer, event, sweeping, sampling, starts, diChanges>>

ServerComesBack ==
  /\ ~up
  /\ up' = TRUE
  /\ UNCHANGED <<broken, handles, control, timer, event, sweeping, sampling, limits>>

Clock ==
  /\ now < MaxNow
  /\ now' = now + 1
  /\ UNCHANGED <<server, handles, control, timer, event, sweeping, lastSave, samples,
                 again, limits>>

ClockSetBack ==
  /\ now > Interval /\ ~again
  /\ now' = now - 1 /\ again' = TRUE
  /\ UNCHANGED <<server, handles, control, timer, event, sweeping, lastSave, samples,
                 limits>>

-----------------------------------------------------------------------------
RecorderTimer == \/ Tick \/ Check \/ Connect \/ ConnectFails \/ CloseOld \/ CreateTables
               \/ WriteAI \/ DropOldTables \/ SkipSweep
Publisher == Lock \/ Load \/ Query

RecorderNext ==
  \/ RecorderTimer \/ Publisher \/ Publish
  \/ \E o \in {"connected", "no tables", "failed"} : StartRecorder(o)
  \/ StopBegins \/ StopEnds
  \/ ServerFails \/ ServerComesBack \/ Clock \/ ClockSetBack

RecorderSpec == RecorderInit /\ [][RecorderNext]_recorderVars

(* The two threads go on and Stop() gets to its end; the server need not     *)
(* come back, nor the clock move.                                            *)
RecorderFairSpec ==
  /\ RecorderSpec
  /\ WF_recorderVars(RecorderTimer) /\ WF_recorderVars(Publisher) /\ WF_recorderVars(StopEnds)

-----------------------------------------------------------------------------
(* "Aligned in time and without repetition": an aligned time has one sample  *)
(* at most, unless the file was loaded anew or the clock was set back.       *)
OnePerSlot == again \/ \A s \in DOMAIN samples : samples[s] <= 1

(* The recorder connects "in the background": if the server stays up while   *)
(* the module runs, there is a usable connection sooner or later, after a    *)
(* failed start as after a failure in operation.                             *)
Recovers == <>[](up /\ module = "running") => <>[]Usable(mysql)

(* "mysqlMtx_ protects the following query": the connection of a query that  *)
(* is under way is not closed.                                               *)
HandleProtected == using \notin closed
=============================================================================
