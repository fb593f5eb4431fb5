-------------------------------- MODULE Cdt --------------------------------
(* The CDT slave (cdt_slave.cxx, BuildAndSend) and the CDT master            *)
(* (cdt_master.cxx, PortThread and ParseFrame) on the two ends of a line.    *)
(* The slave sends the frames of its points again and again; the line may    *)
(* corrupt or lose bytes.                                                    *)
EXTENDS Naturals, Sequences, SequencesExt, Bitwise

CONSTANTS
  Kinds,          \* frames that the slave has points for: "YC", "YX", "YM"
  Value,          \* the value of every point, a byte
  Station,        \* number of the station
  MaxFrame,       \* MAX_FRAME
  MaxFaults       \* bound on the bytes that the line corrupts or loses

VARIABLES
  toSend,         \* bytes of the round of BuildAndSend still to be sent
  line,           \* the byte on the line, or <<>>
  pos,            \* pos of PortThread
  buf,            \* buf of PortThread, as far as it was written
  expected,       \* expectedTotal while the rest of a frame is received, or 0
  stored,         \* tables of the master: kind of point -> its value
  faults

vars == <<toSend, line, pos, buf, expected, stored, faults>>

EB == 235
Sync == <<EB, 144, EB, 144, EB, 144>>
Noise == 255
Unknown == 256

-----------------------------------------------------------------------------
(* The slave: one point of a kind in its frame.  Count and station share the *)
(* bits of the control byte.                                                 *)

Function(kind) == CASE kind = "YC" -> 1 [] kind = "YX" -> 16 [] kind = "YM" -> 96
Size(kind) == CASE kind = "YC" -> 2 [] kind = "YX" -> 1 [] kind = "YM" -> 4
Count(kind) == IF kind = "YX" THEN 8 ELSE 1
Payload(kind) == [i \in 1..Size(kind) |-> IF i = 1 THEN Value ELSE 0]

(* Two bytes stand for the check sum and the zero after it. *)
Frame(kind) == Sync \o <<Function(kind), (Count(kind) | (8 * Station)) % 256>>
                    \o Payload(kind) \o <<0, 0>>
BuildAndSend == FoldLeft(LAMBDA acc, kind : acc \o Frame(kind), <<>>,
                         SelectSeq(<<"YC", "YX", "YM">>, LAMBDA k : k \in Kinds))

SendByte ==
  /\ line = <<>>
  /\ LET bytes == IF toSend = <<>> THEN BuildAndSend ELSE toSend IN
       /\ line' = <<Head(bytes)>>
       /\ toSend' = Tail(bytes)
  /\ UNCHANGED <<pos, buf, expected, stored, faults>>

Corrupt ==
  /\ line # <<>> /\ faults < MaxFaults
  /\ faults' = faults + 1
  /\ line' \in {<<Noise>>, <<>>}
  /\ UNCHANGED <<toSend, pos, buf, expected, stored>>

-----------------------------------------------------------------------------
(* The master.                                                               *)

AdvanceSyncHeader(at, byte) ==
  IF at >= 6 \/ byte = Sync[at + 1] THEN at + 1
  ELSE IF at % 2 = 1 /\ byte = EB THEN 1 ELSE 0

FunHigh(fun) == fun \div 16
FunLow(fun) == fun % 16
DataLen(fun, count) == IF FunHigh(fun) = 6 THEN 4 * count
                       ELSE IF FunLow(fun) <= 3 THEN 2 * count ELSE (count + 7) \div 8
StationOf(control) == IF control >= 128 THEN control \div 8 ELSE 1

(* ParseFrame, of a frame without its sync bytes: the first point of its     *)
(* kind gets the first byte of its data.  The check sum is not looked at.    *)
Decoded(fun) == IF FunHigh(fun) = 6 THEN "YM" ELSE IF FunLow(fun) <= 3 THEN "YC" ELSE "YX"
ParseFrame(frame) ==
  IF StationOf(frame[8]) = Station /\ Decoded(frame[7]) \in Kinds
    THEN [stored EXCEPT ![Decoded(frame[7])] = frame[9]] ELSE stored

(* The byte of a pass of the loop; sync bytes that do not fit are dropped.   *)
(* Past the sync bytes pos stays where it is.                                *)
ReadByte ==
  /\ line # <<>> /\ expected = 0
  /\ line' = <<>>
  /\ LET next == IF pos < 6 THEN AdvanceSyncHeader(pos, line[1]) ELSE pos
         taken == pos >= 6 \/ next > pos
         written == IF taken THEN SubSeq(buf, 1, next - 1) \o line ELSE buf
         fun == written[7]
         total == 6 + 2 + DataLen(fun, written[8] % 128) + 2
     IN /\ buf' = written
        /\ IF next # 8 THEN pos' = next /\ UNCHANGED expected
           ELSE IF total > MaxFrame THEN pos' = 0 /\ UNCHANGED expected
           ELSE pos' = next /\ expected' = total
  /\ UNCHANGED <<toSend, stored, faults>>

ReadRest ==
  /\ line # <<>> /\ expected > 0
  /\ line' = <<>>
  /\ buf' = Append(buf, line[1])
  /\ IF pos + 1 < expected THEN pos' = pos + 1 /\ UNCHANGED <<expected, stored>>
     ELSE pos' = 0 /\ expected' = 0 /\ stored' = ParseFrame(buf')
  /\ UNCHANGED <<toSend, faults>>

(* A silence longer than the timeout: the port is closed and opened again,   *)
(* except within the rest of a frame, which is given up.                     *)
ReadTimesOut ==
  /\ line = <<>>
  /\ pos' = 0 /\ expected' = 0
  /\ buf' = IF expected = 0 THEN <<>> ELSE buf
  /\ UNCHANGED <<toSend, line, stored, faults>>

-----------------------------------------------------------------------------
Init ==
  /\ toSend = <<>> /\ line = <<>> /\ pos = 0 /\ buf = <<>> /\ expected = 0
  /\ stored = [k \in Kinds |-> Unknown]
  /\ faults = 0

Next == SendByte \/ Corrupt \/ ReadByte \/ ReadRest \/ ReadTimesOut
Spec == Init /\ [][Next]_vars

(* Both ends go on. *)
FairSpec == Spec /\ WF_vars(SendByte) /\ WF_vars(ReadByte \/ ReadRest)

-----------------------------------------------------------------------------
(* "cdt_master receives and parses": a frame that is sent for ever on a line *)
(* that is left in peace and never silent is decoded one day.                *)
Receives == (<>[][~ReadTimesOut]_vars) => <>(\E k \in Kinds : stored[k] = Value)
=============================================================================
