---------------------------- MODULE Iec104Master ---------------------------
(* A channel of the IEC 60870-5-104 master (iec104_master.cxx, ChannelThread) *)
(* with its two endpoints and the station behind them.                       *)
(*                                                                           *)
(*   "connect" -> "handshake" -> "start" (first GI and clock) -> "run"       *)
(*   -> "connect", or "pause" when no endpoint answers                       *)
(* One pass of the loop "run" takes a receive timeout at most (1 s); ages    *)
(* are counted in passes up to their limits.                                 *)
EXTENDS Naturals

CONSTANTS
  Fallback,       \* fallback=1
  RetryCount,     \* retry_count
  SeqModulus,     \* 2^15 in the code
  KWindow,        \* K_WINDOW (12)
  T3, TestLimit,  \* T3 (20 s) and TESTFR_TIMEOUT (15 s), in passes
  GiTicks         \* gi_cycle_s, in passes; 0 turns the GI off

VARIABLES
  at,             \* where ChannelThread is
  currentEp,      \* endpoint that was connected last
  tried,          \* endpoints tried in this round
  retryLeft,      \* attempts left for the endpoint being tried
  up,             \* does an endpoint accept connections; "absent": no standby_ip
  station,        \* what the connection's other end does
  sendSeq, recvSeq,
  silence,        \* age of lastRecvTime
  testAge,        \* age of lastTestFrSent while testFrPending, else NotPending
  giAge           \* age of lastGI

vars == <<at, currentEp, tried, retryLeft, up, station, sendSeq, recvSeq, silence,
          testAge, giAge>>

Endpoint == {0, 1}
Configured == {e \in Endpoint : up[e] # "absent"}
NotPending == TestLimit + 2
Older(age, limit) == IF age > limit THEN age ELSE age + 1
Successor(seq) == (seq + 1) % SeqModulus

Init ==
  /\ at = "connect" /\ currentEp = 0 /\ tried = 0 /\ retryLeft = RetryCount
  /\ up \in {[e \in Endpoint |-> IF e = 0 THEN "yes" ELSE standby] : standby \in {"yes", "absent"}}
  /\ station = "none"
  /\ sendSeq = 0 /\ recvSeq = 0
  /\ silence = 0 /\ testAge = NotPending /\ giAge = 0

-----------------------------------------------------------------------------
(* Connecting: the endpoint used last, then the other one.                   *)

(* Mutant: the other endpoint is never tried. *)
CandidateFirst == currentEp

Candidate == (currentEp + tried) % 2

NextCandidate == tried' = tried + 1 /\ retryLeft' = RetryCount

Connect ==
  /\ at = "connect" /\ tried < 2 /\ retryLeft > 0 /\ up[Candidate] = "yes"
  /\ at' = "handshake"
  /\ currentEp' = Candidate
  /\ station' = "alive"
  /\ sendSeq' = 0 /\ recvSeq' = 0
  /\ UNCHANGED <<tried, retryLeft, up, silence, testAge, giAge>>

ConnectFails ==
  /\ at = "connect" /\ tried < 2 /\ retryLeft > 0 /\ up[Candidate] = "no"
  /\ IF retryLeft > 1 THEN retryLeft' = retryLeft - 1 /\ UNCHANGED tried
                      ELSE NextCandidate
  /\ UNCHANGED <<at, currentEp, up, station, sendSeq, recvSeq, silence, testAge, giAge>>

(* Nothing is tried without an address, nor with retry_count 0. *)
SkipEndpoint ==
  /\ at = "connect" /\ tried < 2 /\ (Candidate \notin Configured \/ retryLeft = 0)
  /\ NextCandidate
  /\ UNCHANGED <<at, currentEp, up, station, sendSeq, recvSeq, silence, testAge, giAge>>

(* Every endpoint failed: ten seconds, then from the beginning. *)
Pause ==
  /\ at = "connect" /\ tried = 2
  /\ tried' = 0 /\ retryLeft' = RetryCount
  /\ UNCHANGED <<at, currentEp, up, station, sendSeq, recvSeq, silence, testAge, giAge>>

-----------------------------------------------------------------------------
(* STARTDT and what is sent first.                                           *)

EnterRun ==
  /\ at' = "run"
  /\ silence' = 0 /\ testAge' = NotPending /\ giAge' = 0

(* Whatever frame comes first is taken for the confirmation: an I frame is   *)
(* lost and not counted.                                                     *)
Handshake ==
  /\ at = "handshake" /\ station # "mute"
  /\ at' = "start"
  /\ UNCHANGED <<currentEp, tried, retryLeft, up, station, sendSeq, recvSeq, silence,
                 testAge, giAge>>

(* The five seconds are over: the exception skips the first GI, and the      *)
(* connection is used as it is.                                              *)
HandshakeTimesOut ==
  /\ at = "handshake"
  /\ EnterRun
  /\ UNCHANGED <<currentEp, tried, retryLeft, up, station, sendSeq, recvSeq>>

FirstGi ==
  /\ at = "start"
  /\ sendSeq' = IF GiTicks > 0 THEN Successor(sendSeq) ELSE sendSeq
  /\ EnterRun
  /\ UNCHANGED <<currentEp, tried, retryLeft, up, station, recvSeq>>

-----------------------------------------------------------------------------
(* One pass of the loop: RecvFrame, then the timers.                         *)

Disconnect ==
  /\ at' = "connect"
  /\ tried' = 0 /\ retryLeft' = RetryCount
  /\ currentEp' = IF Fallback THEN 0 ELSE currentEp
  /\ station' = "none"

Unacked(rcvd) == (sendSeq + SeqModulus - rcvd) % SeqModulus

(* Mutant: another TESTFR is sent, and timed anew, while one is pending. *)
TimersAnew(age, pending, rcvd) ==
  LET test == IF age > T3 THEN 0 ELSE pending IN
  IF test # NotPending /\ test > TestLimit
    THEN /\ Disconnect
         /\ UNCHANGED <<sendSeq, silence, testAge, giAge>>
    ELSE /\ silence' = age /\ testAge' = test
         /\ IF GiTicks > 0 /\ giAge >= GiTicks /\ Unacked(rcvd) < KWindow
              THEN sendSeq' = Successor(sendSeq) /\ giAge' = 0
              ELSE UNCHANGED sendSeq /\ giAge' = Older(giAge, GiTicks)
         /\ UNCHANGED <<at, tried, retryLeft, currentEp, station>>

(* age, pending: silence and testAge after RecvFrame; rcvd: recvSeq. *)
Timers(age, pending, rcvd) ==
  LET sendTest == pending = NotPending /\ age > T3
      test == IF sendTest THEN 0 ELSE pending IN
  IF test # NotPending /\ test > TestLimit
    THEN /\ Disconnect
         /\ UNCHANGED <<sendSeq, silence, testAge, giAge>>
    ELSE /\ silence' = age /\ testAge' = test
         /\ IF GiTicks > 0 /\ giAge >= GiTicks /\ Unacked(rcvd) < KWindow
              THEN sendSeq' = Successor(sendSeq) /\ giAge' = 0
              ELSE UNCHANGED sendSeq /\ giAge' = Older(giAge, GiTicks)
         /\ UNCHANGED <<at, tried, retryLeft, currentEp, station>>

ReceiveI ==
  /\ at = "run" /\ station = "alive"
  /\ recvSeq' = Successor(recvSeq)       \* and an S frame with it
  /\ Timers(0, IF testAge = NotPending THEN testAge ELSE Older(testAge, TestLimit),
            recvSeq')
  /\ UNCHANGED up

(* frame: "testcon" in the byte order of this code, or any other one. *)
ReceiveOther(frame) ==
  /\ at = "run" /\ station = "alive"
  /\ Timers(0, IF frame = "testcon" \/ testAge = NotPending THEN NotPending
               ELSE Older(testAge, TestLimit), recvSeq)
  /\ UNCHANGED <<up, recvSeq>>

(* A receive timeout, or an end of file, which is taken for silence. *)
ReceiveNothing ==
  /\ at = "run"
  /\ Timers(Older(silence, T3),
            IF testAge = NotPending THEN testAge ELSE Older(testAge, TestLimit), recvSeq)
  /\ UNCHANGED <<up, recvSeq>>

(* Reading from or writing to a connection that was reset. *)
LoseConnection ==
  /\ at = "run" /\ station = "closed"
  /\ Disconnect
  /\ UNCHANGED <<up, sendSeq, recvSeq, silence, testAge, giAge>>

-----------------------------------------------------------------------------
(* The station and the two networks.                                         *)

(* "closed" as well by RecvFrame itself, after an impossible APDU length.    *)
StationFails(how) ==
  /\ station = "alive"
  /\ station' = how
  /\ UNCHANGED <<at, currentEp, tried, retryLeft, up, sendSeq, recvSeq, silence,
                 testAge, giAge>>

NetworkChanges(e) ==
  /\ e \in Configured
  /\ up' = [up EXCEPT ![e] = IF @ = "yes" THEN "no" ELSE "yes"]
  /\ UNCHANGED <<at, currentEp, tried, retryLeft, station, sendSeq, recvSeq, silence,
                 testAge, giAge>>

ChannelThread ==
  \/ Connect \/ ConnectFails \/ SkipEndpoint \/ Pause
  \/ Handshake \/ HandshakeTimesOut \/ FirstGi
  \/ ReceiveI \/ \E f \in {"testcon", "other"} : ReceiveOther(f)
  \/ ReceiveNothing \/ LoseConnection

Network == \/ \E how \in {"mute", "closed"} : StationFails(how)
           \/ \E e \in Endpoint : NetworkChanges(e)

Next == ChannelThread \/ Network
Spec == Init /\ [][Next]_vars

(* The thread of the channel goes on; station and networks do as they like.  *)
FairSpec == Spec /\ WF_vars(ChannelThread)

-----------------------------------------------------------------------------
(* A station that has gone silent or closed is given up: TESTFR after T3,    *)
(* the end of the connection when it is not confirmed.                       *)
DeadPeerNoticed == (at = "run" /\ station \in {"mute", "closed"}) ~> (at = "connect")

(* While one configured endpoint stays reachable, the channel is connected   *)
(* again and again, whichever endpoint it was connected to before.           *)
Reconnects == \A e \in Endpoint : (<>[](up[e] = "yes")) => []<>(at = "run")
=============================================================================
