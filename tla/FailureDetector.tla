-------------------------- MODULE FailureDetector ---------------------------
(***************************************************************************)
(* How a node judges another one: the phi failure detector                 *)
(* (node/src/failure_detector.cpp) with the forced failure of node.cpp.    *)
(*                                                                         *)
(* Time is counted in ticks since the last heartbeat.  The quotients of    *)
(* floats are compared after multiplying out, PHI_FACTOR being the         *)
(* fraction PhiNum / PhiDen.  The samples are added up in an int, which    *)
(* std::accumulate takes from the type of its third argument.              *)
(***************************************************************************)
EXTENDS Integers, Sequences

CONSTANTS
  SampleSize,     \* SAMPLE_SIZE
  InitialValue,   \* the interval assumed before any heartbeat
  Threshold,      \* phi_failure_threshold
  PhiNum, PhiDen, \* PHI_FACTOR
  IntHalf,        \* an int is at least -IntHalf and less than IntHalf (2^31)
  MaxInterval,    \* bound on the time between two heartbeats
  MaxElapsed      \* time is not told apart from here on

ASSUME FailureDetectorAssumption ==
  /\ \A c \in {SampleSize, InitialValue, Threshold, PhiNum, PhiDen, IntHalf,
               MaxInterval, MaxElapsed} : c \in Nat \ {0}
  /\ InitialValue <= MaxInterval
  /\ PhiNum * MaxElapsed >= Threshold * PhiDen * MaxInterval

VARIABLES
  elapsed,    \* now - _last_heartbeat
  intervals,  \* _intervals, a full circular buffer from the start
  forced      \* node::_forced_failure

detectorVars == <<elapsed, intervals, forced>>

DetectorInit ==
  /\ elapsed = 0
  /\ intervals = [i \in 1 .. SampleSize |-> InitialValue]
  /\ forced = FALSE
-----------------------------------------------------------------------------
ToInt(x) == ((x + IntHalf) % (2 * IntHalf)) - IntHalf

\* std::accumulate over the samples, from 0.
accumulate(s) ==
  LET sum[i \in 0 .. Len(s)] == IF i = 0 THEN 0 ELSE sum[i - 1] + s[i]
  IN  sum[Len(s)]

\* Mutant: the oldest sample is not added.
IntervalSumTail == ToInt(accumulate(Tail(intervals)))

\* Mutant: the time since the last heartbeat is added to every sample.
IntervalSumRunning == ToInt(accumulate(intervals)) + SampleSize * elapsed

\* current_interval_average() times SAMPLE_SIZE.
IntervalSum == ToInt(accumulate(intervals))

\* current_phi() >= _failure_threshold.  A quotient by zero is infinite, or not
\* a number if no time has passed, and then no comparison holds.
PhiAtThreshold ==
  \/ /\ IntervalSum > 0
     /\ PhiNum * elapsed * SampleSize >= Threshold * PhiDen * IntervalSum
  \/ IntervalSum = 0 /\ elapsed > 0

interpret == IF PhiAtThreshold THEN "DOWN" ELSE "UP"

\* For a node other than the local one.
is_alive == ~forced /\ interpret = "UP"

heartbeat ==
  /\ elapsed <= MaxInterval
  /\ intervals' = Append(Tail(intervals), elapsed)
  /\ elapsed' = 0
  /\ UNCHANGED forced

\* Mutant: the failure is recorded as if it were a heartbeat.
set_failed_restarts ==
  /\ forced' = TRUE /\ elapsed' = 0
  /\ UNCHANGED intervals

set_failed ==
  /\ forced' = TRUE
  /\ UNCHANGED <<elapsed, intervals>>

Tick ==
  /\ elapsed < MaxElapsed
  /\ elapsed' = elapsed + 1
  /\ UNCHANGED <<intervals, forced>>

DetectorNext == heartbeat \/ set_failed \/ Tick

DetectorSpec == DetectorInit /\ [][DetectorNext]_detectorVars

\* Time passes.
DetectorFairSpec == DetectorSpec /\ WF_detectorVars(Tick)
-----------------------------------------------------------------------------
\* The types of the samples and the time, with the size of the circular buffer.
DetectorTypeOK ==
  /\ elapsed \in 0 .. MaxElapsed
  /\ intervals \in [1 .. SampleSize -> 0 .. MaxInterval]
  /\ forced \in BOOLEAN

(***************************************************************************)
(* A node is not declared DOWN while it is silent for less time, relative  *)
(* to the shortest interval of the window, than the threshold allows: one  *)
(* that keeps its pace is UP whatever the window remembers.                *)
(***************************************************************************)
KeepingPaceIsUp ==
  (\A i \in 1 .. SampleSize : PhiNum * elapsed < Threshold * PhiDen * intervals[i])
    => interpret = "UP"

(***************************************************************************)
(* The state may go from DOWN to UP only by a heartbeat: the passing of    *)
(* time alone never revives a node.                                        *)
(***************************************************************************)
OnlyHeartbeatRevives == [][interpret = "DOWN" /\ interpret' = "UP" => heartbeat]_detectorVars

(***************************************************************************)
(* "Given a set of ping times, this class predicts when a server has       *)
(* failed": a node that stops sending heartbeats is found to be DOWN and   *)
(* stays DOWN.                                                             *)
(***************************************************************************)
SilentNodeGoesDown == ([]<><<heartbeat>>_detectorVars) \/ <>[](interpret = "DOWN")

(***************************************************************************)
(* set_failed: the node "should be marked down until we see the next       *)
(* heartbeat".                                                             *)
(* The code does not keep this statement (README, Deviations).             *)
(***************************************************************************)
AliveAfterHeartbeat == [][heartbeat => is_alive']_detectorVars
=============================================================================
