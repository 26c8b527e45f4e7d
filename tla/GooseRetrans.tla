---------------------------- MODULE GooseRetrans ----------------------------
(***************************************************************************)
(* The retransmission schedule of the C and the Rust goose-publisher:      *)
(* MinTime, doubling below MaxTime, then MaxTime for ever.  Intervals are  *)
(* unsigned words (32 bits in the code, Word values here); C doubles       *)
(* modulo Word, Rust saturates.  The state machine walks the schedule of   *)
(* one pair of command-line times as send_frame does.                      *)
(***************************************************************************)
EXTENDS Integers, Sequences

CONSTANTS
  Word,         (* Number of values of an unsigned word (2^32).            *)
  MAX_STEPS,    (* Most intervals a schedule has (17).                     *)
  Times         (* Values of --min-time and --max-time that are tried.     *)

(* The defaults and corrections both build_schedule functions begin with.  *)
MinOf(min, max) ==
  CASE min = 0 /\ max = 0 -> 4
    [] min = 0 /\ max # 0 -> IF max \div 64 > 0 THEN max \div 64 ELSE 1
    [] OTHER -> min

MaxOf(min, max) ==
  IF min = 0 /\ max = 0 THEN 1000
  ELSE IF max < MinOf(min, max) THEN MinOf(min, max) ELSE max

(* The intervals d[0], d[1], ... below hi that the loop collects, then hi. *)
Collect(d, hi) ==
  LET Full(k) == k = MAX_STEPS - 1 \/ d[k] >= hi
      n == CHOOSE k \in 0 .. MAX_STEPS - 1 :
             Full(k) /\ \A j \in 0 .. k - 1 : ~Full(j)
  IN  [i \in 1 .. n + 1 |-> IF i <= n THEN d[i - 1] ELSE hi]

build_schedule_C(min, max) ==
  LET d[k \in 0 .. MAX_STEPS] == IF k = 0 THEN MinOf(min, max) ELSE (2 * d[k - 1]) % Word
  IN  Collect(d, MaxOf(min, max))

saturating_mul(m, n) == IF m * n < Word THEN m * n ELSE Word - 1

(* Mutant: one interval more.                                              *)
build_schedule_RsMutantLong(min, max) ==
  LET steps == build_schedule_C(min, max)
      d == MinOf(min, max) * 2^(MAX_STEPS - 1)
  IN  IF Len(steps) = MAX_STEPS /\ d < MaxOf(min, max)
        THEN SubSeq(steps, 1, MAX_STEPS - 1) \o <<d, MaxOf(min, max)>>
        ELSE steps

build_schedule_Rs(min, max) ==
  LET d[k \in 0 .. MAX_STEPS] == IF k = 0 THEN MinOf(min, max) ELSE saturating_mul(2, d[k - 1])
  IN  Collect(d, MaxOf(min, max))

(* Mutant: the schedule starts over at its end.                            *)
IntervalAtMutant(steps, step) == steps[(step % Len(steps)) + 1]

(* The interval send_frame uses at a step.                                 *)
IntervalAt(steps, step) == IF step < Len(steps) THEN steps[step + 1] ELSE steps[Len(steps)]

(* Mutant: the interval itself is announced.                               *)
TalOfMutant(interval) == interval

(* The timeAllowedToLive it announces.                                     *)
TalOf(interval) == (2 * interval) % Word

-----------------------------------------------------------------------------

VARIABLES min_time, max_time, step

vars == <<min_time, max_time, step>>

StepsC == build_schedule_C(min_time, max_time)
StepsRs == build_schedule_Rs(min_time, max_time)

Init == min_time \in Times /\ max_time \in Times /\ step = 0

(* One more frame of the same state.                                       *)
Retransmit ==
  /\ step <= MAX_STEPS
  /\ step' = step + 1
  /\ UNCHANGED <<min_time, max_time>>

(* A state change restarts the schedule.                                   *)
StateChange ==
  /\ step > 0
  /\ step' = 0
  /\ UNCHANGED <<min_time, max_time>>

Next == Retransmit \/ StateChange

Spec == Init /\ [][Next]_vars

-----------------------------------------------------------------------------

(***************************************************************************)
(* Between state changes the interval of each adapter doubles, or has      *)
(* reached its last value; it never shrinks and is never 0, so a frame     *)
(* that stays current is retransmitted ever more slowly and never in a     *)
(* busy loop (docs/goose.md: "MinTime, then doubling, capped at MaxTime,   *)
(* which repeats").                                                        *)
(***************************************************************************)
Doubling(steps) ==
  LET now == IntervalAt(steps, step)
      later == IntervalAt(steps, step + 1)
  IN  /\ now > 0
      /\ later >= now
      /\ later \in {2 * now, steps[Len(steps)]}
      /\ step = 0 => now = IF Len(steps) = 1 THEN MaxOf(min_time, max_time)
                           ELSE MinOf(min_time, max_time)
      /\ step + 1 >= Len(steps) => now = MaxOf(min_time, max_time)

(***************************************************************************)
(* The C schedule doubles, the Rust schedule is the C one ("as the C       *)
(* adapter", goose_publisher.rs:38), and timeAllowedToLive is longer than  *)
(* the interval it covers, for every frame of the walk (docs/goose.md:     *)
(* "twice the interval until the next frame").                             *)
(***************************************************************************)
ScheduleSound ==
  /\ Doubling(StepsC)
  /\ StepsC = StepsRs
  /\ TalOf(IntervalAt(StepsC, step)) > IntervalAt(StepsC, step)
=============================================================================
