-------------------------- MODULE GooseSupervision --------------------------
(***************************************************************************)
(* What a goose-subscriber promises the reader of its standard output      *)
(* about supervision (docs/goose.md, "goose-subscriber", point 3), free of *)
(* any loop, timer, thread or stream table:                                *)
(*                                                                         *)
(*   - "timeout" is said of a gocbRef only when the timeAllowedToLive of   *)
(*     its last frame has passed, and not twice in a row;                  *)
(*   - the next frame of a timed-out gocbRef says "ok", and no other does; *)
(*   - a lapsed timeAllowedToLive is eventually followed by a "timeout",   *)
(*     unless another frame comes or the program is told to exit.          *)
(*                                                                         *)
(* The three adapters are shown to implement this specification.           *)
(***************************************************************************)
EXTENDS Integers

CONSTANTS
  Refs,     (* The gocbRefs seen on the wire.                              *)
  MaxTal    (* Largest timeAllowedToLive, in clock ticks; 0 means none.    *)

VARIABLES
  alive,    (* FALSE once the program has been told to exit.               *)
  said,     (* Last supervision state reported, per gocbRef.               *)
  tal,      (* timeAllowedToLive of the last accepted frame, per gocbRef.  *)
  age       (* Ticks since that frame, saturating at MaxTal.               *)

vars == <<alive, said, tal, age>>

Tals == 0 .. MaxTal

States == {"none", "timeout", "ok"}

TypeOK ==
  /\ alive \in BOOLEAN
  /\ said \in [Refs -> States]
  /\ tal \in [Refs -> Tals]
  /\ age \in [Refs -> Tals]

Init ==
  /\ alive = TRUE
  /\ said = [r \in Refs |-> "none"]
  /\ tal = [r \in Refs |-> 0]
  /\ age = [r \in Refs |-> 0]

(* The timeAllowedToLive of the last frame of r has passed.                *)
Lapsed(r) == tal[r] > 0 /\ age[r] >= tal[r]

Due(r) == Lapsed(r) /\ said[r] # "timeout"

(* What the clock does to the age of every stream.                         *)
Older(a) == IF a < MaxTal THEN a + 1 ELSE a

(* A frame of r ends a timeout.                                            *)
Recovered(r) == IF said[r] = "timeout" THEN "ok" ELSE said[r]

-----------------------------------------------------------------------------

(* An accepted frame of r with timeAllowedToLive t.                        *)
Frame(r, t) ==
  /\ said' = [said EXCEPT ![r] = Recovered(r)]
  /\ tal' = [tal EXCEPT ![r] = t]
  /\ age' = [age EXCEPT ![r] = 0]
  /\ UNCHANGED alive

(* The streams in S are reported as timed out.                             *)
Expire(S) ==
  /\ \A r \in S : Due(r)
  /\ said' = [r \in Refs |-> IF r \in S THEN "timeout" ELSE said[r]]
  /\ UNCHANGED <<alive, tal, age>>

Tick ==
  /\ age' = [r \in Refs |-> Older(age[r])]
  /\ UNCHANGED <<alive, said, tal>>

Exit ==
  /\ alive' = FALSE
  /\ UNCHANGED <<said, tal, age>>

Next ==
  \/ \E r \in Refs, t \in Tals : Frame(r, t)
  \/ \E S \in SUBSET Refs : Expire(S)
  \/ Tick
  \/ Exit

(* Some step reports r, or makes the report of r pointless.                *)
Reported(r) == alive => said[r] = "timeout" \/ ~Lapsed(r)

SafeSpec == Init /\ [][Next]_vars

(* A lapsed stream is reported, unless a frame of it or the exit comes.    *)
LapseIsReported == \A r \in Refs : Due(r) ~> Reported(r)

Spec == SafeSpec /\ LapseIsReported
=============================================================================
