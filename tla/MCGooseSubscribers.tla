------------------------- MODULE MCGooseSubscribers -------------------------
(***************************************************************************)
(* The two single-threaded goose-subscribers under one instance: the first *)
(* state picks the program that runs, and only that one takes steps.  It   *)
(* is the C adapter with a table of room entries, which may be too few for *)
(* the streams on the wire, or the Rust adapter, whose map has no limit,   *)
(* on a wire that never falls silent.                                      *)
(***************************************************************************)
EXTENDS GooseWire, FiniteSets

CONSTANT
  Rooms         (* The values of MAX_STREAMS the C adapter is run with.    *)

Unbounded == 0  (* The room of the Rust map.                               *)

ASSUME RoomsAssumption == Rooms \subseteq Nat \ {Unbounded}

VARIABLES room, pc, g_streams, left, order, deadline, timed_out

C(n) == INSTANCE GooseSubscriberC WITH MAX_STREAMS <- n
Rs == INSTANCE GooseSubscriberRs WITH Endless <- TRUE

own == <<room, pc, g_streams, left, order, deadline, timed_out>>
vars == <<alive, wire, output, history, own>>

InRs == room = Unbounded

(* The variables of a program that does not run keep their first values.   *)
Init ==
  /\ room \in Rooms \cup {Unbounded}
  /\ \A n \in Rooms : C(n)!Init
  /\ Rs!Init

(* Only the program that was picked takes steps.                           *)
CKeeps == UNCHANGED <<room, order, deadline>>
RsKeeps == UNCHANGED <<room, g_streams, left>>

Next ==
  \/ \E n \in Rooms : room = n /\ C(n)!Next /\ CKeeps
  \/ InRs /\ Rs!Next /\ RsKeeps

Thread ==
  \/ \E n \in Rooms : room = n /\ C(n)!Thread /\ CKeeps
  \/ InRs /\ Rs!Thread /\ RsKeeps

Tick ==
  \/ \E n \in Rooms : room = n /\ C(n)!Tick /\ CKeeps
  \/ InRs /\ Rs!Tick /\ RsKeeps

Spec == Init /\ [][Next]_vars /\ WF_vars(Thread) /\ WF_vars(Tick)

-----------------------------------------------------------------------------

(***************************************************************************)
(* The deadline a stream's entry holds is that of its last frame, and its  *)
(* flag is what the reader was last told, in the C table (listener,        *)
(* check_supervision) and in the Rust map.                                 *)
(***************************************************************************)
DeadlineFollowsFrames ==
  /\ \A n \in Rooms : room = n => C(n)!DeadlineFollowsFrames
  /\ InRs => Rs!DeadlineFollowsFrames

(***************************************************************************)
(* A lapsed stream is reported (docs/goose.md, "Supervision"): by the C    *)
(* adapter when it has an entry for every stream and the traffic ends, by  *)
(* the Rust adapter whatever traffic there is.                             *)
(***************************************************************************)
LapseReported ==
  \A r \in Refs :
    (InRs \/ room >= Cardinality(Refs)) /\ Contract!Due(r) ~> Contract!Reported(r)
=============================================================================
