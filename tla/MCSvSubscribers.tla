--------------------------- MODULE MCSvSubscribers ---------------------------
(***************************************************************************)
(* The counting rules and the two single-threaded sv-subscribers under one *)
(* instance: the first state picks what runs, and only that takes steps.   *)
(*                                                                         *)
(*   "c"     the C adapter with room for every stream (Ample);             *)
(*   "full"  the C adapter with less room (Scant);                         *)
(*   "rs"    the Rust adapter;                                             *)
(*   "link"  one stream over a link that loses and repeats (SvLink).       *)
(*                                                                         *)
(* There are two APPIDs, one of which carries two svIDs.                   *)
(***************************************************************************)
EXTENDS SvReceiving, SvLink

CONSTANTS Ample, Scant  (* MAX_STREAMS of "c" and of "full".               *)

(* What the frames carry.                                                  *)
WireApps == {f.app : f \in Frames}
WireStreams == {s \in Streams : \E f \in Frames : \E i \in DOMAIN f.asdus : <<f.app, f.asdus[i].sv>> = s}

ASSUME RoomAssumption ==
  /\ Ample \in Nat /\ Scant \in Nat
  /\ IsFiniteSet(WireApps) /\ Cardinality(WireApps) <= Ample
  /\ IsFiniteSet(WireStreams) /\ Cardinality(WireStreams) <= Ample

VARIABLES program, pc, subscribers, g_running, clock

C(max) == INSTANCE SvSubscriberC WITH MAX_STREAMS <- max
Rs == INSTANCE SvSubscriberRs

Wraps == [s \in SvIds |-> IF s = "le" THEN 4 ELSE 0]

Traffic ==
  {[app |-> 1, asdus |-> <<[sv |-> "le", cnt |-> 0], [sv |-> "le", cnt |-> 1]>>],
   [app |-> 1, asdus |-> <<[sv |-> "other", cnt |-> 2]>>],
   [app |-> 2, asdus |-> <<[sv |-> "le", cnt |-> 3]>>]}

mcVars == <<vars, input, running, next_stats, cnt, known, stats, accepted,
          program, pc, subscribers, g_running, clock>>

InC == program \in {"c", "full"}
InRs == program = "rs"

(* The variables of a program that does not run keep their first values.   *)
MCInit ==
  /\ program \in {"c", "full", "rs", "link"}
  /\ Init /\ (program # "link" => w = 0)
  /\ ReceivingInit
  /\ C(Ample)!OwnInit /\ clock = 0
  /\ pc = IF InC THEN "outer" ELSE "top"

CKeeps == UNCHANGED <<program, clock, vars>>
RsKeeps == UNCHANGED <<program, subscribers, g_running, vars>>
LinkKeeps ==
  UNCHANGED <<program, input, running, next_stats, cnt, known, stats, accepted, pc, subscribers, g_running,
              clock>>

MCNext ==
  \/ program = "link" /\ Next /\ LinkKeeps
  \/ program = "c" /\ C(Ample)!Next /\ CKeeps
  \/ program = "full" /\ C(Scant)!Next /\ CKeeps
  \/ InRs /\ Rs!Next /\ RsKeeps

Main ==
  \/ program = "c" /\ C(Ample)!Main /\ CKeeps
  \/ program = "full" /\ C(Scant)!Main /\ CKeeps
  \/ InRs /\ Rs!Main /\ RsKeeps

Tick ==
  \/ InC /\ C(Ample)!Tick /\ CKeeps
  \/ InRs /\ Rs!Tick /\ RsKeeps

(* The program runs and time passes.                                       *)
MCSpec == MCInit /\ [][MCNext]_mcVars /\ WF_mcVars(Main) /\ WF_mcVars(Tick)

-----------------------------------------------------------------------------

(***************************************************************************)
(* EveryAsduCounted while the C adapter's tables have room; when they are  *)
(* full that costs whole streams and nothing else (stream_for, known[]):   *)
(* see AllOrNothing.                                                       *)
(***************************************************************************)
CountedIfRoom ==
  /\ program # "full" => EveryAsduCounted
  /\ InC => C(Ample)!AllOrNothing
=============================================================================
