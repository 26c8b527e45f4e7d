------------------------------ MODULE GooseWire ------------------------------
(***************************************************************************)
(* The part every goose-subscriber shares: the raw AF_PACKET socket it     *)
(* reads, and the history of the stream each gocbRef is, against which     *)
(* supervision is judged.                                                  *)
(*                                                                         *)
(* A frame is reduced to its gocbRef, its timeAllowedToLive and whether    *)
(* the program keeps it ("ok": right EtherType, APPID, destination and     *)
(* gocbRef filters, decodable).  The kernel queues at most QueueMax frames *)
(* and drops the rest.                                                     *)
(***************************************************************************)
EXTENDS Integers, Sequences

CONSTANTS
  Refs,        (* gocbRefs on the wire.                                    *)
  MaxTal,      (* Bound: largest timeAllowedToLive, in ticks.              *)
  QueueMax,    (* Bound: frames the socket buffer holds.                   *)
  MaxFrames,   (* Bound: frames sent, unless Endless.                      *)
  Endless      (* TRUE: frames never stop coming.                          *)

ASSUME WireAssumption ==
  /\ MaxTal \in Nat \ {0}
  /\ QueueMax \in Nat \ {0}
  /\ MaxFrames \in Nat
  /\ Endless \in BOOLEAN

VARIABLES
  alive,       (* FALSE once SIGTERM or SIGINT was delivered.              *)
  queue,       (* Frames in the socket buffer.                             *)
  sent,        (* Frames sent so far (not counted when Endless).           *)
  said,        (* Last supervision event printed, per gocbRef.             *)
  shown,       (* Last event of any kind printed, per gocbRef.             *)
  tal,         (* History: timeAllowedToLive of the last accepted frame.   *)
  age          (* History: ticks since that frame was accepted.            *)

wire == <<queue, sent>>
history == <<tal, age>>
output == <<said, shown>>

Contract == INSTANCE GooseSupervision

Frames ==
  [ref : Refs, tal : 0 .. MaxTal, ok : {TRUE}]
    \cup [ref : Refs, tal : {0}, ok : {FALSE}]

WireTypeOK ==
  /\ queue \in Seq(Frames)
  /\ Len(queue) <= QueueMax
  /\ sent \in 0 .. MaxFrames
  /\ shown \in [Refs -> {"none", "goose", "timeout", "ok"}]
  /\ Contract!TypeOK

WireInit ==
  /\ queue = << >>
  /\ sent = 0
  /\ shown = [r \in Refs |-> "none"]
  /\ Contract!Init

(* A frame reaches the socket.                                             *)
Arrive(f) ==
  /\ Len(queue) < QueueMax
  /\ Endless \/ sent < MaxFrames
  /\ queue' = Append(queue, f)
  /\ sent' = IF Endless THEN sent ELSE sent + 1

(* History of an accepted frame.                                           *)
RecordFrame(f) ==
  /\ tal' = [tal EXCEPT ![f.ref] = f.tal]
  /\ age' = [age EXCEPT ![f.ref] = 0]

RecordTick ==
  /\ age' = [r \in Refs |-> Contract!Older(age[r])]
  /\ UNCHANGED tal

(* A countdown in ticks: a timer, or a deadline seen from now.  Negative  *)
(* values stand for a countdown that does not run.                         *)
RunDown(t) == IF t > 0 THEN t - 1 ELSE t

(* Mutant: the end of a timeout is not reported.                           *)
SayOkMutant(r, timedOut) == UNCHANGED said

(* The "ok" that ends a timeout, printed when timedOut holds of r.         *)
SayOk(r, timedOut) ==
  said' = IF timedOut THEN [said EXCEPT ![r] = "ok"] ELSE said

(* "timeout" printed for every stream of S.                                *)
SayTimeout(S) ==
  /\ said' = [r \in Refs |-> IF r \in S THEN "timeout" ELSE said[r]]
  /\ shown' = [r \in Refs |-> IF r \in S THEN "timeout" ELSE shown[r]]

-----------------------------------------------------------------------------
(* Properties every subscriber is held to.                                 *)

(***************************************************************************)
(* The supervision contract of docs/goose.md: a timeout is never stale,    *)
(* never doubled, never forgotten, and "ok" is said exactly when a frame   *)
(* ends a timeout.                                                         *)
(***************************************************************************)
ContractSpec == Contract!Spec

(***************************************************************************)
(* Its safety part alone: no event is wrong, though one may be missing.    *)
(***************************************************************************)
ContractSafe == Contract!SafeSpec

(***************************************************************************)
(* Its liveness part alone: "when the timeAllowedToLive of the last frame  *)
(* passes without another frame" the timeout event comes (docs/goose.md),  *)
(* whatever other traffic there is.                                        *)
(***************************************************************************)
LapseIsReported == Contract!LapseIsReported

(***************************************************************************)
(* The reader never sees a goose event of a gocbRef that was last said to  *)
(* be timed out: "the next frame of that gocbRef emits ok before its goose *)
(* event" (docs/goose.md).                                                 *)
(***************************************************************************)
OkBeforeGoose ==
  \A r \in Refs : ~(said[r] = "timeout" /\ shown[r] = "goose")
=============================================================================
