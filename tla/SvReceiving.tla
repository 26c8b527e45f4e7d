---------------------------- MODULE SvReceiving ----------------------------
(***************************************************************************)
(* What the C and the Rust sv-subscriber share: one thread that reads      *)
(* frames, counts their ASDUs per stream (APPID, svID) and prints the      *)
(* totals once per second.  Time is in halves of a second.                 *)
(***************************************************************************)
EXTENDS SvCounting, Sequences, FiniteSets, Functions

CONSTANTS
  AppIds, SvIds, (* On the wire.                                           *)
  SmpCntWrap,   (* Per svID, the fixture's wrap; 0 if it has none.         *)
  Frames,       (* Frames that may arrive: [app, asdus], an ASDU is        *)
                (* [sv, cnt].                                              *)
  MaxArrive,    (* Bound: frames that arrive.                              *)
  MaxTime       (* Bound: the clock.                                       *)

ASSUME ReceivingAssumption ==
  /\ SmpCntWrap \in [SvIds -> Nat]
  /\ Frames \subseteq [app : AppIds, asdus : Seq([sv : SvIds, cnt : Nat])]
  /\ {MaxArrive, MaxTime} \subseteq Nat

VARIABLES
  now,          (* The monotonic clock; ready was at 0.                    *)
  rx,           (* Frames in the socket buffer.                            *)
  arrived,      (* Frames so far.                                          *)
  running,      (* The program has not ended.                              *)
  next_stats,   (* When the totals are printed next.                       *)
  cnt,          (* Per stream, its state and its part of the totals.       *)
  known,        (* Streams that have an entry, in order.                   *)
  stats,        (* The totals printed, in order.                           *)
  accepted      (* Per stream, the ASDUs that passed the filters.          *)

input == <<now, rx, arrived>>

Second == 2
Streams == AppIds \X SvIds

SumOf(field) == FoldFunction(LAMBDA m, n : m + n, 0, [s \in Streams |-> cnt[s][field]])

(* The totals of a stats line.                                             *)
PrintedTotals ==
  [received |-> SumOf("received"), lost |-> SumOf("lost"),
   duplicates |-> SumOf("duplicates"), outOfOrder |-> SumOf("outOfOrder")]

ReceivingTypeOK ==
  /\ now \in 0 .. MaxTime
  /\ rx \in Seq(Frames)
  /\ arrived \in 0 .. MaxArrive
  /\ running \in BOOLEAN
  /\ next_stats \in Nat
  /\ known \in Seq(Streams)
  /\ IsInjective(known)
  /\ \A s \in Streams \ Range(known) : cnt[s] = Fresh
  /\ Len(stats) <= MaxTime
  /\ accepted \in [Streams -> Nat]

ReceivingInit ==
  /\ now = 0
  /\ rx = << >> /\ arrived = 0
  /\ running = TRUE
  /\ next_stats = Second
  /\ cnt = [s \in Streams |-> Fresh]
  /\ known = << >>
  /\ stats = << >>
  /\ accepted = [s \in Streams |-> 0]

(* How many of the first n ASDUs of frame f are of stream s.               *)
Matching(f, s, n) == Cardinality({i \in 1 .. n : <<f.app, f.asdus[i].sv>> = s})

(* The filters let the frame f pass.                                       *)
Accept(f) == accepted' = [s \in Streams |-> accepted[s] + Matching(f, s, Len(f.asdus))]

(* A stats line.                                                           *)
EmitStats == stats' = Append(stats, PrintedTotals)

(* The network and the clock.                                              *)
Arrive ==
  /\ running
  /\ arrived < MaxArrive
  /\ \E f \in Frames : rx' = Append(rx, f)
  /\ arrived' = arrived + 1

Clock ==
  /\ running
  /\ now < MaxTime
  /\ now' = now + 1

-----------------------------------------------------------------------------
(* Properties both subscribers are held to.                                *)

(***************************************************************************)
(* "received counts every accepted ASDU" (docs/sv.md, "Counting"), once    *)
(* and for its own stream.                                                 *)
(***************************************************************************)
EveryAsduCounted == \A s \in Streams : cnt[s].received = accepted[s]

(***************************************************************************)
(* ... and no second is left out: a program that was busy for longer than  *)
(* a second prints the lines it missed.                                    *)
(***************************************************************************)
StatsCatchUp ==
  \A n \in 1 .. MaxTime \div Second :
    now >= n * Second ~> Len(stats) >= n \/ ~running
=============================================================================
