---------------------------- MODULE SvPublishing ----------------------------
(***************************************************************************)
(* What the three sv-publishers share: the numbering of ASDUs, the totals, *)
(* the reasons for a "published" event, the operator's command lines, and  *)
(* the history the properties are about.                                   *)
(*                                                                         *)
(* Time is counted in frame intervals since the start, so the deadline of  *)
(* the k-th frame (from 0) of an unshifted schedule is k, and k is the     *)
(* slot of that frame.  A data set is the number of the set command that   *)
(* brought it, 0 for --values.                                             *)
(***************************************************************************)
EXTENDS Integers, Sequences, Functions

CONSTANTS
  NoAsdu,       (* ASDUs per frame (--no-asdu).                            *)
  Wrap,         (* Where smpCnt wraps.                                     *)
  ReportEvery,  (* --report-every.                                         *)
  Second,       (* Frame intervals in a second.                            *)
  Faulty,       (* TRUE: the socket may refuse a frame.                    *)
  MaxLag,       (* Bound: intervals the program may be late.               *)
  MaxFrames,    (* Bound: frames built.                                    *)
  MaxLines      (* Bound: command lines typed.                             *)

ASSUME SvPublishingAssumption ==
  /\ {NoAsdu, Wrap, ReportEvery, Second} \subseteq Nat \ {0}
  /\ Faulty \in BOOLEAN
  /\ {MaxLag, MaxFrames, MaxLines} \subseteq Nat

VARIABLES
  now,          (* The monotonic clock.                                    *)
  stdin,        (* Lines written to standard input and not yet read.       *)
  typed,        (* Lines written so far.                                   *)
  eof,          (* Standard input has been closed by the operator.         *)
  gen,          (* The data set in force.                                  *)
  frames, samples, (* The program's totals.                                *)
  wire,         (* Frames put on the wire.                                 *)
  out,          (* "published" and "stopped" events printed.               *)
  refused,      (* Frames the socket refused.                              *)
  errors,       (* Send errors printed.                                    *)
  after         (* Frames put on the wire since the program was to stop.   *)

input == <<stdin, typed, eof>>
totals == <<frames, samples>>
seen == <<wire, out, refused, errors, after>>

(* Lines: new values, values of the wrong types or no command, a stop.     *)
Lines == {"set", "bad", "stop"}

Reasons == {"start", "set", "periodic", "stopped"}
Cnts == 0 .. Wrap - 1
FrameRecords == [slot : Nat, cnts : [1 .. NoAsdu -> Cnts], gen : 0 .. MaxLines]
Events == [reason : Reasons, frames : Nat, samples : Nat, smpCnt : Cnts]

PublishingTypeOK ==
  /\ now \in Nat
  /\ stdin \in Seq(Lines) /\ typed \in 0 .. MaxLines /\ eof \in BOOLEAN
  /\ gen \in 0 .. MaxLines
  /\ frames \in 0 .. MaxFrames /\ samples = frames * NoAsdu
  /\ wire \in Seq(FrameRecords)
  /\ out \in Seq(Events)
  /\ refused \in Nat /\ errors \in Nat
  /\ after \in Nat

PublishingInit ==
  /\ now = 0
  /\ stdin = << >> /\ typed = 0 /\ eof = FALSE
  /\ gen = 0
  /\ frames = 0 /\ samples = 0
  /\ wire = << >> /\ out = << >>
  /\ refused = 0 /\ errors = 0 /\ after = 0

-----------------------------------------------------------------------------

(* A frame leaves the socket; halting says that a stop is already under    *)
(* way.                                                                    *)
PutOnWire(slot, cnts, g, halting) ==
  /\ wire' = Append(wire, [slot |-> slot, cnts |-> cnts, gen |-> g])
  /\ after' = IF halting THEN after + 1 ELSE after

(* Why the frame that is being counted is reported, if it is.              *)
Reason(afterSet) ==
  CASE frames = 0 -> "start"
    [] frames > 0 /\ afterSet -> "set"
    [] OTHER -> IF (samples + NoAsdu) \div ReportEvery # samples \div ReportEvery
                THEN "periodic" ELSE "none"

(* Mutant: the totals are printed before the frame is counted.             *)
AccountMutant(afterSet, cnt) ==
  LET reason == Reason(afterSet) IN
  /\ frames' = frames + 1
  /\ samples' = samples + NoAsdu
  /\ out' = IF reason = "none" THEN out
            ELSE Append(out, [reason |-> reason, frames |-> frames,
                              samples |-> samples, smpCnt |-> cnt])

(* The frame is counted, and reported if there is a reason to.             *)
Account(afterSet, cnt) ==
  LET reason == Reason(afterSet) IN
  /\ frames' = frames + 1
  /\ samples' = samples + NoAsdu
  /\ out' = IF reason = "none" THEN out
            ELSE Append(out, [reason |-> reason, frames |-> frames + 1,
                              samples |-> samples + NoAsdu, smpCnt |-> cnt])

(* {"event":"error"} for a frame that was not sent.                        *)
EmitError == errors' = errors + 1

(* The "stopped" event.                                                    *)
emit_stopped ==
  out' = Append(out, [reason |-> "stopped", frames |-> frames, samples |-> samples,
                      smpCnt |-> 0])

(* The operator writes a line, or closes standard input.                   *)
Type ==
  /\ ~eof
  /\ typed < MaxLines
  /\ \E c \in Lines : stdin' = Append(stdin, c)
  /\ typed' = typed + 1
  /\ UNCHANGED eof

CloseStdin ==
  /\ ~eof
  /\ eof' = TRUE
  /\ UNCHANGED <<stdin, typed>>

(* The clock, while the program is no more than MaxLag late for a deadline.*)
Clock(deadline) ==
  /\ now < deadline + MaxLag
  /\ now < MaxFrames + MaxLag
  /\ now' = now + 1

-----------------------------------------------------------------------------
(* Properties the three publishers are held to.                            *)

(***************************************************************************)
(* smpCnt is the time of the sample: the i-th ASDU of the frame of slot k  *)
(* has smpCnt (k * noASDU + i) modulo the wrap, after refused frames, late *)
(* frames and the wrap ("smpCnt starts at 0 and increments per ASDU",      *)
(* "paced against absolute deadlines (a late frame is sent at once, the    *)
(* schedule is not shifted)", docs/sv.md).                                 *)
(***************************************************************************)
SmpCntOfSlot ==
  \A f \in Range(wire) : \A i \in 1 .. NoAsdu :
    f.cnts[i] = (f.slot * NoAsdu + i - 1) % Wrap

(***************************************************************************)
(* The events tell the truth about the wire: a "published" event carries   *)
(* the totals as of the frame it is about and the smpCnt of its last ASDU, *)
(* "stopped" the totals of everything that was sent (docs/sv.md, 4 and 5). *)
(***************************************************************************)
EventsTrue ==
  \A e \in Range(out) :
    /\ e.samples = e.frames * NoAsdu
    /\ IF e.reason = "stopped" THEN e.frames = Len(wire)
       ELSE /\ e.frames \in 1 .. Len(wire)
            /\ e.smpCnt = wire[e.frames].cnts[NoAsdu]

(***************************************************************************)
(* "the first frame after each set (set)" (docs/sv.md, 5): the first frame *)
(* that carries new values is announced as such, and no other frame is;    *)
(* values never go back to those of an earlier set.                        *)
(***************************************************************************)
SetAnnounced ==
  \A i \in 2 .. Len(wire) :
    /\ wire[i].gen >= wire[i - 1].gen
    /\ wire[i].gen # wire[i - 1].gen <=>
         \E e \in Range(out) : e.reason = "set" /\ e.frames = i

(***************************************************************************)
(* A stop or a signal ends publication at once: at most the frame that was *)
(* already under way goes out, however far behind schedule the program is. *)
(***************************************************************************)
StopsAtOnce == after <= 1
=============================================================================
