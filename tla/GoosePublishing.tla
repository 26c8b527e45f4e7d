--------------------------- MODULE GoosePublishing ---------------------------
(***************************************************************************)
(* What the C and the Rust goose-publisher share: the counters and the     *)
(* schedule of one published state, the library's encoder that keeps its   *)
(* own pair of counters, the operator's command lines, the clock, and the  *)
(* observations the properties are about (the last frame on the wire and   *)
(* the last "published" event).                                            *)
(*                                                                         *)
(* Data set values are abstract; those in TooBig cannot be encoded.        *)
(* Counters are words that wrap to 1 (Word values instead of 2^32).        *)
(***************************************************************************)
EXTENDS Integers, Sequences

CONSTANTS
  Word,         (* Values of a stNum or sqNum word (2^32).                 *)
  Steps,        (* Retransmission intervals, in ticks (build_schedule).    *)
  Vals,         (* Data set values the operator may set.                   *)
  TooBig,       (* Those that do not fit a frame.                          *)
  Faulty,       (* TRUE: the socket may refuse a frame.                    *)
  MaxLag,       (* Bound: ticks the program may be late for its deadline.  *)
  MaxLines      (* Bound: command lines typed.                             *)

ASSUME PublishingAssumption ==
  /\ Word \in Nat /\ Word > 2
  /\ Steps \in Seq(Nat \ {0}) /\ Len(Steps) > 0
  /\ TooBig \subseteq Vals
  /\ Faulty \in BOOLEAN
  /\ MaxLag \in Nat
  /\ MaxLines \in Nat

VARIABLES
  running,      (* FALSE after a stop command or a signal.                 *)
  stopped,      (* A stop command has been handled.                        *)
  stdin,        (* Lines written to standard input and not yet read.       *)
  typed,        (* Lines written so far.                                   *)
  eof,          (* Standard input has been closed by the operator.         *)
  stdin_open,   (* The program still reads it.                             *)
  val,          (* The published data set values.                          *)
  st_num, sq_num, (* The program's counters.                               *)
  lib,          (* The library encoder's counters.                         *)
  step,         (* Index into the schedule (saturating).                   *)
  wait,         (* Ticks until the deadline of the next frame.             *)
  wire,         (* Last frame on the wire; st = 0 before the first.        *)
  published,    (* Last "published" event; st = 0 before the first.        *)
  gap           (* Ticks since the last frame on the wire, saturating.     *)

input == <<stdin, typed, eof>>
counters == <<val, st_num, sq_num, lib, step, wait>>
seen == <<wire, published, gap>>

(* Lines: a state change, a stop, anything the program rejects.            *)
Lines == ({"set"} \X Vals) \cup {<<"stop">>, <<"bad">>}

Intervals == {Steps[i] : i \in 1 .. Len(Steps)}
LastStep == Len(Steps) - 1
MaxGap == 2 * Steps[Len(Steps)] + MaxLag

CounterTypeOK ==
  /\ val \in Vals
  /\ st_num \in 1 .. Word - 1
  /\ sq_num \in 0 .. Word - 1
  /\ lib \in [st : 1 .. Word - 1, sq : 0 .. Word - 1]
  /\ step \in 0 .. LastStep + 1
  /\ wait \in Int

PublishingTypeOK ==
  /\ running \in BOOLEAN /\ stopped \in BOOLEAN
  /\ stdin \in Seq(Lines)
  /\ typed \in 0 .. MaxLines
  /\ eof \in BOOLEAN /\ stdin_open \in BOOLEAN
  /\ CounterTypeOK
  /\ wire \in [st : 0 .. Word - 1, sq : 0 .. Word - 1, val : Vals, tal : Nat]
  /\ published \in [st : 0 .. Word - 1, sq : 0 .. Word - 1, tal : Nat]
  /\ gap \in 0 .. MaxGap

(* Mutant: a counter that does not skip 0.                                 *)
IncMutantZero(n) == (n + 1) % Word

(* A word counter that skips 0 when it wraps.                              *)
Inc(n) == IF n + 1 = Word THEN 1 ELSE n + 1

(* The interval send_frame takes at a step.                                *)
IntervalAt(s) == Steps[(IF s < Len(Steps) THEN s ELSE LastStep) + 1]

Later(s) == IF s <= LastStep THEN s + 1 ELSE s

(* Mutant: the interval itself is announced.                               *)
TalOfMutant(interval) == interval

(* The timeAllowedToLive announced with an interval.                       *)
TalOf(interval) == 2 * interval

(* Mutant: the event is printed after the counter has moved on.            *)
emit_publishedMutant(st, sq, t) == published' = [st |-> st, sq |-> Inc(sq), tal |-> t]

(* The "published" event of a frame.                                       *)
emit_published(st, sq, t) == published' = [st |-> st, sq |-> sq, tal |-> t]

(* Mutant: the result of handle_line is not looked at.                     *)
HaltMutant == stopped' = TRUE /\ UNCHANGED running

(* {"cmd":"stop"}.                                                         *)
Halt == running' = FALSE /\ stopped' = TRUE

(* Before the first send_frame: state 1 starts now.                        *)
PublishingInit ==
  /\ running = TRUE /\ stopped = FALSE
  /\ stdin = << >> /\ typed = 0 /\ eof = FALSE /\ stdin_open = TRUE
  /\ val \in Vals
  /\ st_num = 1 /\ sq_num = 0
  /\ lib = [st |-> 1, sq |-> 0]
  /\ step = 0
  /\ wait = 0
  /\ wire = [st |-> 0, sq |-> 0, val |-> val, tal |-> 0]
  /\ published = [st |-> 0, sq |-> 0, tal |-> 0]
  /\ gap = 0

(* A frame with the library's counters leaves the socket.                  *)
PutOnWire(l, v, t) ==
  /\ wire' = [st |-> l.st, sq |-> l.sq, val |-> v, tal |-> t]
  /\ gap' = 0

(* The operator writes a line, or closes standard input.                   *)
Type ==
  /\ ~eof
  /\ typed < MaxLines
  /\ \E c \in Lines : stdin' = Append(stdin, c)
  /\ typed' = typed + 1
  /\ UNCHANGED eof

CloseStdin ==
  /\ ~eof
  /\ eof' = TRUE
  /\ UNCHANGED <<stdin, typed>>

(* The clock; the program is never later than MaxLag.                      *)
Clock ==
  /\ wait > -MaxLag
  /\ wait' = wait - 1
  /\ gap' = IF gap < MaxGap THEN gap + 1 ELSE gap

-----------------------------------------------------------------------------
(* Properties both publishers are held to.                                 *)

(* The last event describes the last frame on the wire.                    *)
PublishedIsOnWire ==
  published = [st |-> wire.st, sq |-> wire.sq, tal |-> wire.tal]

(***************************************************************************)
(* A subscriber can rely on stNum: frames that follow each other with one  *)
(* stNum carry the same values, and only a first frame of a state has      *)
(* sqNum 0.                                                                *)
(***************************************************************************)
StNumNamesState ==
  [][wire' # wire /\ wire'.st = wire.st =>
       wire'.val = wire.val /\ wire'.sq # 0]_wire

(***************************************************************************)
(* As long as the program runs, encodes and sends, the next frame is on    *)
(* the wire before the timeAllowedToLive of the last one has passed, if    *)
(* the program is less late than its shortest interval: a healthy          *)
(* publisher is never reported as timed out.                               *)
(***************************************************************************)
FreshBeforeExpiry == running /\ wire.st # 0 => gap < wire.tal

(***************************************************************************)
(* The publisher carries on after rejected lines, failures and the end of  *)
(* standard input ("EOF on stdin is not a stop", docs/goose.md): until it  *)
(* is stopped it comes back to its deadline and sends again and again.     *)
(***************************************************************************)
KeepsPublishing == []<>(~running \/ wait <= 0) /\ []<>(~running \/ wait > 0)
=============================================================================
