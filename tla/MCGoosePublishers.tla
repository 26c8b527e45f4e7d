-------------------------- MODULE MCGoosePublishers --------------------------
(***************************************************************************)
(* The C and the Rust goose-publisher under one instance: the first state  *)
(* picks the program that runs, and only that one takes steps.             *)
(*                                                                         *)
(*   "c", "rs"            with a socket that refuses frames and values     *)
(*                        that cannot be encoded;                          *)
(*   "freshC", "freshRs"  nothing fails, but the program may be late;      *)
(*   "schedule"           the retransmission schedule alone, over 11-bit   *)
(*                        words with at most 6 intervals: defaults, length *)
(*                        limit and times near the top bit are all met.    *)
(***************************************************************************)
EXTENDS GoosePublishing

CONSTANTS
  FreshSteps,   (* Steps, MaxLag and MaxLines of "freshC" and "freshRs".   *)
  FreshLag, FreshLines,
  ScheduleWord, (* Word, MAX_STEPS and Times of "schedule".                *)
  ScheduleSteps, Times

(* The fresh programs are less late than their shortest interval.          *)
ASSUME FreshAssumption ==
  /\ FreshSteps \in Seq(Nat \ {0}) /\ Len(FreshSteps) > 0
  /\ FreshLag \in Nat /\ \A i \in 1 .. Len(FreshSteps) : FreshLag < FreshSteps[i]
  /\ FreshLines \in Nat

VARIABLES program, batch, channel, reading, min_time, max_time, at

FastSteps == <<1, 2>>
SlowSteps == <<2, 4>>

C(fresh) ==
  INSTANCE GoosePublisherC WITH
    Steps <- IF fresh THEN FreshSteps ELSE Steps,
    TooBig <- IF fresh THEN {} ELSE TooBig,
    Faulty <- Faulty /\ ~fresh,
    MaxLag <- IF fresh THEN FreshLag ELSE MaxLag,
    MaxLines <- IF fresh THEN FreshLines ELSE MaxLines

Rs(fresh) ==
  INSTANCE GoosePublisherRs WITH
    Steps <- IF fresh THEN FreshSteps ELSE Steps,
    TooBig <- IF fresh THEN {} ELSE TooBig,
    Faulty <- Faulty /\ ~fresh,
    MaxLag <- IF fresh THEN FreshLag ELSE MaxLag,
    MaxLines <- IF fresh THEN FreshLines ELSE MaxLines

WalkTimes == (0 .. 12) \cup {63, 64, 65, 127, 128, 129, 200, 640, 1000, 1023}

(* Twice an interval, the default of 1000 included, fits in a word.        *)
ASSUME ScheduleAssumption ==
  /\ ScheduleWord \in Nat /\ ScheduleWord > 2000
  /\ ScheduleSteps \in Nat \ {0}
  /\ Times \subseteq Nat /\ \A t \in Times : 2 * t < ScheduleWord

Walk ==
  INSTANCE GooseRetrans WITH Word <- ScheduleWord, MAX_STEPS <- ScheduleSteps, step <- at

vars == <<min_time, max_time, at, running, stopped, input, stdin_open, counters, seen, program, batch,
          channel, reading>>

InC == program \in {"c", "freshC"}
InRs == program \in {"rs", "freshRs"}

(* The variables of a program that does not run keep their first values.   *)
Init ==
  /\ program \in {"c", "freshC", "rs", "freshRs", "schedule"}
  /\ C(FALSE)!Init /\ Rs(FALSE)!Init
  /\ IF program = "schedule" THEN Walk!Init ELSE min_time = 0 /\ max_time = 0 /\ at = 0

CKeeps == UNCHANGED <<program, channel, reading, min_time, max_time, at>>
RsKeeps == UNCHANGED <<program, batch, min_time, max_time, at>>
WalkKeeps ==
  UNCHANGED <<program, running, stopped, input, stdin_open, counters, seen, batch, channel, reading>>

Next ==
  \/ program = "schedule" /\ Walk!Next /\ WalkKeeps
  \/ program = "c" /\ C(FALSE)!Next /\ CKeeps
  \/ program = "freshC" /\ C(TRUE)!Next /\ CKeeps
  \/ program = "rs" /\ Rs(FALSE)!Next /\ RsKeeps
  \/ program = "freshRs" /\ Rs(TRUE)!Next /\ RsKeeps

Thread ==
  \/ program = "c" /\ C(FALSE)!Thread /\ CKeeps
  \/ program = "freshC" /\ C(TRUE)!Thread /\ CKeeps
  \/ program = "rs" /\ Rs(FALSE)!Thread /\ RsKeeps
  \/ program = "freshRs" /\ Rs(TRUE)!Thread /\ RsKeeps

Reader == InRs /\ Rs(FALSE)!Reader /\ RsKeeps

Tick ==
  \/ program = "c" /\ C(FALSE)!Tick /\ CKeeps
  \/ program = "freshC" /\ C(TRUE)!Tick /\ CKeeps
  \/ program = "rs" /\ Rs(FALSE)!Tick /\ RsKeeps
  \/ program = "freshRs" /\ Rs(TRUE)!Tick /\ RsKeeps

Spec == Init /\ [][Next]_vars /\ WF_vars(Thread) /\ WF_vars(Reader) /\ WF_vars(Tick)

-----------------------------------------------------------------------------

(***************************************************************************)
(* ScheduleSound of GooseRetrans, at every frame of the walk.              *)
(***************************************************************************)
ScheduleSound == program = "schedule" => Walk!ScheduleSound

(***************************************************************************)
(* Events come "per frame put on the wire" (docs/goose.md): every           *)
(* frame that leaves is announced as it is, and an event names the numbers *)
(* the library has given to the frame it encoded last.  In Rust there is   *)
(* no other event.  The C adapter also announces frames that the socket    *)
(* refuses; they have used up their numbers, so the next frame on the wire *)
(* and its event still agree.                                              *)
(***************************************************************************)
EventPerFrame ==
  [][/\ wire' # wire => PublishedIsOnWire'
     /\ published' # published =>
          /\ lib' = [st |-> published'.st, sq |-> Inc(published'.sq)]
          /\ InRs => wire' # wire]_<<wire, published>>

(***************************************************************************)
(* FreshBeforeExpiry, of programs whose frames all get through.            *)
(***************************************************************************)
FreshWhenHealthy == program \in {"freshC", "freshRs"} => FreshBeforeExpiry

(***************************************************************************)
(* KeepsPublishing, of every program that publishes.                       *)
(***************************************************************************)
StreamGoesOn == program # "schedule" => KeepsPublishing

(* The lines that are not handled yet, in the order they were typed.       *)
Pending == channel \o batch \o stdin

(* The next line is handled.  Behind a stop only the C adapter does so,    *)
(* with the rest of what it read together with the stop.                   *)
TakesLine ==
  /\ Pending # << >> /\ Pending' = Tail(Pending)
  /\ stopped => InC /\ batch # << >>
  /\ LET c == Head(Pending)
     IN  <<val', st_num', stopped'>> =
           CASE c[1] = "set" -> <<c[2], Inc(st_num), stopped>>
             [] c[1] = "stop" -> <<val, st_num, TRUE>>
             [] OTHER -> <<val, st_num, stopped>>

(***************************************************************************)
(* Lines take effect one by one in the order they were typed, none twice   *)
(* and none lost between standard input, the C buffer, the Rust channel    *)
(* and the published state: a "set" begins a state that has its values and *)
(* the next stNum, a "stop" stops the program in its turn.  Once a stop or *)
(* a signal has ended the loop nothing more is read and no frame repeats a *)
(* state; what can still go out is a first frame, for instance of a "set"  *)
(* that one read brought together with the stop.                           *)
(***************************************************************************)
LinesInTurn ==
  [][/\ \/ UNCHANGED <<Pending, val, st_num, stopped>>
        \/ /\ \E c \in Lines : Pending' = Append(Pending, c)
           /\ UNCHANGED <<val, st_num, stopped>>
        \/ TakesLine
     /\ ~running => UNCHANGED stdin /\ (wire' # wire => wire'.sq = 0)
    ]_<<Pending, stdin, val, st_num, stopped, wire>>
=============================================================================
