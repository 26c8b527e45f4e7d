--------------------------- MODULE MCSvPublishers ---------------------------
(***************************************************************************)
(* The three sv-publishers under one instance: the first state picks the   *)
(* program that runs, and only that one takes steps.                       *)
(*                                                                         *)
(*   "go"              the Go adapter, with a socket that refuses frames;  *)
(*   "c", "rs"         the others, with one that takes every frame;        *)
(*   "badC", "badRs"   with one that refuses frames.                       *)
(***************************************************************************)
EXTENDS SvPublishing

VARIABLES
  program, pc,
  k, smpCnt, built, lastGen, stop,                 (* Go.                  *)
  next, smp_cnt, after_set, batch, g_running,      (* C.                   *)
  STOP, channel, pending_set, last_send_error,     (* Rust.                *)
  reading, stdin_open                              (* Shared by two.       *)

Go == INSTANCE SvPublisherGo
C(faulty, lines) == INSTANCE SvPublisherC WITH Faulty <- faulty, MaxLines <- lines
Rs(faulty, lines) == INSTANCE SvPublisherRs WITH Faulty <- faulty, MaxLines <- lines

goVars == <<k, smpCnt, built, lastGen, stop>>
cVars == <<next, smp_cnt, after_set, batch, g_running>>
rsVars == <<STOP, channel, pending_set, last_send_error>>
vars == <<now, input, gen, totals, seen, program, pc, goVars, cVars, rsVars, reading, stdin_open>>

InGo == program = "go"
InC == program \in {"c", "badC"}
InRs == program \in {"rs", "badRs"}

(* The variables of a program that does not run keep their first values.   *)
Init ==
  /\ program \in {"go", "c", "badC", "rs", "badRs"}
  /\ PublishingInit
  /\ Go!OwnInit /\ C(FALSE, MaxLines)!OwnInit /\ Rs(FALSE, MaxLines)!OwnInit
  /\ pc = IF InGo THEN "wait" ELSE IF InC THEN "while" ELSE "first"

GoKeeps == UNCHANGED <<program, cVars, rsVars, stdin_open>>
CKeeps == UNCHANGED <<program, goVars, rsVars, reading>>
RsKeeps == UNCHANGED <<program, goVars, cVars>>

Next ==
  \/ InGo /\ Go!Next /\ GoKeeps
  \/ program = "c" /\ C(FALSE, MaxLines)!Next /\ CKeeps
  \/ program = "badC" /\ C(Faulty, 1)!Next /\ CKeeps
  \/ program = "rs" /\ Rs(FALSE, MaxLines)!Next /\ RsKeeps
  \/ program = "badRs" /\ Rs(Faulty, 1)!Next /\ RsKeeps

Main ==
  \/ InGo /\ Go!Main /\ GoKeeps
  \/ program = "c" /\ C(FALSE, MaxLines)!Main /\ CKeeps
  \/ program = "badC" /\ C(Faulty, 1)!Main /\ CKeeps
  \/ program = "rs" /\ Rs(FALSE, MaxLines)!Main /\ RsKeeps
  \/ program = "badRs" /\ Rs(Faulty, 1)!Main /\ RsKeeps

Reader ==
  \/ InGo /\ Go!Reader /\ GoKeeps
  \/ InRs /\ Rs(FALSE, MaxLines)!Reader /\ RsKeeps

Tick ==
  \/ InGo /\ Go!Tick /\ GoKeeps
  \/ InC /\ C(FALSE, MaxLines)!Tick /\ CKeeps
  \/ InRs /\ Rs(FALSE, MaxLines)!Tick /\ RsKeeps

(* Threads run and time passes; nobody has to type or to kill.             *)
Spec == Init /\ [][Next]_vars /\ WF_vars(Main) /\ WF_vars(Reader) /\ WF_vars(Tick)

-----------------------------------------------------------------------------

(* The program was told to stop, and has not yet.                          *)
Told ==
  \/ InGo /\ stop
  \/ InC /\ ~g_running
  \/ InRs /\ (STOP \/ "stop" \in Range(stdin))

(* The program learns of every refused frame, or has none.                 *)
Learns == program \notin {"badC", "badRs"}

(***************************************************************************)
(* EventsTrue and SetAnnounced, of programs that learn of refused frames   *)
(* or have none: SVPublisher_publish returns nothing, and the Rust         *)
(* send_frame counts and announces a frame it could not send.              *)
(***************************************************************************)
EventsTrueIfLearnt == Learns => EventsTrue /\ SetAnnounced

(***************************************************************************)
(* A program nobody stops goes on to its last slot, through refused        *)
(* frames, rejected lines and the end of standard input ("EOF on stdin is  *)
(* not a stop", docs/sv.md, 4).                                            *)
(***************************************************************************)
KeepsPublishing ==
  <>(Told \/ (IF InGo THEN k = MaxFrames ELSE frames = MaxFrames))

(***************************************************************************)
(* A stop, also one followed by more lines, and a signal, also one just    *)
(* before ppoll or together with a stop, lead to "stopped" and the exit    *)
(* (docs/sv.md, 4).                                                        *)
(***************************************************************************)
StopExits == Told ~> pc = "exited" /\ out # << >> /\ out[Len(out)].reason = "stopped"

(***************************************************************************)
(* Only a stop or a signal ends a publisher, and they do end it.           *)
(***************************************************************************)
RunsUntilStopped == KeepsPublishing /\ StopExits
=============================================================================
