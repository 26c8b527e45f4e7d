---------------------------- MODULE SvPublisherRs ----------------------------
(***************************************************************************)
(* The iec61850-rust sv-publisher: a reader thread forwards lines over an  *)
(* mpsc channel; the main thread sends the first frame, then between two   *)
(* frames looks at STOP and empties the channel until the next is due.     *)
(* A frame that is refused counts like one that was sent, and its error is *)
(* printed at most once per second.                                        *)
(***************************************************************************)
EXTENDS SvPublishing

VARIABLES
  pc,           (* Where the main thread is: see the actions.              *)
  STOP,         (* Set by the signal handler.                              *)
  channel,      (* Lines forwarded and not received.                       *)
  reading,      (* The reader thread has not ended.                        *)
  stdin_open,
  pending_set,  (* A set has been obeyed since the last frame.             *)
  last_send_error (* When an error was last printed; -1 for never.         *)

main == <<stdin_open, pending_set, last_send_error>>
threads == <<channel, reading>>
vars == <<now, input, gen, totals, seen, pc, STOP, main, threads>>

TypeOK ==
  /\ PublishingTypeOK
  /\ pc \in {"first", "check", "drain", "send", "exited"}
  /\ channel \in Seq(Lines)
  /\ {STOP, reading, stdin_open, pending_set} \subseteq BOOLEAN
  /\ last_send_error \in Nat \cup {-1}

OwnInit ==
  /\ STOP = FALSE
  /\ channel = << >> /\ reading = TRUE
  /\ stdin_open = TRUE
  /\ pending_set = FALSE
  /\ last_send_error = -1

Init == PublishingInit /\ OwnInit /\ pc = "first"

-----------------------------------------------------------------------------

(* smpCnt of sample s.                                                     *)
SmpCnt(s) == s % Wrap

(* A send error is printed unless one was in the last second.              *)
Quiet == last_send_error # -1 /\ now - last_send_error < Second

SendError ==
  IF Quiet THEN UNCHANGED <<errors, last_send_error>>
  ELSE EmitError /\ last_send_error' = now

(* encode and send; an encoding error is printed every time.               *)
send_frame(afterSet) ==
  /\ \/ /\ PutOnWire(frames, [j \in 1 .. NoAsdu |-> SmpCnt(samples + j - 1)], gen, STOP)
        /\ UNCHANGED <<refused, errors, last_send_error>>
     \/ /\ Faulty
        /\ refused' = refused + 1
        /\ SendError \/ (EmitError /\ UNCHANGED last_send_error)
        /\ UNCHANGED <<wire, after>>
  /\ Account(afterSet, SmpCnt(samples + NoAsdu - 1))

(* The first frame, before the loop.                                       *)
First ==
  /\ pc = "first"
  /\ send_frame(FALSE)
  /\ pc' = "check"
  /\ UNCHANGED <<now, input, gen, STOP, stdin_open, pending_set, threads>>

(* stop: the totals, and the exit.                                         *)
Stop == pc' = "exited" /\ emit_stopped

(* if STOP.                                                                *)
Check ==
  /\ pc = "check"
  /\ IF STOP THEN Stop ELSE pc' = "drain" /\ UNCHANGED out
  /\ UNCHANGED <<now, input, gen, totals, wire, refused, errors, after, STOP, main, threads>>

(* try_recv returns a line: handle_line.                                   *)
handle_line ==
  /\ pc = "drain"
  /\ stdin_open
  /\ channel # << >>
  /\ channel' = Tail(channel)
  /\ LET c == Head(channel) IN
     /\ gen' = IF c = "set" THEN gen + 1 ELSE gen
     /\ pending_set' = (pending_set \/ c = "set")
     /\ IF c = "stop" THEN Stop ELSE UNCHANGED <<pc, out>>
  /\ UNCHANGED <<now, input, totals, wire, refused, errors, after, STOP, stdin_open,
                 last_send_error, reading>>

(* try_recv finds the channel empty, or also the reader gone; then the     *)
(* clock is read.                                                          *)
Drained ==
  /\ pc = "drain"
  /\ channel = << >> \/ ~stdin_open
  /\ stdin_open' = (stdin_open /\ reading)
  /\ pc' = IF now >= frames /\ frames < MaxFrames THEN "send" ELSE "check"
  /\ UNCHANGED <<now, input, gen, totals, seen, STOP, pending_set, last_send_error, threads>>

(* The frame that is due.                                                  *)
Send ==
  /\ pc = "send"
  /\ send_frame(pending_set)
  /\ pending_set' = FALSE
  /\ pc' = "check"
  /\ UNCHANGED <<now, input, gen, STOP, stdin_open, threads>>

(* The reader thread: a line, or the end of standard input.                *)
Forward ==
  /\ pc # "exited"
  /\ reading
  /\ stdin # << >>
  /\ stdin' = Tail(stdin)
  /\ channel' = Append(channel, Head(stdin))
  /\ UNCHANGED <<now, typed, eof, gen, totals, seen, pc, STOP, main, reading>>

ReaderEnds ==
  /\ pc # "exited"
  /\ reading
  /\ stdin = << >> /\ eof
  /\ reading' = FALSE
  /\ UNCHANGED <<now, input, gen, totals, seen, pc, STOP, main, channel>>

on_signal ==
  /\ pc # "exited"
  /\ ~STOP
  /\ STOP' = TRUE
  /\ UNCHANGED <<now, input, gen, totals, seen, pc, main, threads>>

Tick ==
  /\ pc # "exited"
  /\ Clock(frames)
  /\ UNCHANGED <<input, gen, totals, seen, pc, STOP, main, threads>>

Operator ==
  /\ pc # "exited"
  /\ Type \/ CloseStdin
  /\ UNCHANGED <<now, gen, totals, seen, pc, STOP, main, threads>>

Next ==
  \/ First
  \/ Check
  \/ handle_line
  \/ Drained
  \/ Send
  \/ Forward
  \/ ReaderEnds
  \/ on_signal
  \/ Tick
  \/ Operator

(* The steps of the two threads.                                           *)
Main == First \/ Check \/ handle_line \/ Drained \/ Send
Reader == Forward \/ ReaderEnds

(* Both threads run and time passes; nobody has to type or to kill.        *)
Fairness == WF_vars(Main) /\ WF_vars(Reader) /\ WF_vars(Tick)

Spec == Init /\ [][Next]_vars /\ Fairness

-----------------------------------------------------------------------------
=============================================================================
