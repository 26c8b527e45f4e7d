---------------------------- MODULE SvPublisherC ----------------------------
(***************************************************************************)
(* The libiec61850 sv-publisher: one loop that sends when a frame is due   *)
(* and sleeps in ppoll until the next deadline, a line or a signal.        *)
(* SVPublisher_publish returns nothing, so the program never learns that a *)
(* frame was refused.                                                      *)
(***************************************************************************)
EXTENDS SvPublishing

VARIABLES
  pc,           (* Where main is: see the actions.                         *)
  next,         (* Deadline of the next frame.                             *)
  smp_cnt,      (* smpCnt of the next ASDU.                                *)
  after_set,    (* A set has been obeyed since the last frame.             *)
  batch,        (* Lines of the last read not yet handled.                 *)
  stdin_open, g_running

main == <<next, smp_cnt, after_set>>
vars == <<now, input, gen, totals, seen, pc, main, batch, stdin_open, g_running>>

TypeOK ==
  /\ PublishingTypeOK
  /\ pc \in {"while", "due", "poll", "lines", "exited"}
  /\ next \in Nat
  /\ smp_cnt \in Cnts
  /\ after_set \in BOOLEAN
  /\ batch \in Seq(Lines)
  /\ stdin_open \in BOOLEAN /\ g_running \in BOOLEAN

OwnInit ==
  /\ next = 0
  /\ smp_cnt = 0
  /\ after_set = FALSE
  /\ batch = << >>
  /\ stdin_open = TRUE /\ g_running = TRUE

Init == PublishingInit /\ OwnInit /\ pc = "while"

-----------------------------------------------------------------------------

(* The smpCnt that follows n.                                              *)
After(n) == (n + 1) % Wrap

(* The smpCnt after i more ASDUs.                                          *)
Counted[i \in 0 .. NoAsdu] == IF i = 0 THEN smp_cnt ELSE After(Counted[i - 1])

(* The deadline after t; more than a second behind, the schedule starts    *)
(* again from now.                                                         *)
Later(t) == IF now > t + 1 + Second THEN now + 1 ELSE t + 1

(* Frame on the wire, or refused behind the program's back.                *)
send_frame ==
  /\ LET cnts == [a \in 1 .. NoAsdu |-> Counted[a - 1]] IN
     /\ \/ /\ PutOnWire(next, cnts, gen, ~g_running)
           /\ UNCHANGED refused
        \/ /\ Faulty
           /\ refused' = refused + 1
           /\ UNCHANGED <<wire, after>>
     /\ Account(after_set, cnts[NoAsdu])
  /\ UNCHANGED errors
  /\ smp_cnt' = Counted[NoAsdu]
  /\ after_set' = FALSE

(* while (g_running).                                                      *)
While ==
  /\ pc = "while"
  /\ IF g_running
       THEN pc' = "due" /\ UNCHANGED out
       ELSE pc' = "exited" /\ emit_stopped
  /\ UNCHANGED <<now, input, gen, totals, wire, refused, errors, after, main, batch,
                 stdin_open, g_running>>

(* A frame is due and sent, or it is not yet time.                         *)
Due ==
  /\ pc = "due"
  /\ IF now >= next /\ frames < MaxFrames
       THEN send_frame /\ next' = Later(next)
       ELSE UNCHANGED <<totals, seen, main>>
  /\ pc' = "poll"
  /\ UNCHANGED <<now, input, gen, batch, stdin_open, g_running>>

(* Mutant: a program that is late sends without going back to while.       *)
TimeoutMutant ==
  /\ pc = "poll"
  /\ now >= next
  /\ pc' = "due"
  /\ UNCHANGED <<now, input, gen, totals, seen, main, batch, stdin_open, g_running>>

(* ppoll runs into its timeout.                                            *)
Timeout ==
  /\ pc = "poll"
  /\ now >= next
  /\ pc' = "while"
  /\ UNCHANGED <<now, input, gen, totals, seen, main, batch, stdin_open, g_running>>

(* ppoll finds lines; read takes all there are.                            *)
ReadLines ==
  /\ pc = "poll"
  /\ stdin_open
  /\ stdin # << >>
  /\ batch' = stdin
  /\ stdin' = << >>
  /\ pc' = "lines"
  /\ UNCHANGED <<now, typed, eof, gen, totals, seen, main, stdin_open, g_running>>

(* Mutant: the end of standard input ends the program.                     *)
ReadEofMutant ==
  /\ pc = "poll"
  /\ stdin_open
  /\ stdin = << >> /\ eof
  /\ stdin_open' = FALSE
  /\ pc' = "exited"
  /\ UNCHANGED <<now, input, gen, totals, seen, main, batch, g_running>>

(* ppoll finds standard input closed.                                      *)
ReadEof ==
  /\ pc = "poll"
  /\ stdin_open
  /\ stdin = << >> /\ eof
  /\ stdin_open' = FALSE
  /\ pc' = "while"
  /\ UNCHANGED <<now, input, gen, totals, seen, main, batch, g_running>>

(* Mutant: a stop between two lines is forgotten.                          *)
HaltMutant(c) == g_running' = (c # "stop")

(* handle_line returned false on a stop.                                   *)
Halt(c) == g_running' = (g_running /\ c # "stop")

(* One line of the batch; after the last the loop starts again.            *)
handle_line ==
  /\ pc = "lines"
  /\ batch # << >>
  /\ LET c == Head(batch) IN
     /\ gen' = IF c = "set" THEN gen + 1 ELSE gen
     /\ after_set' = (after_set \/ c = "set")
     /\ Halt(c)
  /\ batch' = Tail(batch)
  /\ pc' = IF Len(batch) = 1 THEN "while" ELSE "lines"
  /\ UNCHANGED <<now, input, totals, seen, next, smp_cnt, stdin_open>>

(* A signal ends a ppoll that is under way, and no other.                  *)
sig_handler ==
  /\ pc # "exited"
  /\ g_running
  /\ g_running' = FALSE
  /\ pc' = IF pc = "poll" THEN "while" ELSE pc
  /\ UNCHANGED <<now, input, gen, totals, seen, main, batch, stdin_open>>

Tick ==
  /\ pc # "exited"
  /\ Clock(next)
  /\ UNCHANGED <<input, gen, totals, seen, pc, main, batch, stdin_open, g_running>>

Operator ==
  /\ pc # "exited"
  /\ Type \/ CloseStdin
  /\ UNCHANGED <<now, gen, totals, seen, pc, main, batch, stdin_open, g_running>>

Next ==
  \/ While
  \/ Due
  \/ Timeout
  \/ ReadLines
  \/ ReadEof
  \/ handle_line
  \/ sig_handler
  \/ Tick
  \/ Operator

(* The steps of the program.                                               *)
Main == While \/ Due \/ Timeout \/ ReadLines \/ ReadEof \/ handle_line

(* The program runs and time passes; nobody has to type or to kill.        *)
Fairness == WF_vars(Main) /\ WF_vars(Tick)

Spec == Init /\ [][Next]_vars /\ Fairness
=============================================================================
