---------------------------- MODULE SvPublisherGo ----------------------------
(***************************************************************************)
(* The dscsystems sv-publisher: the main goroutine paces and sends, the    *)
(* goroutine of readCommands stores new data sets in an atomic pointer,    *)
(* the signal goroutine and a stop command fill the channel stop, which    *)
(* holds one token.                                                        *)
(***************************************************************************)
EXTENDS SvPublishing

VARIABLES
  pc,           (* Main: in waitUntil, with a frame built, or gone.        *)
  k,            (* The loop counter.                                       *)
  smpCnt,       (* smpCnt of the next ASDU.                                *)
  built,        (* The frame under way.                                    *)
  lastGen,      (* The data set of the last frame that was sent.           *)
  stop,         (* The channel holds its token.                            *)
  reading       (* readCommands has not returned.                          *)

main == <<pc, k, smpCnt, built, lastGen>>
vars == <<now, input, gen, totals, seen, main, stop, reading>>

TypeOK ==
  /\ PublishingTypeOK
  /\ pc \in {"wait", "built", "exited"}
  /\ k \in 0 .. MaxFrames
  /\ smpCnt \in Cnts
  /\ built \in FrameRecords
  /\ lastGen \in 0 .. MaxLines
  /\ stop \in BOOLEAN /\ reading \in BOOLEAN

(* The smpCnt that follows n.                                              *)
After(n) == IF n + 1 >= Wrap THEN 0 ELSE n + 1

(* The smpCnt after i more ASDUs.                                          *)
Counted[i \in 0 .. NoAsdu] == IF i = 0 THEN smpCnt ELSE After(Counted[i - 1])

OwnInit ==
  /\ k = 0
  /\ smpCnt = 0
  /\ built = [slot |-> 0, cnts |-> [i \in 1 .. NoAsdu |-> 0], gen |-> 0]
  /\ lastGen = 0
  /\ stop = FALSE
  /\ reading = TRUE

Init == PublishingInit /\ OwnInit /\ pc = "wait"

-----------------------------------------------------------------------------

(* waitUntil returns true: the ASDUs are numbered and the data set loaded. *)
Build ==
  /\ pc = "wait"
  /\ ~stop
  /\ now >= k
  /\ k < MaxFrames
  /\ built' = [slot |-> k, cnts |-> [i \in 1 .. NoAsdu |-> Counted[i - 1]], gen |-> gen]
  /\ smpCnt' = Counted[NoAsdu]
  /\ pc' = "built"
  /\ UNCHANGED <<now, input, gen, totals, seen, k, lastGen, stop, reading>>

(* WriteFrame succeeds.                                                    *)
Write ==
  /\ pc = "built"
  /\ PutOnWire(built.slot, built.cnts, built.gen, stop)
  /\ Account(built.gen # lastGen, built.cnts[NoAsdu])
  /\ lastGen' = built.gen
  /\ k' = k + 1
  /\ pc' = "wait"
  /\ UNCHANGED <<now, input, gen, refused, errors, smpCnt, built, stop, reading>>

(* Mutants: the ASDUs of a refused frame are numbered again; its data set  *)
(* is taken for announced.                                                 *)
RefusedMutantCnt ==
  /\ pc = "built"
  /\ Faulty
  /\ refused' = refused + 1
  /\ EmitError
  /\ k' = k + 1
  /\ pc' = "wait"
  /\ smpCnt' = built.cnts[1]
  /\ UNCHANGED <<now, input, gen, totals, wire, out, after, built, lastGen, stop, reading>>

RefusedMutantGen ==
  /\ pc = "built"
  /\ Faulty
  /\ refused' = refused + 1
  /\ EmitError
  /\ k' = k + 1
  /\ pc' = "wait"
  /\ lastGen' = built.gen
  /\ UNCHANGED <<now, input, gen, totals, wire, out, after, smpCnt, built, stop, reading>>

(* WriteFrame fails: the error is printed and the slot is over.            *)
Refused ==
  /\ pc = "built"
  /\ Faulty
  /\ refused' = refused + 1
  /\ EmitError
  /\ k' = k + 1
  /\ pc' = "wait"
  /\ UNCHANGED <<now, input, gen, totals, wire, out, after, smpCnt, built, lastGen, stop,
                 reading>>

(* waitUntil takes the token: "stopped" and exit.                          *)
Quit ==
  /\ pc = "wait"
  /\ stop
  /\ stop' = FALSE
  /\ emit_stopped
  /\ pc' = "exited"
  /\ UNCHANGED <<now, input, gen, totals, wire, refused, errors, after, k, smpCnt, built,
                 lastGen, reading>>

(* One line in readCommands.                                               *)
readCommands ==
  LET c == Head(stdin) IN
  /\ pc # "exited"
  /\ reading
  /\ stdin # << >>
  /\ stdin' = Tail(stdin)
  /\ gen' = IF c = "set" THEN gen + 1 ELSE gen
  /\ stop' = (stop \/ c = "stop")
  /\ reading' = (c # "stop")
  /\ UNCHANGED <<now, typed, eof, totals, seen, main>>

(* The end of standard input.                                              *)
StdinClosed ==
  /\ pc # "exited"
  /\ reading
  /\ stdin = << >> /\ eof
  /\ reading' = FALSE
  /\ UNCHANGED <<now, input, gen, totals, seen, main, stop>>

Signal ==
  /\ pc # "exited"
  /\ ~stop
  /\ stop' = TRUE
  /\ UNCHANGED <<now, input, gen, totals, seen, main, reading>>

Tick ==
  /\ pc # "exited"
  /\ Clock(k)
  /\ UNCHANGED <<input, gen, totals, seen, main, stop, reading>>

Operator ==
  /\ pc # "exited"
  /\ Type \/ CloseStdin
  /\ UNCHANGED <<now, gen, totals, seen, main, stop, reading>>

Next ==
  \/ Build
  \/ Write
  \/ Refused
  \/ Quit
  \/ readCommands
  \/ StdinClosed
  \/ Signal
  \/ Tick
  \/ Operator

(* The steps of the goroutines.                                            *)
Main == Build \/ Write \/ Refused \/ Quit
Reader == readCommands \/ StdinClosed

(* Goroutines run and time passes; nobody has to type or to kill.          *)
Fairness == WF_vars(Main) /\ WF_vars(Reader) /\ WF_vars(Tick)

Spec == Init /\ [][Next]_vars /\ Fairness
=============================================================================
