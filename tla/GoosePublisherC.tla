--------------------------- MODULE GoosePublisherC ---------------------------
(***************************************************************************)
(* The libiec61850 (C) goose-publisher: one thread, whose loop sends a     *)
(* frame that is due, else waits in select for standard input, reads what  *)
(* is there and handles every complete line of it.                         *)
(***************************************************************************)
EXTENDS GoosePublishing

VARIABLE
  batch         (* Complete lines of the buffer still to be handled.       *)

vars == <<running, stopped, input, stdin_open, counters, seen, batch>>

TypeOK == PublishingTypeOK /\ batch \in Seq(Lines)

(* send_frame, for the values, counters and schedule position given.  What *)
(* GoosePublisher_publish returns is about the encoding alone, and the     *)
(* result of Ethernet_sendPacket (--simulation) is not looked at: a frame  *)
(* the socket refuses counts and is announced like any other.              *)
send_frame(v, st, sq, l, s) ==
  LET interval == IntervalAt(s)
      t == TalOf(interval)
      encoded == v \notin TooBig
  IN
  /\ IF encoded
       THEN /\ \/ PutOnWire(l, v, t)
               \/ Faulty /\ UNCHANGED <<wire, gap>>
            /\ emit_published(st, sq, t)
            /\ sq_num' = Inc(sq)
            /\ lib' = [l EXCEPT !.sq = Inc(l.sq)]
       ELSE /\ sq_num' = sq
            /\ lib' = l
            /\ UNCHANGED seen
  /\ val' = v
  /\ st_num' = st
  /\ step' = Later(s)
  /\ wait' = interval

(* GoosePublisher_increaseStNum, in the library.                           *)
increaseStNum(l) == [st |-> Inc(l.st), sq |-> 0]

state_change(v) == send_frame(v, Inc(st_num), 0, increaseStNum(lib), 0)

Init == PublishingInit /\ batch = << >>

-----------------------------------------------------------------------------

(* The loop finds a frame due.  The first send_frame (step 0) comes before  *)
(* the loop and does not look at g_running.                                *)
Due ==
  /\ running \/ step = 0
  /\ batch = << >>
  /\ wait <= 0
  /\ send_frame(val, st_num, sq_num, lib, step)
  /\ UNCHANGED <<running, stopped, input, stdin_open, batch>>

(* Mutant: the line behind those that were handled is lost.                *)
ReadLinesMutant ==
  /\ running
  /\ batch = << >>
  /\ wait > 0
  /\ stdin_open
  /\ \E n \in 1 .. Len(stdin) :
       /\ batch' = SubSeq(stdin, 1, n)
       /\ stdin' = SubSeq(stdin, n + 2, Len(stdin))
  /\ UNCHANGED <<running, stopped, typed, eof, stdin_open, counters, seen>>

(* select and read: some lines, at least one complete.                     *)
ReadLines ==
  /\ running
  /\ batch = << >>
  /\ wait > 0
  /\ stdin_open
  /\ \E n \in 1 .. Len(stdin) :
       /\ batch' = SubSeq(stdin, 1, n)
       /\ stdin' = SubSeq(stdin, n + 1, Len(stdin))
  /\ UNCHANGED <<running, stopped, typed, eof, stdin_open, counters, seen>>

(* read returns 0.                                                         *)
ReadEof ==
  /\ running
  /\ batch = << >>
  /\ wait > 0
  /\ stdin_open
  /\ stdin = << >> /\ eof
  /\ stdin_open' = FALSE
  /\ UNCHANGED <<running, stopped, input, counters, seen, batch>>

(* handle_line on the next line of the buffer.  A stop clears g_running,   *)
(* which the loop over the lines does not look at.                         *)
handle_line ==
  LET c == Head(batch)
  IN
  /\ batch # << >>
  /\ batch' = Tail(batch)
  /\ \/ /\ c[1] = "set"
        /\ state_change(c[2])
        /\ UNCHANGED <<running, stopped>>
     \/ /\ c[1] = "stop"
        /\ Halt
        /\ UNCHANGED <<counters, seen>>
     \/ /\ c[1] = "bad"
        /\ UNCHANGED <<running, stopped, counters, seen>>
  /\ UNCHANGED <<input, stdin_open>>

(* SIGTERM or SIGINT.                                                      *)
sig_handler ==
  /\ running
  /\ running' = FALSE
  /\ UNCHANGED <<stopped, input, stdin_open, counters, seen, batch>>

Tick ==
  /\ running \/ batch # << >>
  /\ Clock
  /\ UNCHANGED <<running, stopped, input, stdin_open, val, st_num, sq_num, lib, step,
                 wire, published, batch>>

Operator ==
  /\ running
  /\ Type \/ CloseStdin
  /\ UNCHANGED <<running, stopped, stdin_open, counters, seen, batch>>

Next ==
  \/ Due
  \/ ReadLines
  \/ ReadEof
  \/ handle_line
  \/ sig_handler
  \/ Tick
  \/ Operator

(* The steps of the thread.                                                *)
Thread == Due \/ ReadLines \/ ReadEof \/ handle_line

(* The thread and the clock go on; the operator and signals need not act.  *)
Fairness == WF_vars(Thread) /\ WF_vars(Tick)

Spec == Init /\ [][Next]_vars /\ Fairness
=============================================================================
