-------------------------- MODULE GoosePublisherRs --------------------------
(***************************************************************************)
(* The iec61850-rust goose-publisher: a reader thread forwards lines over  *)
(* an mpsc channel; the main thread sends a frame that is due, else waits  *)
(* for one line.  A stop exits at once.                                    *)
(***************************************************************************)
EXTENDS GoosePublishing

VARIABLES
  channel,      (* Lines the reader thread has sent and main not received. *)
  reading       (* The reader thread has not ended.                        *)

threads == <<channel, reading>>
vars == <<running, stopped, input, stdin_open, counters, seen, threads>>

TypeOK == PublishingTypeOK /\ channel \in Seq(Lines) /\ reading \in BOOLEAN

(* send_frame, for the values, counters and schedule position given: a     *)
(* frame the socket refuses uses up its sqNum and is not "published".      *)
send_frame(v, st, sq, l, s) ==
  LET interval == IntervalAt(s)
      t == TalOf(interval)
      encoded == v \notin TooBig
  IN
  /\ IF encoded
       THEN /\ \/ PutOnWire(l, v, t) /\ emit_published(st, sq, t)
               \/ Faulty /\ UNCHANGED seen
            /\ sq_num' = Inc(sq)
            /\ lib' = [l EXCEPT !.sq = Inc(l.sq)]
       ELSE /\ sq_num' = sq
            /\ lib' = l
            /\ UNCHANGED seen
  /\ val' = v
  /\ st_num' = st
  /\ step' = Later(s)
  /\ wait' = interval

(* increase_st_num, in the library.                                        *)
increase_st_num(l) == [st |-> Inc(l.st), sq |-> 0]

state_change(v) == send_frame(v, Inc(st_num), 0, increase_st_num(lib), 0)

Init == PublishingInit /\ channel = << >> /\ reading = TRUE

-----------------------------------------------------------------------------

(* The reader thread: a line, or the end of standard input.                *)
Forward ==
  /\ running
  /\ reading
  /\ stdin # << >>
  /\ stdin' = Tail(stdin)
  /\ channel' = Append(channel, Head(stdin))
  /\ UNCHANGED <<running, stopped, typed, eof, stdin_open, counters, seen, reading>>

ReaderEnds ==
  /\ running
  /\ reading
  /\ stdin = << >> /\ eof
  /\ reading' = FALSE
  /\ UNCHANGED <<running, stopped, input, stdin_open, counters, seen, channel>>

(* Mutant: nothing is sent once standard input is closed.                  *)
DueMutant ==
  /\ running
  /\ wait <= 0
  /\ stdin_open
  /\ send_frame(val, st_num, sq_num, lib, step)
  /\ UNCHANGED <<running, stopped, input, stdin_open, threads>>

(* The main loop finds a frame due (the first send_frame is one of these). *)
Due ==
  /\ running
  /\ wait <= 0
  /\ send_frame(val, st_num, sq_num, lib, step)
  /\ UNCHANGED <<running, stopped, input, stdin_open, threads>>

(* recv_timeout returns a line: handle_line.                               *)
handle_line ==
  LET c == Head(channel)
  IN
  /\ running
  /\ wait > 0
  /\ stdin_open
  /\ channel # << >>
  /\ channel' = Tail(channel)
  /\ \/ /\ c[1] = "set"
        /\ state_change(c[2])
        /\ UNCHANGED <<running, stopped>>
     \/ /\ c[1] = "stop"
        /\ Halt
        /\ UNCHANGED <<counters, seen>>
     \/ /\ c[1] = "bad"
        /\ UNCHANGED <<running, stopped, counters, seen>>
  /\ UNCHANGED <<input, stdin_open, reading>>

(* recv_timeout finds the sender gone and nothing left in the channel.     *)
Disconnected ==
  /\ running
  /\ wait > 0
  /\ stdin_open
  /\ channel = << >> /\ ~reading
  /\ stdin_open' = FALSE
  /\ UNCHANGED <<running, stopped, input, counters, seen, threads>>

Signal ==
  /\ running
  /\ running' = FALSE
  /\ UNCHANGED <<stopped, input, stdin_open, counters, seen, threads>>

Tick ==
  /\ running
  /\ Clock
  /\ UNCHANGED <<running, stopped, input, stdin_open, val, st_num, sq_num, lib, step,
                 wire, published, threads>>

Operator ==
  /\ running
  /\ Type \/ CloseStdin
  /\ UNCHANGED <<running, stopped, stdin_open, counters, seen, threads>>

Next ==
  \/ Forward
  \/ ReaderEnds
  \/ Due
  \/ handle_line
  \/ Disconnected
  \/ Signal
  \/ Tick
  \/ Operator

(* The steps of the two threads.                                           *)
Reader == Forward \/ ReaderEnds
Thread == Due \/ handle_line \/ Disconnected

(* Both threads and the clock go on.                                       *)
Fairness == WF_vars(Reader) /\ WF_vars(Thread) /\ WF_vars(Tick)

Spec == Init /\ [][Next]_vars /\ Fairness

-----------------------------------------------------------------------------
=============================================================================
