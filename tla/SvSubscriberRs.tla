--------------------------- MODULE SvSubscriberRs ---------------------------
(***************************************************************************)
(* The iec61850-rust sv-subscriber: before each recv the stats lines that  *)
(* are due, then one frame.  Streams are entries of a Vec that grows.  A   *)
(* signal ends the process where it is.                                    *)
(***************************************************************************)
EXTENDS SvReceiving

VARIABLES
  pc,           (* "top", "stats" or "recv".                               *)
  clock         (* Instant::now() at the top of the loop.                  *)

vars == <<input, running, next_stats, cnt, known, stats, accepted, pc, clock>>

TypeOK ==
  /\ ReceivingTypeOK
  /\ pc \in {"top", "stats", "recv"}
  /\ clock \in 0 .. MaxTime

Init == ReceivingInit /\ clock = 0 /\ pc = "top"

-----------------------------------------------------------------------------

(* The top of the loop: the clock is read.                                 *)
Top ==
  /\ running
  /\ pc = "top"
  /\ clock' = now
  /\ pc' = "stats"
  /\ UNCHANGED <<input, running, next_stats, cnt, known, stats, accepted>>

(* Mutant: a late program starts its seconds again from now.               *)
StatsMutantDrift ==
  /\ running
  /\ pc = "stats"
  /\ IF clock >= next_stats
       THEN EmitStats /\ next_stats' = clock + Second /\ UNCHANGED pc
       ELSE pc' = "recv" /\ UNCHANGED <<stats, next_stats>>
  /\ UNCHANGED <<input, running, cnt, known, accepted, clock>>

(* while now >= next_stats.                                                *)
Stats ==
  /\ running
  /\ pc = "stats"
  /\ IF clock >= next_stats
       THEN EmitStats /\ next_stats' = next_stats + Second /\ UNCHANGED pc
       ELSE pc' = "recv" /\ UNCHANGED <<stats, next_stats>>
  /\ UNCHANGED <<input, running, cnt, known, accepted, clock>>

(* recv times out, fails, or returns a frame that is filtered out or       *)
(* cannot be decoded.                                                      *)
Ignore ==
  /\ running
  /\ pc = "recv"
  /\ rx = << >>
  /\ pc' = "top"
  /\ UNCHANGED <<input, running, next_stats, cnt, known, stats, accepted, clock>>

(* Mutant: the entry is looked up by svID alone.                           *)
PositionMutant(table, s) == {i \in 1 .. Len(table) : table[i][2] = s[2]}

(* Where the stream has its entry.                                         *)
Position(table, s) == {i \in 1 .. Len(table) : table[i] = s}

(* One ASDU of a frame of APPID app: its stream, a new one if need be, and *)
(* the count.                                                              *)
CountAsdu(st, app, a) ==
  LET s == <<app, a.sv>>
      table == IF Position(st.known, s) = {} THEN Append(st.known, s) ELSE st.known
      entry == table[CHOOSE i \in Position(table, s) : TRUE]
  IN [known |-> table,
      cnt |-> [st.cnt EXCEPT ![entry] = countRs(SmpCntWrap[a.sv], @, a.cnt)]]

(* All the ASDUs of a frame, in order.                                     *)
CountFrame(f) ==
  LET after[n \in 0 .. Len(f.asdus)] ==
        IF n = 0 THEN [known |-> known, cnt |-> cnt]
        ELSE CountAsdu(after[n - 1], f.app, f.asdus[n])
  IN  after[Len(f.asdus)]

(* recv returns a frame; its ASDUs are counted and printed.                *)
Frame ==
  /\ running
  /\ pc = "recv"
  /\ rx # << >>
  /\ rx' = Tail(rx)
  /\ LET f == Head(rx)
         st == CountFrame(f)
     IN /\ known' = st.known
        /\ cnt' = st.cnt
        /\ Accept(f)
  /\ pc' = "top"
  /\ UNCHANGED <<now, arrived, running, next_stats, stats, clock>>

(* exit_on_signals: the handler exits with code 0.                         *)
Signal ==
  /\ running
  /\ running' = FALSE
  /\ UNCHANGED <<input, next_stats, cnt, known, stats, accepted, pc, clock>>

Receive ==
  /\ Arrive
  /\ UNCHANGED <<now, running, next_stats, cnt, known, stats, accepted, pc, clock>>

Tick ==
  /\ Clock
  /\ UNCHANGED <<rx, arrived, running, next_stats, cnt, known, stats, accepted, pc, clock>>

Next == Top \/ Stats \/ Ignore \/ Frame \/ Signal \/ Receive \/ Tick

(* The steps of the program.                                               *)
Main == Top \/ Stats \/ Ignore \/ Frame

(* The program runs and time passes.                                       *)
Fairness == WF_vars(Main) /\ WF_vars(Tick)

Spec == Init /\ [][Next]_vars /\ Fairness
=============================================================================
