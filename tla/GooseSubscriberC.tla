-------------------------- MODULE GooseSubscriberC --------------------------
(***************************************************************************)
(* The libiec61850 (C) goose-subscriber: one thread.  Its outer loop tests *)
(* g_running, checks the deadlines of all streams and waits up to 10 ms    *)
(* for the socket; its inner loop reads frames until the socket is empty.  *)
(* Streams live in a table of MAX_STREAMS entries.                         *)
(***************************************************************************)
EXTENDS GooseWire, FiniteSets

CONSTANT
  MAX_STREAMS   (* Entries of g_streams (64 in the code).                  *)

VARIABLES
  pc,           (* "check", "wait", "drain" or "done".                     *)
  g_streams,    (* gocbRefs that have an entry in the table.               *)
  left,         (* Ticks until deadline_ms; Off when deadline_ms is 0.     *)
  timed_out     (* Stream.timed_out.                                       *)

table == <<g_streams, left, timed_out>>
vars == <<alive, wire, output, history, pc, table>>

Off == -1

TypeOK ==
  /\ WireTypeOK
  /\ pc \in {"check", "wait", "drain", "done"}
  /\ g_streams \in SUBSET Refs
  /\ left \in [Refs -> {Off} \cup (0 .. MaxTal)]
  /\ timed_out \in [Refs -> BOOLEAN]

Init ==
  /\ WireInit
  /\ pc = "check"
  /\ g_streams = {}
  /\ left = [r \in Refs |-> Off]
  /\ timed_out = [r \in Refs |-> FALSE]

-----------------------------------------------------------------------------

(* The streams check_supervision reports.                                  *)
Overdue == {r \in g_streams : left[r] = 0 /\ ~timed_out[r]}

(* One turn of the outer loop up to the wait: check_supervision.           *)
check_supervision ==
  /\ pc = "check"
  /\ alive
  /\ timed_out' = [r \in Refs |-> timed_out[r] \/ r \in Overdue]
  /\ SayTimeout(Overdue)
  /\ pc' = "wait"
  /\ UNCHANGED <<alive, wire, history, g_streams, left>>

(* The outer loop finds g_running cleared.                                 *)
Leave ==
  /\ pc = "check"
  /\ ~alive
  /\ pc' = "done"
  /\ UNCHANGED <<alive, wire, output, history, table>>

(* EthernetHandleSet_waitReady: nothing for 10 ms, or something to read.   *)
WaitReady ==
  /\ pc = "wait"
  /\ pc' = IF queue = << >> THEN "check" ELSE "drain"
  /\ UNCHANGED <<alive, wire, output, history, table>>

(* Ethernet_receivePacket returns nothing: back to the outer loop.         *)
Drained ==
  /\ pc = "drain"
  /\ queue = << >>
  /\ pc' = "check"
  /\ UNCHANGED <<alive, wire, output, history, table>>

(* A frame the filters of the inner loop or of listener drop.              *)
Filtered ==
  /\ pc = "drain"
  /\ queue # << >>
  /\ ~Head(queue).ok
  /\ queue' = Tail(queue)
  /\ UNCHANGED <<alive, sent, output, history, pc, table>>

(* stream_for finds an entry or takes a free one.                          *)
stream_for(r) == r \in g_streams \/ Cardinality(g_streams) < MAX_STREAMS

(* Mutant: a timeAllowedToLive of 0 sets a deadline too.                   *)
deadline_msMutant(f) == f.tal

(* The deadline listener sets: none for a timeAllowedToLive of 0.          *)
deadline_ms(f) == IF f.tal > 0 THEN f.tal ELSE Off

(* listener: supervision of the stream, if it has an entry, then its goose *)
(* event.  A frame of a stream without an entry restarts no supervision.   *)
listener ==
  LET f == Head(queue)
      r == f.ref
  IN
  /\ pc = "drain"
  /\ queue # << >>
  /\ f.ok
  /\ queue' = Tail(queue)
  /\ shown' = [shown EXCEPT ![r] = "goose"]
  /\ \/ /\ stream_for(r)
        /\ g_streams' = g_streams \cup {r}
        /\ timed_out' = [timed_out EXCEPT ![r] = FALSE]
        /\ SayOk(r, timed_out[r])
        /\ left' = [left EXCEPT ![r] = deadline_ms(f)]
     \/ /\ ~stream_for(r)
        /\ UNCHANGED <<table, said>>
  /\ RecordFrame(f)
  /\ UNCHANGED <<alive, sent, pc>>

Tick ==
  /\ pc # "done"
  /\ RecordTick
  /\ left' = [r \in Refs |-> RunDown(left[r])]
  /\ UNCHANGED <<alive, wire, output, pc, g_streams, timed_out>>

(* sig_handler clears g_running.                                           *)
sig_handler ==
  /\ alive
  /\ alive' = FALSE
  /\ UNCHANGED <<wire, output, history, pc, table>>

Receive ==
  /\ pc # "done"
  /\ \E f \in Frames : Arrive(f)
  /\ UNCHANGED <<alive, output, history, pc, table>>

Next ==
  \/ Receive
  \/ check_supervision
  \/ Leave
  \/ WaitReady
  \/ Drained
  \/ Filtered
  \/ listener
  \/ Tick
  \/ sig_handler

(* The steps of the thread.                                                *)
Thread == check_supervision \/ Leave \/ WaitReady \/ Drained \/ Filtered \/ listener

(* The thread keeps running and the clock keeps ticking.                   *)
Fairness == WF_vars(Thread) /\ WF_vars(Tick)

Spec == Init /\ [][Next]_vars /\ Fairness

-----------------------------------------------------------------------------

(***************************************************************************)
(* The deadline a stream's entry holds is that of its last frame, and its  *)
(* flag is what the reader was last told.                                  *)
(***************************************************************************)
DeadlineFollowsFrames ==
  \A r \in g_streams :
    /\ timed_out[r] <=> said[r] = "timeout"
    /\ left[r] = Off <=> tal[r] = 0
    /\ left[r] # Off => left[r] = IF age[r] < tal[r] THEN tal[r] - age[r] ELSE 0
=============================================================================
