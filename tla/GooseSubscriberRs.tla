-------------------------- MODULE GooseSubscriberRs --------------------------
(***************************************************************************)
(* The iec61850-rust goose-subscriber: one thread that checks every        *)
(* deadline before each single recv (10 ms timeout).  Streams live in a    *)
(* map without a limit; SIGTERM and SIGINT end the process at once.        *)
(***************************************************************************)
EXTENDS GooseWire

VARIABLES
  pc,           (* "check" or "recv".                                      *)
  order,        (* gocbRefs that have an entry in the map.                 *)
  deadline,     (* Ticks until Stream.deadline; None when it is None.      *)
  timed_out     (* Stream.timed_out.                                       *)

streams == <<order, deadline, timed_out>>
vars == <<alive, wire, output, history, pc, streams>>

None == -1

TypeOK ==
  /\ WireTypeOK
  /\ pc \in {"check", "recv"}
  /\ order \in SUBSET Refs
  /\ deadline \in [Refs -> {None} \cup (0 .. MaxTal)]
  /\ timed_out \in [Refs -> BOOLEAN]

Init ==
  /\ WireInit
  /\ pc = "check"
  /\ order = {}
  /\ deadline = [r \in Refs |-> None]
  /\ timed_out = [r \in Refs |-> FALSE]

-----------------------------------------------------------------------------

(* Mutant: the deadline is not looked at.                                  *)
OverdueMutant == {r \in order : ~timed_out[r]}

Overdue == {r \in order : deadline[r] = 0 /\ ~timed_out[r]}

(* The pass over all streams at the head of the loop.                      *)
Check ==
  /\ alive
  /\ pc = "check"
  /\ timed_out' = [r \in Refs |-> timed_out[r] \/ r \in Overdue]
  /\ SayTimeout(Overdue)
  /\ pc' = "recv"
  /\ UNCHANGED <<alive, wire, history, order, deadline>>

(* Mutant: a recv that timed out is simply repeated.                       *)
RecvTimeoutMutant ==
  /\ alive
  /\ pc = "recv"
  /\ queue = << >>
  /\ UNCHANGED vars

(* recv times out.                                                         *)
RecvTimeout ==
  /\ alive
  /\ pc = "recv"
  /\ queue = << >>
  /\ pc' = "check"
  /\ UNCHANGED <<alive, wire, output, history, streams>>

(* recv fails: logged, a short sleep, and on with the loop.                *)
RecvError ==
  /\ alive
  /\ pc = "recv"
  /\ pc' = "check"
  /\ UNCHANGED <<alive, wire, output, history, streams>>

(* A frame that is filtered out or cannot be decoded.                      *)
Filtered ==
  /\ alive
  /\ pc = "recv"
  /\ queue # << >>
  /\ ~Head(queue).ok
  /\ queue' = Tail(queue)
  /\ pc' = "check"
  /\ UNCHANGED <<alive, sent, output, history, streams>>

(* The deadline of a kept frame: none for a timeAllowedToLive of 0.        *)
DeadlineOf(f) == IF f.tal > 0 THEN f.tal ELSE None

(* A frame that is kept: supervision, then its goose event.                *)
Frame ==
  LET f == Head(queue)
      r == f.ref
  IN
  /\ alive
  /\ pc = "recv"
  /\ queue # << >>
  /\ f.ok
  /\ queue' = Tail(queue)
  /\ order' = order \cup {r}
  /\ timed_out' = [timed_out EXCEPT ![r] = FALSE]
  /\ SayOk(r, timed_out[r])
  /\ deadline' = [deadline EXCEPT ![r] = DeadlineOf(f)]
  /\ shown' = [shown EXCEPT ![r] = "goose"]
  /\ RecordFrame(f)
  /\ pc' = "check"
  /\ UNCHANGED <<alive, sent>>

Tick ==
  /\ alive
  /\ RecordTick
  /\ deadline' = [r \in Refs |-> RunDown(deadline[r])]
  /\ UNCHANGED <<alive, wire, output, pc, order, timed_out>>

(* exit_on_signals.                                                        *)
Signal ==
  /\ alive
  /\ alive' = FALSE
  /\ UNCHANGED <<wire, output, history, pc, streams>>

Receive ==
  /\ alive
  /\ \E f \in Frames : Arrive(f)
  /\ UNCHANGED <<alive, output, history, pc, streams>>

Next ==
  \/ Receive
  \/ Check
  \/ RecvTimeout
  \/ RecvError
  \/ Filtered
  \/ Frame
  \/ Tick
  \/ Signal

(* The steps of the thread; recv need not fail.                            *)
Thread == Check \/ RecvTimeout \/ Filtered \/ Frame

(* The thread keeps running and the clock keeps ticking.                   *)
Fairness == WF_vars(Thread) /\ WF_vars(Tick)

Spec == Init /\ [][Next]_vars /\ Fairness

-----------------------------------------------------------------------------

(***************************************************************************)
(* The deadline a stream holds is that of its last frame, and its flag is  *)
(* what the reader was last told.                                          *)
(***************************************************************************)
DeadlineFollowsFrames ==
  \A r \in Refs :
    /\ timed_out[r] <=> said[r] = "timeout"
    /\ deadline[r] = None <=> tal[r] = 0
    /\ deadline[r] # None =>
         deadline[r] = IF age[r] < tal[r] THEN tal[r] - age[r] ELSE 0
=============================================================================
