-------------------------- MODULE GooseSubscriberGo --------------------------
(***************************************************************************)
(* The dscsystems (Go) goose-subscriber.  The main goroutine reads frames, *)
(* calls supervisor.frame under the supervisor's mutex and then prints the *)
(* goose event outside it.  Every frame with a timeAllowedToLive starts a  *)
(* time.AfterFunc timer; a timer that has gone off is a goroutine of its   *)
(* own, waiting for the mutex, and Stop no longer reaches it.  Only the    *)
(* generation number tells it that it is stale.                            *)
(*                                                                         *)
(* supervisor.frame and the timer callback hold the mutex from their first *)
(* to their last statement, so each is one action.                         *)
(***************************************************************************)
EXTENDS GooseWire

CONSTANT
  MaxGen        (* Bound: frames supervised per gocbRef (gen is a uint64). *)

ASSUME GenAssumption == MaxGen \in Nat \ {0}

VARIABLES
  goPc,         (* Main goroutine: "read", "supervise" or "emit".          *)
  cur,          (* The frame it is handling.                               *)
  gen,          (* stream.gen, per gocbRef.                                *)
  timedOut,     (* stream.timedOut, per gocbRef.                           *)
  held,         (* stream.timer: generation of the timer held, 0 for nil.  *)
  timer         (* Every timer made: ticks left, Off or Fired.             *)

main == <<goPc, cur>>
supervisor == <<gen, timedOut, held, timer>>
goVars == <<alive, wire, output, history, main, supervisor>>

Gens == 1 .. MaxGen
Off == -1       (* Never started, stopped, or its callback has returned.   *)
Fired == -2     (* Its callback goroutine waits for the mutex.             *)

TypeOK ==
  /\ WireTypeOK
  /\ goPc \in {"read", "supervise", "emit"}
  /\ cur \in Frames
  /\ gen \in [Refs -> 0 .. MaxGen]
  /\ timedOut \in [Refs -> BOOLEAN]
  /\ held \in [Refs -> 0 .. MaxGen]
  /\ timer \in [Refs -> [Gens -> {Fired, Off} \cup (0 .. MaxTal)]]

GoInit ==
  /\ WireInit
  /\ goPc = "read"
  /\ cur \in Frames
  /\ gen = [r \in Refs |-> 0]
  /\ timedOut = [r \in Refs |-> FALSE]
  /\ held = [r \in Refs |-> 0]
  /\ timer = [r \in Refs |-> [g \in Gens |-> Off]]

-----------------------------------------------------------------------------

(* sock.ReadFrame and the filters that follow it.                          *)
ReadFrame ==
  /\ alive
  /\ goPc = "read"
  /\ queue # << >>
  /\ queue' = Tail(queue)
  /\ IF Head(queue).ok
       THEN goPc' = "supervise" /\ cur' = Head(queue)
       ELSE UNCHANGED main
  /\ UNCHANGED <<alive, sent, output, history, supervisor>>

(* Mutant: frame does not stop the timer it supersedes.                    *)
StopMutant(r) == timer[r]

(* timer.Stop on the timer the stream holds, if it has not gone off.       *)
Stop(r) ==
  [g \in Gens |-> IF g = held[r] /\ timer[r][g] # Fired THEN Off ELSE timer[r][g]]

(* supervisor.frame.                                                       *)
Supervise ==
  LET r == cur.ref
      g == gen[r] + 1
  IN
  /\ alive
  /\ goPc = "supervise"
  /\ g <= MaxGen
  /\ timedOut' = [timedOut EXCEPT ![r] = FALSE]
  /\ SayOk(r, timedOut[r])
  /\ shown' = IF timedOut[r] THEN [shown EXCEPT ![r] = "ok"] ELSE shown
  /\ gen' = [gen EXCEPT ![r] = g]
  /\ \/ /\ cur.tal = 0
        /\ timer' = [timer EXCEPT ![r] = Stop(r)]
        /\ UNCHANGED held
     \/ /\ cur.tal > 0
        /\ timer' = [timer EXCEPT ![r] = [Stop(r) EXCEPT ![g] = cur.tal]]
        /\ held' = [held EXCEPT ![r] = g]
  /\ RecordFrame(cur)
  /\ goPc' = "emit"
  /\ UNCHANGED <<alive, wire, cur>>

(* jl.Emit of the goose event, the mutex already released.                 *)
EmitGoose ==
  /\ alive
  /\ goPc = "emit"
  /\ shown' = [shown EXCEPT ![cur.ref] = "goose"]
  /\ goPc' = "read"
  /\ UNCHANGED <<alive, wire, said, history, cur, supervisor>>

(* The runtime starts the callback of a timer that has run down.           *)
Fire(r, g) ==
  /\ alive
  /\ timer[r][g] = 0
  /\ timer' = [timer EXCEPT ![r][g] = Fired]
  /\ UNCHANGED <<alive, wire, output, history, main, gen, timedOut, held>>

(* Mutant: the callback does not compare generations.                      *)
StaleMutant(r, g) == timedOut[r]

(* A callback finds itself superseded or the timeout already reported.     *)
Stale(r, g) == gen[r] # g \/ timedOut[r]

(* The callback of a timer, once it has the mutex.                         *)
Callback(r, g) ==
  /\ alive
  /\ timer[r][g] = Fired
  /\ timer' = [timer EXCEPT ![r][g] = Off]
  /\ IF Stale(r, g)
       THEN UNCHANGED <<timedOut, output>>
       ELSE /\ timedOut' = [timedOut EXCEPT ![r] = TRUE]
            /\ SayTimeout({r})
  /\ UNCHANGED <<alive, wire, history, main, gen, held>>

(* A tick of the clock runs every started timer down.                      *)
GoTick ==
  /\ alive
  /\ RecordTick
  /\ timer' = [r \in Refs |-> [g \in Gens |-> RunDown(timer[r][g])]]
  /\ UNCHANGED <<alive, wire, output, main, gen, timedOut, held>>

(* The signal goroutine closes the socket and exits at once.               *)
Signal ==
  /\ alive
  /\ alive' = FALSE
  /\ UNCHANGED <<wire, output, history, main, supervisor>>

Receive ==
  /\ alive
  /\ \E f \in Frames : Arrive(f)
  /\ UNCHANGED <<alive, output, history, main, supervisor>>

GoNext ==
  \/ Receive
  \/ ReadFrame
  \/ Supervise
  \/ EmitGoose
  \/ \E r \in Refs, g \in Gens : Fire(r, g)
  \/ \E r \in Refs, g \in Gens : Callback(r, g)
  \/ GoTick
  \/ Signal

(* Goroutines and timers are scheduled; frames and signals need not come.  *)
Fairness ==
  /\ WF_goVars(ReadFrame) /\ WF_goVars(Supervise) /\ WF_goVars(EmitGoose)
  /\ \A r \in Refs, g \in Gens : WF_goVars(Fire(r, g)) /\ WF_goVars(Callback(r, g))
  /\ WF_goVars(GoTick)

GoSpec == GoInit /\ [][GoNext]_goVars /\ Fairness

-----------------------------------------------------------------------------

(* Timer g of r tells how long the last frame of r still has to live.      *)
Counts(r, g) ==
  /\ timer[r][g] = Fired => tal[r] > 0 /\ age[r] >= tal[r]
  /\ timer[r][g] >= 0 =>
       /\ tal[r] > 0
       /\ timer[r][g] = IF age[r] < tal[r] THEN tal[r] - age[r] ELSE 0

(* No timer is younger than the stream's generation; a timer of an older   *)
(* generation can only be one that had gone off when the next frame came.  *)
Superseded(r, g) ==
  /\ g > gen[r] => timer[r][g] = Off
  /\ g < gen[r] => timer[r][g] \in {Off, Fired}

(***************************************************************************)
(* What makes the generation check of the timer callback enough: only the  *)
(* timer of the current generation can still run, it is the one the stream *)
(* holds, and it counts down exactly the timeAllowedToLive of the last     *)
(* frame; and the stream's flag is what the reader was last told.          *)
(***************************************************************************)
TimersFollowFrames ==
  \A r \in Refs :
    /\ \A g \in Gens :
         /\ Superseded(r, g)
         /\ g = gen[r] => Counts(r, g)
         /\ g = gen[r] /\ g # held[r] => timer[r][g] = Off
    /\ held[r] <= gen[r]
    /\ timedOut[r] <=> said[r] = "timeout"
=============================================================================
