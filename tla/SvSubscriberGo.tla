--------------------------- MODULE SvSubscriberGo ---------------------------
(***************************************************************************)
(* The dscsystems sv-subscriber: the main goroutine reads frames and       *)
(* counts, the writer prints the sampled ASDUs it gets over the channel    *)
(* out, the ticker prints the totals once per second, the signal goroutine *)
(* closes the socket, prints the totals and exits.                         *)
(*                                                                         *)
(* Two mutexes are modelled: the one of the totals, which main holds while *)
(* it counts, and the one of package jl, which whoever writes to stdout    *)
(* holds until the write is over and which Log takes too.  A write to      *)
(* stdout lasts as long as the reader of the pipe likes.                   *)
(***************************************************************************)
EXTENDS SvCounting, Sequences, Functions

CONSTANTS
  Streams,      (* The (APPID, svID) pairs on the wire.                    *)
  SmpCntWrap,   (* The fixture's wrap for each; 0 if it has none.          *)
  Frames,       (* Frames that may arrive: sequences of [stream, cnt].     *)
  Every,        (* --sample-every.                                         *)
  OutCap,       (* Capacity of the channel out (4096).                     *)
  MaxArrive,    (* Bound: frames that arrive.                              *)
  MaxTicks      (* Bound: seconds that pass.                               *)

ASSUME SubscriberAssumption ==
  /\ SmpCntWrap \in [Streams -> Nat]
  /\ Frames \subseteq Seq([stream : Streams, cnt : Nat])
  /\ Every \in Nat \ {0}
  /\ {OutCap, MaxArrive, MaxTicks} \subseteq Nat

VARIABLES
  rx,           (* Frames in the socket buffer.                            *)
  arrived, ticks, (* Frames and seconds so far.                            *)
  closed,       (* The socket has been closed.                             *)
  pc,           (* Where main is: see its actions.                         *)
  asdus,        (* The ASDUs of the frame main has not dealt with.         *)
  streams,      (* Per stream, its sequence state: [prev, maxSeen].        *)
  stats,        (* The four totals, under their mutex.                     *)
  out,          (* The channel to the writer.                              *)
  line,         (* What each other goroutine is about to print, if any.    *)
  jlmu,         (* Who holds the mutex of jl: "free" or a goroutine.       *)
  sig,          (* Signal goroutine: "wait", "close", "emit", "exit".      *)
  exit,         (* Alive, or the exit code.                                *)
  printed,      (* Lines on stdout.                                        *)
  past,         (* The totals after each ASDU, and at the start.           *)
  sampled       (* ASDUs that were to be reported, in order of arrival.    *)

receive == <<rx, arrived, asdus>>
counted == <<streams, stats>>
history == <<past, sampled>>
vars == <<receive, ticks, closed, pc, counted, out, line, jlmu, sig, exit, printed, history>>

Printers == {"writer", "ticker", "signal"}
Asdus == UNION {Range(f) : f \in Frames}
Nothing == <<"nothing">>
Alive == -1

TotalsType == [received : Nat, lost : Nat, duplicates : Nat, outOfOrder : Nat]
LineType == {Nothing} \cup ({"sv"} \X Asdus) \cup ({"stats"} \X TotalsType)

(* A stream nothing was received of, and the totals at the start.          *)
NewStream == [prev |-> Fresh.prev, maxSeen |-> Fresh.maxSeen]
NoTotals == [received |-> 0, lost |-> 0, duplicates |-> 0, outOfOrder |-> 0]

TypeOK ==
  /\ rx \in Seq(Frames)
  /\ arrived \in 0 .. MaxArrive /\ ticks \in 0 .. MaxTicks
  /\ closed \in BOOLEAN
  /\ pc \in {"read", "recv", "asdu", "count", "hand", "log", "fatal"}
  /\ asdus \in Seq(Asdus)
  /\ pc \in {"count", "hand"} => asdus # << >>
  /\ streams \in [Streams -> [prev : Nat \cup {None}, maxSeen : Nat]]
  /\ stats \in TotalsType
  /\ out \in Seq(Asdus) /\ Len(out) <= OutCap
  /\ line \in [Printers -> LineType]
  /\ jlmu \in Printers \cup {"free"}
  /\ jlmu # "free" => line[jlmu] # Nothing
  /\ sig \in {"wait", "close", "emit", "exit"}
  /\ exit \in {Alive, 0, 1}

Init ==
  /\ rx = << >> /\ arrived = 0 /\ ticks = 0
  /\ closed = FALSE
  /\ pc = "read"
  /\ asdus = << >>
  /\ streams = [s \in Streams |-> NewStream] /\ stats = NoTotals
  /\ out = << >>
  /\ line = [p \in Printers |-> Nothing]
  /\ jlmu = "free"
  /\ sig = "wait"
  /\ exit = Alive
  /\ printed = << >>
  /\ past = {stats}
  /\ sampled = << >>

-----------------------------------------------------------------------------
(* The main goroutine.                                                     *)

(* Read: the flag closed is looked at, then Recvfrom is called; closed     *)
(* leads to Fatal.                                                         *)
Read ==
  /\ exit = Alive
  /\ pc = "read"
  /\ pc' = IF closed THEN "fatal" ELSE "recv"
  /\ UNCHANGED <<receive, ticks, closed, counted, out, line, jlmu, sig, exit, printed, history>>

(* Recvfrom returns a frame that passes the filters.                       *)
Recvfrom ==
  /\ exit = Alive
  /\ pc = "recv"
  /\ rx # << >>
  /\ asdus' = Head(rx)
  /\ rx' = Tail(rx)
  /\ pc' = "asdu"
  /\ UNCHANGED <<arrived, ticks, closed, counted, out, line, jlmu, sig, exit, printed, history>>

(* Mutant: a timeout is taken for an error.                                *)
AgainMutant ==
  /\ exit = Alive
  /\ pc = "recv"
  /\ rx = << >>
  /\ pc' = "fatal"
  /\ UNCHANGED <<receive, ticks, closed, counted, out, line, jlmu, sig, exit, printed, history>>

(* Recvfrom times out, or fails on the closed socket; or a frame does not  *)
(* pass the filters.                                                       *)
Again ==
  /\ exit = Alive
  /\ pc = "recv"
  /\ rx = << >>
  /\ pc' = "read"
  /\ UNCHANGED <<receive, ticks, closed, counted, out, line, jlmu, sig, exit, printed, history>>

(* The next ASDU of the frame, or the next frame.  count takes the mutex   *)
(* of the totals and counts the ASDU as received.                          *)
Take ==
  /\ exit = Alive
  /\ pc = "asdu"
  /\ IF asdus = << >>
       THEN pc' = "read" /\ UNCHANGED stats
       ELSE pc' = "count" /\ stats' = [stats EXCEPT !.received = @ + 1]
  /\ UNCHANGED <<receive, ticks, closed, streams, out, line, jlmu, sig, exit, printed, history>>

(* The stream's state and the totals, in the form the counting rules take. *)
Tallied(st) ==
  [prev |-> st.prev, maxSeen |-> st.maxSeen, received |-> stats.received,
   lost |-> stats.lost, duplicates |-> stats.duplicates, outOfOrder |-> stats.outOfOrder]

(* The rest of count; the mutex is released.                               *)
Count ==
  /\ exit = Alive
  /\ pc = "count"
  /\ LET a == Head(asdus)
         t == countGo(SmpCntWrap[a.stream], Tallied(streams[a.stream]), a.cnt)
     IN /\ streams' = [streams EXCEPT ![a.stream] = [prev |-> t.prev, maxSeen |-> t.maxSeen]]
        /\ stats' = [stats EXCEPT !.lost = t.lost, !.duplicates = t.duplicates,
                                  !.outOfOrder = t.outOfOrder]
  /\ past' = past \cup {stats'}
  /\ pc' = "hand"
  /\ UNCHANGED <<receive, ticks, closed, out, line, jlmu, sig, exit, printed, sampled>>

(* out <- would not block.                                                 *)
Room == Len(out) < OutCap

(* The ASDU is handed over to the writer, skipped, or dropped with a log.  *)
HandOver ==
  /\ exit = Alive
  /\ pc = "hand"
  /\ LET a == Head(asdus)
         report == a.cnt % Every = 0
     IN /\ sampled' = IF report THEN Append(sampled, a) ELSE sampled
        /\ out' = IF report /\ Room THEN Append(out, a) ELSE out
        /\ pc' = IF report /\ ~Room THEN "log" ELSE "asdu"
  /\ asdus' = Tail(asdus)
  /\ UNCHANGED <<rx, arrived, ticks, closed, counted, line, jlmu, sig, exit, printed, past>>

(* Log, which takes the mutex of jl.                                       *)
Log ==
  /\ exit = Alive
  /\ pc = "log"
  /\ jlmu = "free"
  /\ pc' = "asdu"
  /\ UNCHANGED <<receive, ticks, closed, counted, out, line, jlmu, sig, exit, printed, history>>

(* Fatal(1): Log, then exit.                                               *)
Fatal ==
  /\ exit = Alive
  /\ pc = "fatal"
  /\ jlmu = "free"
  /\ exit' = 1
  /\ UNCHANGED <<receive, ticks, closed, pc, counted, out, line, jlmu, sig, printed, history>>

-----------------------------------------------------------------------------
(* The other goroutines.                                                   *)

(* Mutant: the ASDU stays in the channel.                                  *)
TakeOutMutant ==
  /\ exit = Alive
  /\ line["writer"] = Nothing
  /\ out # << >>
  /\ line' = [line EXCEPT !["writer"] = <<"sv", Head(out)>>]
  /\ UNCHANGED <<receive, ticks, closed, pc, counted, out, jlmu, sig, exit, printed, history>>

(* The writer takes an ASDU.                                               *)
TakeOut ==
  /\ exit = Alive
  /\ line["writer"] = Nothing
  /\ out # << >>
  /\ line' = [line EXCEPT !["writer"] = <<"sv", Head(out)>>]
  /\ out' = Tail(out)
  /\ UNCHANGED <<receive, ticks, closed, pc, counted, jlmu, sig, exit, printed, history>>

(* Mutant: the totals are read without the mutex.                          *)
emitMutant(p) == line' = [line EXCEPT ![p] = <<"stats", stats>>]

(* stats.emit up to the print: the totals, under their mutex.              *)
emit(p) ==
  /\ pc # "count"
  /\ line' = [line EXCEPT ![p] = <<"stats", stats>>]

(* A second has passed.                                                    *)
Ticker ==
  /\ exit = Alive
  /\ ticks < MaxTicks
  /\ line["ticker"] = Nothing
  /\ ticks' = ticks + 1
  /\ emit("ticker")
  /\ UNCHANGED <<receive, closed, pc, counted, out, jlmu, sig, exit, printed, history>>

(* Emit: a goroutine takes the mutex of jl, and writes.                    *)
Lock(p) ==
  /\ exit = Alive
  /\ line[p] # Nothing
  /\ jlmu = "free"
  /\ jlmu' = p
  /\ UNCHANGED <<receive, ticks, closed, pc, counted, out, line, sig, exit, printed, history>>

(* Mutant: Emit logs while it holds the mutex, and waits for itself.       *)
WrittenMutant(p) == jlmu = p /\ jlmu = "free" /\ UNCHANGED vars

(* The pipe has taken the line; the mutex is released.                     *)
Written(p) ==
  /\ exit = Alive
  /\ jlmu = p
  /\ printed' = Append(printed, line[p])
  /\ line' = [line EXCEPT ![p] = Nothing]
  /\ jlmu' = "free"
  /\ sig' = IF p = "signal" THEN "exit" ELSE sig
  /\ UNCHANGED <<receive, ticks, closed, pc, counted, out, exit, history>>

(* A signal.                                                               *)
Signal ==
  /\ exit = Alive
  /\ sig = "wait"
  /\ sig' = "close"
  /\ UNCHANGED <<receive, ticks, closed, pc, counted, out, line, jlmu, exit, printed, history>>

(* The signal goroutine: Close, emit, Exit(0).                             *)
Close ==
  /\ exit = Alive
  /\ sig = "close"
  /\ closed' = TRUE
  /\ sig' = "emit"
  /\ UNCHANGED <<receive, ticks, pc, counted, out, line, jlmu, exit, printed, history>>

EmitFinal ==
  /\ exit = Alive
  /\ sig = "emit"
  /\ line["signal"] = Nothing
  /\ emit("signal")
  /\ UNCHANGED <<receive, ticks, closed, pc, counted, out, jlmu, sig, exit, printed, history>>

(* The exit.                                                               *)
Exit ==
  /\ exit = Alive
  /\ sig = "exit"
  /\ exit' = 0
  /\ UNCHANGED <<receive, ticks, closed, pc, counted, out, line, jlmu, sig, printed, history>>

(* A frame arrives.                                                        *)
Arrive ==
  /\ exit = Alive
  /\ arrived < MaxArrive
  /\ \E f \in Frames : rx' = Append(rx, f)
  /\ arrived' = arrived + 1
  /\ UNCHANGED <<asdus, ticks, closed, pc, counted, out, line, jlmu, sig, exit, printed, history>>

Main == Read \/ Recvfrom \/ Again \/ Take \/ Count \/ HandOver \/ Log \/ Fatal

Next ==
  \/ Main
  \/ TakeOut
  \/ Ticker
  \/ \E p \in Printers : Lock(p) \/ Written(p)
  \/ Signal
  \/ Close
  \/ EmitFinal
  \/ Exit
  \/ Arrive

(* Goroutines run, and a free mutex is taken by someone who waits for it.  *)
Running ==
  /\ WF_vars(Main)
  /\ WF_vars(TakeOut)
  /\ \A p \in Printers : WF_vars(Lock(p))
  /\ WF_vars(Close \/ EmitFinal \/ Exit)

(* The reader of stdout keeps reading.                                     *)
Drained == \A p \in Printers : WF_vars(Written(p))

Spec == Init /\ [][Next]_vars /\ Running /\ Drained

(* The reader of stdout may stop reading.                                  *)
BlockedSpec == Init /\ [][Next]_vars /\ Running

-----------------------------------------------------------------------------

(* Where stdout has stats lines and sv events.                             *)
StatsLines == {i \in DOMAIN printed : printed[i][1] = "stats"}
SvLines == {i \in DOMAIN printed : printed[i][1] = "sv"}

(***************************************************************************)
(* A stats line is a snapshot: its four numbers are the totals after one   *)
(* and the same ASDU, never half of one (stats.emit and stats.count share  *)
(* a mutex).                                                               *)
(***************************************************************************)
StatsAreSnapshots == \A i \in StatsLines : printed[i][2] \in past

(***************************************************************************)
(* sv events are printed in the order of the ASDUs on the wire, each at    *)
(* most once, whatever the backlog drops.                                  *)
(***************************************************************************)
ReportedInOrder ==
  \E at \in [SvLines -> DOMAIN sampled] :
    /\ \A i, j \in SvLines : i < j => at[i] < at[j]
    /\ \A i \in SvLines : printed[i][2] = sampled[at[i]]

(***************************************************************************)
(* "The receive loop only counts and hands sampled ASDUs over; decoding    *)
(* and writing (a stdout pipe can block) happen on their own goroutine."   *)
(* (main.go:202): a frame that has arrived is read and counted, until the  *)
(* socket is closed.                                                       *)
(***************************************************************************)
ReceiveLoopRuns == rx # << >> ~> rx = << >> \/ closed

(***************************************************************************)
(* A signal ends the program.                                              *)
(***************************************************************************)
SignalExits == sig # "wait" ~> exit # Alive

(***************************************************************************)
(* "Exit codes: 0 on signal" (docs/sv.md).                                 *)
(***************************************************************************)
ExitCodeOnSignal == exit \in {Alive, 0}

-----------------------------------------------------------------------------
(* The instance TLC checks: one stream the fixture has, whose frames may   *)
(* carry a gap, a duplicate or two ASDUs.                                  *)

MCStreams == {"le"}
MCWraps == [s \in MCStreams |-> 6]
Asdu(n) == [stream |-> "le", cnt |-> n]
MCFrames == {<<Asdu(0), Asdu(1)>>, <<Asdu(4)>>}
=============================================================================
