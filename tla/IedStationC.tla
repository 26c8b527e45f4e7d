---------------------------- MODULE IedStationC ----------------------------
(***************************************************************************)
(* The ied-server with several of the C programs at once: controllers that *)
(* want the same object, a reporter while ied-client writes a member of    *)
(* its data set, two reporters that want the same block.                   *)
(***************************************************************************)
EXTENDS IedClientsC

iedVars == <<iedServer, trouble, wires, programs, reporting>>

Script(r) ==
  CASE r.kind = "controller" -> ControllerScript(r)
    [] r.kind = "reporter" -> ReporterScript(r)
    [] OTHER -> ClientScript

IedInit == IedServerInit /\ ProgramInit([p \in Procs |-> Script(cast[p])]) /\ ReporterInit

Of(kind) == {p \in Procs : cast[p].kind = kind}

(* IedConnection_connect; only ied-client prints a line.                   *)
Associate(p) ==
  LET up == ied = "up"
  IN  /\ phase[p] = "new"
      /\ joined' = [joined EXCEPT ![p] = IF up THEN "up" ELSE @]
      /\ phase' = [phase EXCEPT ![p] = IF up THEN "ready" ELSE "exit"]
      /\ code' = [code EXCEPT ![p] = IF up THEN @ ELSE 2]
      /\ lines' = [lines EXCEPT ![p] =
           IF p \in Of("client") THEN <<Line("associate", up, << >>)>> ELSE @]
      /\ UNCHANGED <<iedServer, trouble, asked, pdus, todo, device, late, failed, reporting>>

(* The end of main: "conclude" is said to be ok in any case.               *)
Conclusion(p) ==
  /\ phase[p] = "ready" /\ Head(todo[p]).how \in {"conclude", "close"}
  /\ Leave(p, IF failed[p] THEN 3 ELSE 0,
           IF Head(todo[p]).how = "close" THEN << >> ELSE <<Line("conclude", TRUE, << >>)>>)
  /\ UNCHANGED reporting

ProgramStep(p) ==
  \/ Associate(p) \/ Conclusion(p)
  \/ (Request(p) \/ Discard(p)) /\ UNCHANGED reporting
  \/ p \in Of("controller") /\ ControllerReturns(p) /\ UNCHANGED reporting
  \/ p \in Of("client") /\ ClientReturns(p) /\ UNCHANGED reporting
  \/ p \in Of("reporter") /\ ReporterReturns(p)
  \/ CallbackHead(p) \/ CallbackPost(p) \/ SemTaken(p) \/ EmitReport(p) \/ SemExpires(p)

IedServerStep ==
  /\ SendReport \/ \E p \in Procs : Perform(p)
  /\ UNCHANGED <<programs, reporting>>

IedEnvironment ==
  /\ StartServer \/ StopServer \/ \E p \in Procs : CutOff(p)
  /\ UNCHANGED <<programs, reporting>>

IedProgress == IedServerStep \/ \E p \in Procs : ProgramStep(p)

IedNext == IedProgress \/ IedEnvironment

IedSpec == IedInit /\ [][IedNext]_iedVars

-----------------------------------------------------------------------------

(* The line i of p is one of op that says ok.                              *)
SaidAt(p, op, i) == i \in DOMAIN lines[p] /\ lines[p][i].op = op /\ lines[p][i].ok
Said(p, op) == \E i \in DOMAIN lines[p] : SaidAt(p, op, i)
Over(p) == phase[p] = "exit" /\ code[p] # 2

(***************************************************************************)
(* Undisturbed, a controller that is alone with its object does what it is *)
(* asked to and reads ctlVal back, for each control model; of two that     *)
(* want the same object at least one operates it, and stVal is the ctlVal  *)
(* of one that said so.                                                    *)
(***************************************************************************)
ControllerObeyed ==
  trouble = 0 /\ ld = "InteropLD" =>
    \A p \in Of("controller") :
      LET rivals == {q \in Of("controller") : cast[q].on = cast[p].on}
          done == {q \in rivals : Said(q, "operate")}
      IN  (\A q \in rivals : phase[q] = "exit") /\ Over(p) =>
            /\ done # {}
            /\ \E q \in done : data[cast[p].on] = cast[q].arg
            /\ rivals = {p} => /\ \A i \in DOMAIN lines[p] : lines[p][i].ok
                               /\ \E i \in DOMAIN lines[p] :
                                    SaidAt(p, "read", i) /\ lines[p][i].value = <<cast[p].arg>>

(***************************************************************************)
(* "3 (ied-client) at least one operation emitted ok:false"                *)
(* (docs/contract.md:113), and no other time; with exit code 0 the data    *)
(* set was read with the value written before it.                          *)
(***************************************************************************)
ExitTells ==
  \A p \in Of("client") : Over(p) =>
    /\ code[p] = 3 <=> \E i \in DOMAIN lines[p] : ~lines[p][i].ok
    /\ code[p] = 0 =>
         \E i \in DOMAIN lines[p] : SaidAt(p, "read-dataset", i) /\ lines[p][i].value[2] = 5
    /\ trouble = 0 /\ ld # NoName => code[p] = 0

(***************************************************************************)
(* Undisturbed, a reporter whose write changes SPS1 (it has the block, and *)
(* was told the right initial value) gets a report, whoever else writes;   *)
(* and if the server sent it one report only, the line is that report.     *)
(***************************************************************************)
OwnReportShown ==
  \A p \in Of("reporter") :
    /\ trouble = 0 /\ Over(p) /\ Said(p, "enable-rcb") /\ Of("reporter") = {p} /\ ~cast[p].arg
         => Said(p, "receive-report")
    /\ \A i \in DOMAIN lines[p] : SaidAt(p, "receive-report", i) /\ Len(sent[p]) = 1 =>
         lines[p][i].value = <<sent[p][1].seq, sent[p][1].incl, sent[p][1].value>>

(***************************************************************************)
(* reportCallback does not use the semaphore main has destroyed: main      *)
(* destroys it after urcb01 was disabled, and reports sent before that are *)
(* handled before the answer.  Only a failed disable-rcb leaves the window *)
(* open.                                                                   *)
(***************************************************************************)
SemaphoreAlive == \A p \in Of("reporter") : misused[p] => ~Said(p, "disable-rcb")
=============================================================================
