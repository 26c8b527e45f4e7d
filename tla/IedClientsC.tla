---------------------------- MODULE IedClientsC ----------------------------
(***************************************************************************)
(* The libiec61850 (C) ied-controller, ied-client and ied-reporter.  They  *)
(* share a way of working: each runs a script of operations, blocked in    *)
(* libiec61850 until the connection thread has the answer, and prints the  *)
(* line of an operation when it returns.  Texts of errors are left out.    *)
(***************************************************************************)
EXTENDS IedServerC

VARIABLES
  phase,        (* "new", "ready", "wait", "sem", "emit" or "exit".        *)
  todo,         (* Operations still to do.                                 *)
  device,       (* The logical device the program addresses.               *)
  lines,        (* The lines printed: [op, ok, value].                     *)
  late,         (* Answers to come of calls that timed out.                *)
  failed,       (* main's failed (ied-client).                             *)
  code          (* The exit code, or -1.                                   *)

programs == <<phase, todo, device, lines, late, failed, code>>

(* An operation: the request, with the ctlNum of its ControlObjectClient.  *)
Op(how, on, val, num) == [how |-> how, on |-> on, val |-> val, num |-> num]
Plain(how, on) == Op(how, on, FALSE, 0)

(* Operations without a request that is answered.                          *)
Local == {"conclude", "close", "receive-report"}

Line(op, ok, value) == [op |-> op, ok |-> ok, value |-> value]

(* Each program has its script before it.                                  *)
ProgramInit(scripts) ==
  /\ phase = [p \in Procs |-> "new"]
  /\ todo = scripts
  /\ device = [p \in Procs |-> "InteropLD"]
  /\ lines = [p \in Procs |-> << >>]
  /\ late = [p \in Procs |-> 0]
  /\ failed = [p \in Procs |-> FALSE]
  /\ code = [p \in Procs |-> -1]

(* The call goes out.                                                      *)
Request(p) ==
  /\ phase[p] = "ready" /\ joined[p] = "up"
  /\ todo[p] # << >> /\ Head(todo[p]).how \notin Local
  /\ LET o == Head(todo[p])
     IN  asked' = [asked EXCEPT ![p] =
           Append(@, [how |-> o.how, on |-> o.on, val |-> o.val, num |-> o.num, ld |-> device[p]])]
  /\ phase' = [phase EXCEPT ![p] = "wait"]
  /\ UNCHANGED <<iedServer, trouble, joined, pdus, todo, device, lines, late, failed, code>>

(* A call returns: with the answer, ...                                    *)
Answered(p) ==
  /\ phase[p] = "wait" /\ late[p] = 0
  /\ pdus[p] # << >> /\ Head(pdus[p]).kind = "answer"
  /\ pdus' = [pdus EXCEPT ![p] = Tail(@)]
  /\ UNCHANGED <<late, trouble>>

(* ... because the answer is late, ...                                     *)
TimesOut(p) ==
  /\ phase[p] = "wait" /\ joined[p] = "up"
  /\ Trouble
  /\ late' = [late EXCEPT ![p] = @ + 1]
  /\ UNCHANGED pdus

(* ... or because there is no connection.                                  *)
Fails(p) ==
  /\ phase[p] \in {"ready", "wait"} /\ joined[p] = "lost"
  /\ todo[p] # << >> /\ Head(todo[p]).how \notin Local
  /\ UNCHANGED <<late, trouble, pdus>>

(* A late answer is dropped.                                               *)
Discard(p) ==
  /\ late[p] > 0 /\ pdus[p] # << >> /\ Head(pdus[p]).kind = "answer"
  /\ pdus' = [pdus EXCEPT ![p] = Tail(@)]
  /\ late' = [late EXCEPT ![p] = @ - 1]
  /\ UNCHANGED <<iedServer, trouble, joined, asked, phase, todo, device, lines, failed, code>>

(* IedConnection_close and IedConnection_destroy: main ends with exit code c. *)
Leave(p, c, printed) ==
  /\ joined' = [joined EXCEPT ![p] = "off"]
  /\ Released({p})
  /\ phase' = [phase EXCEPT ![p] = "exit"]
  /\ code' = [code EXCEPT ![p] = c]
  /\ lines' = [lines EXCEPT ![p] = @ \o printed]
  /\ UNCHANGED <<cast, lds, ied, data, trouble, sent, todo, device, late, failed>>

-----------------------------------------------------------------------------
(* The libiec61850 (C) ied-controller: reads ctlModel, selects where the   *)
(* control model wants it, operates, and reads stVal back.  on is the      *)
(* control object of --do, arg the value of --ctlval (0 or 1).             *)

(* DO_CONFIGS: what the program expects of each object.                    *)
expected_ctlmodel == [SPCSO1 |-> 1, SPCSO2 |-> 2, SPCSO3 |-> 4]

op_read_ctlmodel(r) == Plain("read-ctlmodel", r.on)
op_read_stval(r) == Plain("read", r.on)
op_operate(r) == Op("operate", r.on, r.arg, 0)
op_select(r) == Op("select", r.on, FALSE, 0)

(* Mutant: the operate uses a ControlObjectClient of its own.              *)
op_select_with_valueMutant(r) ==
  <<Op("select-with-value", r.on, r.arg, 1), Op("operate", r.on, r.arg, 0)>>

(* Both calls with one ControlObjectClient, and its ctlNum.                *)
op_select_with_value(r) ==
  <<Op("select-with-value", r.on, r.arg, 1), Op("operate", r.on, r.arg, 1)>>

ControllerScript(r) ==
  <<op_read_ctlmodel(r)>>
    \o (CASE expected_ctlmodel[r.on] = 1 -> <<op_operate(r)>>
          [] expected_ctlmodel[r.on] = 2 -> <<op_select(r), op_operate(r)>>
          [] OTHER -> op_select_with_value(r))
    \o <<op_read_stval(r), Plain("conclude", NoName)>>

(* What main does next: a failed select ends the sequence, a failed        *)
(* select-with-value skips the operate.                                    *)
ControllerRest(p, ok) ==
  LET rest == Tail(todo[p])
      how == Head(todo[p]).how
  IN  CASE ~ok /\ how = "select" -> <<Plain("conclude", NoName)>>
        [] ~ok /\ how = "select-with-value" -> Tail(rest)
        [] OTHER -> rest

ControllerReturns(p) ==
  LET o == Head(todo[p])
      end(a) ==
        /\ lines' = [lines EXCEPT ![p] = Append(@, Line(o.how, a.ok, a.value))]
        /\ todo' = [todo EXCEPT ![p] = ControllerRest(p, a.ok)]
  IN  /\ \/ Answered(p) /\ end(Head(pdus[p]))
         \/ (TimesOut(p) \/ Fails(p)) /\ end([ok |-> FALSE, value |-> << >>])
      /\ phase' = [phase EXCEPT ![p] = "ready"]
      /\ UNCHANGED <<iedServer, joined, asked, device, failed, code>>

-----------------------------------------------------------------------------
(* The libiec61850 (C) ied-client: a fixed sequence that goes on after     *)
(* failures; exit code 3 if an operation failed.                           *)

ClientScript ==
  <<Plain("get-server-directory", NoName), Plain("get-ld-directory", NoName), Plain("get-ln-directory", "GGIO1"),
    Plain("read", "SPS1"), Plain("read", "TotW"), Plain("read", "DPS1"), Plain("read", "TotVAh"),
    Plain("read", "ModCtl"), Plain("read", "ModD"), Op("write", "Mod", 5, 0),
    Plain("read-dataset", "dsInterop"), Plain("conclude", NoName)>>

(* Mutant: the first name is taken at once.                                *)
resolve_interop_ldMutant(names) == IF names = << >> THEN NoName ELSE names[1]

(* The bare name, else the first one that ends in it, else the first; NoName.  *)
resolve_interop_ld(names) ==
  LET prefixed == {i \in DOMAIN names : names[i] \in HasModel}
  IN  CASE "InteropLD" \in ToSet(names) -> "InteropLD"
        [] "InteropLD" \notin ToSet(names) /\ prefixed # {} ->
             names[CHOOSE i \in prefixed : \A j \in prefixed : i <= j]
        [] prefixed = {} /\ names # << >> -> names[1]
        [] OTHER -> NoName

(* Mutant: failed = !op(...).                                              *)
FailedMutant(p, ok) == ~ok

(* failed |= !op(...).                                                     *)
Failed(p, ok) == failed[p] \/ ~ok

(* op_get_server_directory prints a second line if it finds no device.     *)
Resolved(o, a) == o.how = "get-server-directory" /\ a.ok => resolve_interop_ld(a.value) # NoName

ClientLines(o, a) ==
  <<Line(o.how, a.ok, a.value)>> \o IF Resolved(o, a) THEN << >> ELSE <<Line(o.how, FALSE, << >>)>>

ClientReturns(p) ==
  LET o == Head(todo[p])
      end(a) ==
        /\ lines' = [lines EXCEPT ![p] = @ \o ClientLines(o, a)]
        /\ failed' = [failed EXCEPT ![p] = Failed(p, a.ok /\ Resolved(o, a))]
        /\ device' = [device EXCEPT ![p] =
             IF o.how = "get-server-directory" /\ a.ok /\ Resolved(o, a)
               THEN resolve_interop_ld(a.value) ELSE @]
  IN  /\ \/ Answered(p) /\ end(Head(pdus[p]))
         \/ (TimesOut(p) \/ Fails(p)) /\ end([ok |-> FALSE, value |-> << >>])
      /\ todo' = [todo EXCEPT ![p] = Tail(@)]
      /\ phase' = [phase EXCEPT ![p] = "ready"]
      /\ UNCHANGED <<iedServer, joined, asked, code>>

-----------------------------------------------------------------------------
(* The libiec61850 (C) ied-reporter: enables urcb01, writes SPS1.stVal,    *)
(* waits for the report on a semaphore and prints it.  reportCallback runs *)
(* on libiec61850's thread and shares ReportState with main without a      *)
(* lock.  arg is the value of --sps1-initial.                              *)

VARIABLES
  cb,           (* The report reportCallback is at, or NoReport.           *)
  st,           (* ReportState: [seq, incl, val].                          *)
  sem,          (* The semaphore's count.                                  *)
  alive,        (* sem_destroy was not called.                             *)
  head,         (* The seqNum of the line being printed.                   *)
  misused       (* History: a semaphore was posted after sem_destroy.      *)

reporting == <<cb, st, sem, alive, head, misused>>

NoReport == [kind |-> "none"]

(* val: the members received so far, by any report (val0_present and       *)
(* val1_present are never reset).                                          *)
ReporterInit ==
  /\ cb = [p \in Procs |-> NoReport]
  /\ st = [p \in Procs |-> [seq |-> 0, incl |-> {}, val |-> << >>]]
  /\ sem = [p \in Procs |-> 0]
  /\ alive = [p \in Procs |-> TRUE]
  /\ head = [p \in Procs |-> 0]
  /\ misused = [p \in Procs |-> FALSE]

(* Mutant: the write comes before RptEna.                                  *)
ReporterScriptMutant(r) ==
  <<Plain("get-rcb", "urcb01"), Op("write", "SPS1", ~r.arg, 0), Plain("enable-rcb", "urcb01"),
    Plain("receive-report", NoName), Plain("disable-rcb", "urcb01"), Plain("conclude", NoName)>>

ReporterScript(r) ==
  <<Plain("get-rcb", "urcb01"), Plain("enable-rcb", "urcb01"), Op("write", "SPS1", ~r.arg, 0),
    Plain("receive-report", NoName), Plain("disable-rcb", "urcb01"), Plain("conclude", NoName)>>

(* A call returns.  Without the block, or enabling it, main ends at once.  *)
Given(o, ok) == ok \/ o.how \notin {"get-rcb", "enable-rcb"}

(* Mutant: sem_destroy before the block is disabled.                       *)
SemDestroyedMutant(o, ok) == ~Given(o, ok) \/ o.how = "write"

SemDestroyed(o, ok) == ~Given(o, ok) \/ o.how = "disable-rcb"

ReporterReturns(p) ==
  LET o == Head(todo[p])
      end(a) ==
        /\ lines' = [lines EXCEPT ![p] = Append(@, Line(o.how, a.ok, a.value))]
        /\ alive' = [alive EXCEPT ![p] = @ /\ ~SemDestroyed(o, a.ok)]
        /\ todo' = [todo EXCEPT ![p] = IF Given(o, a.ok) THEN Tail(@) ELSE <<Plain("close", NoName)>>]
        /\ phase' = [phase EXCEPT ![p] = IF o.how = "write" THEN "sem" ELSE "ready"]
  IN  /\ \/ cb[p] = NoReport /\ Answered(p) /\ end(Head(pdus[p]))
         \/ (TimesOut(p) \/ Fails(p)) /\ end([ok |-> FALSE, value |-> << >>])
      /\ UNCHANGED <<iedServer, joined, asked, device, failed, code, cb, st, sem, head, misused>>

-----------------------------------------------------------------------------
(* reportCallback: rptID and seqNum, then the members and sem_post.        *)

(* Mutant: sem_post comes first.                                           *)
CallbackHeadMutant(p) ==
  /\ cb[p] = NoReport /\ pdus[p] # << >> /\ Head(pdus[p]).kind = "report"
  /\ cb' = [cb EXCEPT ![p] = Head(pdus[p])]
  /\ st' = [st EXCEPT ![p].seq = Head(pdus[p]).seq]
  /\ pdus' = [pdus EXCEPT ![p] = Tail(@)]
  /\ sem' = [sem EXCEPT ![p] = @ + 1]
  /\ UNCHANGED <<iedServer, trouble, joined, asked, programs, alive, head, misused>>

CallbackHead(p) ==
  /\ cb[p] = NoReport /\ pdus[p] # << >> /\ Head(pdus[p]).kind = "report"
  /\ cb' = [cb EXCEPT ![p] = Head(pdus[p])]
  /\ st' = [st EXCEPT ![p].seq = Head(pdus[p]).seq]
  /\ pdus' = [pdus EXCEPT ![p] = Tail(@)]
  /\ UNCHANGED <<iedServer, trouble, joined, asked, programs, sem, alive, head, misused>>

CallbackPost(p) ==
  /\ cb[p] # NoReport
  /\ st' = [st EXCEPT ![p].incl = cb[p].incl,
                      ![p].val = [n \in DOMAIN @ \cup cb[p].incl |->
                                   IF n \in cb[p].incl THEN cb[p].value[n] ELSE @[n]]]
  /\ sem' = [sem EXCEPT ![p] = @ + 1]
  /\ misused' = [misused EXCEPT ![p] = @ \/ ~alive[p]]
  /\ cb' = [cb EXCEPT ![p] = NoReport]
  /\ UNCHANGED <<iedServer, trouble, wires, programs, alive, head>>

-----------------------------------------------------------------------------
(* sem_timedwait and emit_report, which reads rptID and seqNum first.      *)

SemTaken(p) ==
  /\ phase[p] = "sem" /\ sem[p] > 0
  /\ sem' = [sem EXCEPT ![p] = @ - 1]
  /\ head' = [head EXCEPT ![p] = st[p].seq]
  /\ phase' = [phase EXCEPT ![p] = "emit"]
  /\ UNCHANGED <<iedServer, trouble, wires, todo, device, lines, late, failed, code, cb, st, alive, misused>>

EmitReport(p) ==
  /\ phase[p] = "emit"
  /\ lines' = [lines EXCEPT ![p] = Append(@, Line("receive-report", TRUE,
       <<head[p], st[p].incl, [n \in st[p].incl \cap DOMAIN st[p].val |-> st[p].val[n]]>>))]
  /\ phase' = [phase EXCEPT ![p] = "ready"]
  /\ todo' = [todo EXCEPT ![p] = Tail(@)]
  /\ UNCHANGED <<iedServer, trouble, wires, device, late, failed, code, reporting>>

(* A report is on its way: ten seconds are enough for it, unless something *)
(* interferes.                                                             *)
Coming(p) ==
  \/ cb[p] # NoReport
  \/ \E i \in DOMAIN pdus[p] : pdus[p][i].kind = "report"
  \/ rcb.owner = p /\ rcb.changed # {}

(* Mutant: sem_wait.                                                       *)
SemExpiresMutant(p) == FALSE

SemExpires(p) ==
  /\ phase[p] = "sem" /\ sem[p] = 0
  /\ IF Coming(p) THEN Trouble ELSE UNCHANGED trouble
  /\ lines' = [lines EXCEPT ![p] = Append(@, Line("receive-report", FALSE, << >>))]
  /\ phase' = [phase EXCEPT ![p] = "ready"]
  /\ todo' = [todo EXCEPT ![p] = Tail(@)]
  /\ UNCHANGED <<iedServer, wires, device, late, failed, code, reporting>>
=============================================================================
