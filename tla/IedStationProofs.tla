-------------------------- MODULE IedStationProofs --------------------------
(***************************************************************************)
(* Proofs about the C programs over ACSI (see IedStationC), for any cast   *)
(* of controllers, clients and reporters, any directory of the server and  *)
(* any number of disturbances: that a reporter's callback leaves the       *)
(* destroyed semaphore alone, and that the exit code of ied-client tells   *)
(* what its lines say.                                                     *)
(***************************************************************************)
EXTENDS IedStationC, MmsStationProofs, WellFoundedInduction

-----------------------------------------------------------------------------
(* The steps of the IED programs, as one of them sees them.                *)

IedTypes ==
  /\ cast \in Casts /\ lds \in Directories /\ trouble \in Nat
  /\ DOMAIN joined = Procs /\ DOMAIN asked = Procs /\ DOMAIN pdus = Procs /\ DOMAIN sent = Procs
  /\ DOMAIN phase = Procs /\ DOMAIN todo = Procs /\ DOMAIN device = Procs /\ DOMAIN lines = Procs
  /\ DOMAIN late = Procs /\ DOMAIN failed = Procs /\ DOMAIN code = Procs
  /\ DOMAIN cb = Procs /\ DOMAIN st = Procs /\ DOMAIN sem = Procs /\ DOMAIN alive = Procs
  /\ DOMAIN head = Procs /\ DOMAIN misused = Procs

SameWires(p) == joined'[p] = joined[p] /\ asked'[p] = asked[p] /\ pdus'[p] = pdus[p]
SameScript(p) == todo'[p] = todo[p] /\ device'[p] = device[p]
SameEnd(p) == failed'[p] = failed[p] /\ code'[p] = code[p]
SameLines(p) == lines'[p] = lines[p] /\ late'[p] = late[p]
SameReports(p) ==
  /\ cb'[p] = cb[p] /\ st'[p] = st[p] /\ sem'[p] = sem[p]
  /\ alive'[p] = alive[p] /\ head'[p] = head[p] /\ misused'[p] = misused[p]

(* p does not move.                                                        *)
Alone(p) ==
  /\ SameWires(p) /\ SameScript(p) /\ SameEnd(p) /\ SameLines(p) /\ SameReports(p)
  /\ phase'[p] = phase[p] /\ sent'[p] = sent[p]

SameIed == iedServer' = iedServer /\ trouble' = trouble

Associates(p) ==
  /\ phase[p] = "new"
  /\ joined'[p] = IF ied = "up" THEN "up" ELSE joined[p]
  /\ phase'[p] = IF ied = "up" THEN "ready" ELSE "exit"
  /\ code'[p] = IF ied = "up" THEN code[p] ELSE 2
  /\ lines'[p] = IF cast[p].kind = "client" THEN <<Line("associate", ied = "up", << >>)>> ELSE lines[p]
  /\ asked'[p] = asked[p] /\ pdus'[p] = pdus[p] /\ late'[p] = late[p] /\ failed'[p] = failed[p]
  /\ SameScript(p) /\ SameReports(p) /\ SameIed

Ended(p, printed) ==
  /\ joined'[p] = "off" /\ asked'[p] = << >> /\ pdus'[p] = << >>
  /\ phase'[p] = "exit" /\ code'[p] = (IF failed[p] THEN 3 ELSE 0)
  /\ lines'[p] = lines[p] \o printed
  /\ late'[p] = late[p] /\ failed'[p] = failed[p] /\ sent'[p] = sent[p]
  /\ SameScript(p) /\ SameReports(p)

Concludes(p) ==
  /\ phase[p] = "ready"
  /\ \/ Head(todo[p]).how = "close" /\ Ended(p, << >>)
     \/ Head(todo[p]).how = "conclude" /\ Ended(p, <<Line("conclude", TRUE, << >>)>>)
  /\ trouble' = trouble

(* The request for the operation p is at.                                  *)
Req(p) ==
  LET o == Head(todo[p])
  IN  [how |-> o.how, on |-> o.on, val |-> o.val, num |-> o.num, ld |-> device[p]]

Requests(p) ==
  /\ phase[p] = "ready" /\ joined[p] = "up"
  /\ todo[p] # << >> /\ Head(todo[p]).how \notin Local
  /\ asked'[p] = Append(asked[p], Req(p)) /\ phase'[p] = "wait"
  /\ joined'[p] = joined[p] /\ pdus'[p] = pdus[p]
  /\ SameScript(p) /\ SameEnd(p) /\ SameLines(p) /\ SameReports(p) /\ SameIed

Discards(p) ==
  /\ late[p] > 0 /\ pdus[p] # << >> /\ Head(pdus[p]).kind = "answer"
  /\ pdus'[p] = Tail(pdus[p]) /\ late'[p] = late[p] - 1
  /\ joined'[p] = joined[p] /\ asked'[p] = asked[p] /\ phase'[p] = phase[p] /\ lines'[p] = lines[p]
  /\ SameScript(p) /\ SameEnd(p) /\ SameReports(p) /\ SameIed

NoAnswer == [ok |-> FALSE, value |-> << >>]

(* The call of p returns with a.                                           *)
Returned(p, a) ==
  /\ \/ /\ phase[p] = "wait" /\ late[p] = 0
        /\ pdus[p] # << >> /\ Head(pdus[p]).kind = "answer" /\ a = Head(pdus[p])
        /\ pdus'[p] = Tail(pdus[p]) /\ late'[p] = late[p] /\ trouble' = trouble
     \/ /\ phase[p] = "wait" /\ joined[p] = "up" /\ a = NoAnswer
        /\ pdus'[p] = pdus[p] /\ late'[p] = late[p] + 1 /\ trouble' = trouble + 1
     \/ /\ phase[p] \in {"ready", "wait"} /\ joined[p] = "lost" /\ a = NoAnswer
        /\ todo[p] # << >> /\ Head(todo[p]).how \notin Local
        /\ pdus'[p] = pdus[p] /\ late'[p] = late[p] /\ trouble' = trouble
  /\ joined'[p] = joined[p] /\ asked'[p] = asked[p] /\ code'[p] = code[p]
  /\ iedServer' = iedServer

ControllerSees(p, a) ==
  /\ cast[p].kind = "controller"
  /\ lines'[p] = Append(lines[p], Line(Head(todo[p]).how, a.ok, a.value))
  /\ todo'[p] = ControllerRest(p, a.ok)
  /\ phase'[p] = "ready" /\ device'[p] = device[p] /\ failed'[p] = failed[p] /\ SameReports(p)

ClientSees(p, a) ==
  LET o == Head(todo[p])
  IN  /\ cast[p].kind = "client"
      /\ lines'[p] = lines[p] \o ClientLines(o, a)
      /\ failed'[p] = Failed(p, a.ok /\ Resolved(o, a))
      /\ device'[p] = IF o.how = "get-server-directory" /\ a.ok /\ Resolved(o, a)
                      THEN resolve_interop_ld(a.value) ELSE device[p]
      /\ todo'[p] = Tail(todo[p])
      /\ phase'[p] = "ready" /\ SameReports(p)

ReporterSees(p, a) ==
  LET o == Head(todo[p])
  IN  /\ cast[p].kind = "reporter"
      /\ (a.ok => cb[p] = NoReport)
      /\ lines'[p] = Append(lines[p], Line(o.how, a.ok, a.value))
      /\ alive'[p] = (alive[p] /\ ~SemDestroyed(o, a.ok))
      /\ todo'[p] = IF Given(o, a.ok) THEN Tail(todo[p]) ELSE <<Plain("close", NoName)>>
      /\ phase'[p] = IF o.how = "write" THEN "sem" ELSE "ready"
      /\ device'[p] = device[p] /\ failed'[p] = failed[p]
      /\ cb'[p] = cb[p] /\ st'[p] = st[p] /\ sem'[p] = sem[p]
      /\ head'[p] = head[p] /\ misused'[p] = misused[p]

Returns3(p) ==
  \E a : Returned(p, a) /\ (ControllerSees(p, a) \/ ClientSees(p, a) \/ ReporterSees(p, a))

(* reportCallback.                                                         *)
Begins(p) ==
  /\ cb[p] = NoReport /\ pdus[p] # << >> /\ Head(pdus[p]).kind = "report"
  /\ cb'[p] = Head(pdus[p]) /\ st'[p] = [st[p] EXCEPT !.seq = Head(pdus[p]).seq]
  /\ pdus'[p] = Tail(pdus[p]) /\ joined'[p] = joined[p] /\ asked'[p] = asked[p]
  /\ sem'[p] = sem[p] /\ alive'[p] = alive[p] /\ head'[p] = head[p] /\ misused'[p] = misused[p]
  /\ SameScript(p) /\ SameEnd(p) /\ SameLines(p) /\ phase'[p] = phase[p] /\ SameIed

Posted(p) ==
  [st[p] EXCEPT !.incl = cb[p].incl,
                !.val = [n \in DOMAIN @ \cup cb[p].incl |->
                           IF n \in cb[p].incl THEN cb[p].value[n] ELSE @[n]]]

Posts(p) ==
  /\ cb[p] # NoReport /\ cb'[p] = NoReport
  /\ st'[p] = Posted(p) /\ sem'[p] = sem[p] + 1 /\ misused'[p] = (misused[p] \/ ~alive[p])
  /\ alive'[p] = alive[p] /\ head'[p] = head[p]
  /\ SameWires(p) /\ SameScript(p) /\ SameEnd(p) /\ SameLines(p) /\ phase'[p] = phase[p] /\ SameIed

Takes(p) ==
  /\ phase[p] = "sem" /\ sem[p] > 0 /\ sem'[p] = sem[p] - 1
  /\ head'[p] = st[p].seq /\ phase'[p] = "emit"
  /\ cb'[p] = cb[p] /\ st'[p] = st[p] /\ alive'[p] = alive[p] /\ misused'[p] = misused[p]
  /\ SameWires(p) /\ SameScript(p) /\ SameEnd(p) /\ SameLines(p) /\ SameIed

ReportLine(p) ==
  Line("receive-report", TRUE,
       <<head[p], st[p].incl, [n \in st[p].incl \cap DOMAIN st[p].val |-> st[p].val[n]]>>)

Emits(p) ==
  /\ phase[p] = "emit" /\ phase'[p] = "ready" /\ todo'[p] = Tail(todo[p])
  /\ lines'[p] = Append(lines[p], ReportLine(p))
  /\ device'[p] = device[p] /\ late'[p] = late[p]
  /\ SameWires(p) /\ SameEnd(p) /\ SameReports(p) /\ SameIed

Expires(p) ==
  /\ phase[p] = "sem" /\ sem[p] = 0 /\ phase'[p] = "ready" /\ todo'[p] = Tail(todo[p])
  /\ lines'[p] = Append(lines[p], Line("receive-report", FALSE, << >>))
  /\ trouble' = (IF Coming(p) THEN trouble + 1 ELSE trouble)
  /\ device'[p] = device[p] /\ late'[p] = late[p]
  /\ SameWires(p) /\ SameEnd(p) /\ SameReports(p) /\ iedServer' = iedServer

(* The association of p is lost.                                           *)
Loses(p) ==
  /\ joined[p] = "up" /\ joined'[p] = "lost" /\ asked'[p] = << >> /\ pdus'[p] = << >>
  /\ SameScript(p) /\ SameEnd(p) /\ SameLines(p) /\ SameReports(p)
  /\ phase'[p] = phase[p] /\ sent'[p] = sent[p] /\ trouble' = trouble + 1

-----------------------------------------------------------------------------

OwnStep(p) ==
  \/ Associates(p) \/ Concludes(p) \/ Requests(p) \/ Discards(p) \/ Returns3(p)
  \/ Begins(p) \/ Posts(p) \/ Takes(p) \/ Emits(p) \/ Expires(p)

LEMMA AssociateStep ==
  ASSUME IedTypes, NEW q \in Procs, Associate(q)
  PROVE  Associates(q) /\ \A p \in Procs : p # q => Alone(p)
<1>1. SameIed /\ Associates(q)
  BY DEF IedTypes, Associate, Associates, SameScript, SameReports, SameIed, reporting, iedServer, Of
<1>2. ASSUME NEW p \in Procs, p # q PROVE Alone(p)
  BY <1>2 DEF IedTypes, Associate, Alone, SameWires, SameScript, SameEnd, SameLines, SameReports,
              reporting, iedServer
<1> QED BY <1>1, <1>2

LEMMA ConcludeStep ==
  ASSUME IedTypes, NEW q \in Procs, Conclusion(q)
  PROVE  Concludes(q) /\ \A p \in Procs : p # q => Alone(p)
<1>1. Concludes(q)
  BY DEF IedTypes, Conclusion, Leave, Released, Concludes, Ended, SameScript, SameReports, reporting
<1>2. ASSUME NEW p \in Procs, p # q PROVE Alone(p)
  BY <1>2 DEF IedTypes, Conclusion, Leave, Released, Alone, SameWires, SameScript, SameEnd, SameLines,
              SameReports, reporting
<1> QED BY <1>1, <1>2

LEMMA RequestStep ==
  ASSUME IedTypes, NEW q \in Procs, Request(q), UNCHANGED reporting
  PROVE  Requests(q) /\ \A p \in Procs : p # q => Alone(p)
<1>1. Requests(q)
  BY DEF IedTypes, Request, Requests, Req, SameScript, SameEnd, SameLines, SameReports, SameIed,
         reporting, iedServer
<1>2. ASSUME NEW p \in Procs, p # q PROVE Alone(p)
  BY <1>2 DEF IedTypes, Request, Alone, SameWires, SameScript, SameEnd, SameLines, SameReports,
              reporting, iedServer
<1> QED BY <1>1, <1>2

LEMMA DiscardStep ==
  ASSUME IedTypes, NEW q \in Procs, Discard(q), UNCHANGED reporting
  PROVE  Discards(q) /\ \A p \in Procs : p # q => Alone(p)
<1>1. Discards(q)
  BY DEF IedTypes, Discard, Discards, SameScript, SameEnd, SameReports, SameIed, reporting, iedServer
<1>2. ASSUME NEW p \in Procs, p # q PROVE Alone(p)
  BY <1>2 DEF IedTypes, Discard, Alone, SameWires, SameScript, SameEnd, SameLines, SameReports,
              reporting, iedServer
<1> QED BY <1>1, <1>2

LEMMA CallbackStep ==
  ASSUME IedTypes, NEW q \in Procs, CallbackHead(q) \/ CallbackPost(q)
  PROVE  (Begins(q) \/ Posts(q)) /\ \A p \in Procs : p # q => Alone(p)
<1>1. CASE CallbackHead(q)
  <2>1. Begins(q)
    BY <1>1 DEF IedTypes, CallbackHead, Begins, SameScript, SameEnd, SameLines, SameIed, programs, iedServer
  <2>2. ASSUME NEW p \in Procs, p # q PROVE Alone(p)
    BY <1>1, <2>2 DEF IedTypes, CallbackHead, Alone, SameWires, SameScript, SameEnd, SameLines, SameReports,
                programs, iedServer
  <2> QED BY <2>1, <2>2
<1>2. CASE CallbackPost(q)
  <2>1. Posts(q)
    BY <1>2 DEF IedTypes, CallbackPost, Posts, Posted, SameScript, SameEnd, SameLines, SameIed, SameWires,
                programs, wires, iedServer
  <2>2. ASSUME NEW p \in Procs, p # q PROVE Alone(p)
    BY <1>2, <2>2 DEF IedTypes, CallbackPost, Alone, SameWires, SameScript, SameEnd, SameLines, SameReports,
                programs, wires, iedServer
  <2> QED BY <2>1, <2>2
<1> QED BY <1>1, <1>2

LEMMA WaitStep ==
  ASSUME IedTypes, NEW q \in Procs, SemTaken(q) \/ EmitReport(q) \/ SemExpires(q)
  PROVE  (Takes(q) \/ Emits(q) \/ Expires(q)) /\ \A p \in Procs : p # q => Alone(p)
<1>1. CASE SemTaken(q)
  <2>1. Takes(q)
    BY <1>1 DEF IedTypes, SemTaken, Takes, SameScript, SameEnd, SameLines, SameIed, SameWires, wires, iedServer
  <2>2. ASSUME NEW p \in Procs, p # q PROVE Alone(p)
    BY <1>1, <2>2 DEF IedTypes, SemTaken, Alone, SameWires, SameScript, SameEnd, SameLines, SameReports,
                wires, iedServer
  <2> QED BY <2>1, <2>2
<1>2. CASE EmitReport(q)
  <2>1. Emits(q)
    BY <1>2 DEF IedTypes, EmitReport, Emits, ReportLine, SameEnd, SameReports, SameIed, SameWires, wires,
                iedServer, reporting
  <2>2. ASSUME NEW p \in Procs, p # q PROVE Alone(p)
    BY <1>2, <2>2 DEF IedTypes, EmitReport, Alone, SameWires, SameScript, SameEnd, SameLines, SameReports,
                wires, iedServer, reporting
  <2> QED BY <2>1, <2>2
<1>3. CASE SemExpires(q)
  <2>1. Expires(q)
    BY <1>3 DEF IedTypes, SemExpires, Expires, Trouble, SameEnd, SameReports, SameWires, wires, iedServer,
                reporting
  <2>2. ASSUME NEW p \in Procs, p # q PROVE Alone(p)
    BY <1>3, <2>2 DEF IedTypes, SemExpires, Alone, SameWires, SameScript, SameEnd, SameLines, SameReports,
                wires, iedServer, reporting
  <2> QED BY <2>1, <2>2
<1> QED BY <1>1, <1>2, <1>3

LEMMA IedControllerStep ==
  ASSUME IedTypes, NEW q \in Procs, q \in Of("controller"), ControllerReturns(q), UNCHANGED reporting
  PROVE  Returns3(q) /\ \A p \in Procs : p # q => Alone(p)
<1> DEFINE o == Head(todo[q])
           end(a) ==
             /\ lines' = [lines EXCEPT ![q] = Append(@, Line(o.how, a.ok, a.value))]
             /\ todo' = [todo EXCEPT ![q] = ControllerRest(q, a.ok)]
<1>0. \/ Answered(q) /\ end(Head(pdus[q]))
      \/ (TimesOut(q) \/ Fails(q)) /\ end(NoAnswer)
  BY DEF ControllerReturns, NoAnswer
<1>1. \E a : Returned(q, a) /\ ControllerSees(q, a)
  <2>1. CASE Answered(q) /\ end(Head(pdus[q]))
    <3>1. Returned(q, Head(pdus[q]))
      BY <2>1 DEF IedTypes, ControllerReturns, Answered, Returned, iedServer
    <3>2. ControllerSees(q, Head(pdus[q]))
      BY <2>1 DEF IedTypes, Of, ControllerReturns, ControllerSees, SameReports, reporting, iedServer
    <3> QED BY <3>1, <3>2
  <2>2. CASE (TimesOut(q) \/ Fails(q)) /\ end(NoAnswer)
    <3>1. Returned(q, NoAnswer)
      BY <2>2 DEF IedTypes, ControllerReturns, TimesOut, Fails, Trouble, Returned, iedServer
    <3>2. ControllerSees(q, NoAnswer)
      BY <2>2 DEF IedTypes, Of, ControllerReturns, ControllerSees, NoAnswer, SameReports, reporting, iedServer
    <3> QED BY <3>1, <3>2
  <2> QED BY <1>0, <2>1, <2>2
<1>2. ASSUME NEW p \in Procs, p # q PROVE Alone(p)
  BY <1>2 DEF IedTypes, ControllerReturns, Answered, TimesOut, Fails, Alone, SameWires, SameScript, SameEnd,
              SameLines, SameReports, reporting, iedServer
<1> QED BY <1>1, <1>2 DEF Returns3

LEMMA IedClientStep ==
  ASSUME IedTypes, NEW q \in Procs, q \in Of("client"), ClientReturns(q), UNCHANGED reporting
  PROVE  Returns3(q) /\ \A p \in Procs : p # q => Alone(p)
<1> DEFINE o == Head(todo[q])
           end(a) ==
             /\ lines' = [lines EXCEPT ![q] = @ \o ClientLines(o, a)]
             /\ failed' = [failed EXCEPT ![q] = Failed(q, a.ok /\ Resolved(o, a))]
             /\ device' = [device EXCEPT ![q] =
                  IF o.how = "get-server-directory" /\ a.ok /\ Resolved(o, a)
                    THEN resolve_interop_ld(a.value) ELSE @]
<1>0. \/ Answered(q) /\ end(Head(pdus[q]))
      \/ (TimesOut(q) \/ Fails(q)) /\ end(NoAnswer)
  BY DEF ClientReturns, NoAnswer
<1>1. \E a : Returned(q, a) /\ ClientSees(q, a)
  <2>1. CASE Answered(q) /\ end(Head(pdus[q]))
    <3>1. Returned(q, Head(pdus[q]))
      BY <2>1 DEF IedTypes, ClientReturns, Answered, Returned, iedServer
    <3>2. ClientSees(q, Head(pdus[q]))
      BY <2>1 DEF IedTypes, Of, ClientReturns, ClientSees, SameReports, reporting, iedServer
    <3> QED BY <3>1, <3>2
  <2>2. CASE (TimesOut(q) \/ Fails(q)) /\ end(NoAnswer)
    <3>1. Returned(q, NoAnswer)
      BY <2>2 DEF IedTypes, ClientReturns, TimesOut, Fails, Trouble, Returned, iedServer
    <3>2. ClientSees(q, NoAnswer)
      BY <2>2 DEF IedTypes, Of, ClientReturns, ClientSees, NoAnswer, SameReports, reporting, iedServer
    <3> QED BY <3>1, <3>2
  <2> QED BY <1>0, <2>1, <2>2
<1>2. ASSUME NEW p \in Procs, p # q PROVE Alone(p)
  BY <1>2 DEF IedTypes, ClientReturns, Answered, TimesOut, Fails, Alone, SameWires, SameScript, SameEnd,
              SameLines, SameReports, reporting, iedServer
<1> QED BY <1>1, <1>2 DEF Returns3

LEMMA IedReporterStep ==
  ASSUME IedTypes, NEW q \in Procs, q \in Of("reporter"), ReporterReturns(q)
  PROVE  Returns3(q) /\ \A p \in Procs : p # q => Alone(p)
<1> DEFINE o == Head(todo[q])
           end(a) ==
             /\ lines' = [lines EXCEPT ![q] = Append(@, Line(o.how, a.ok, a.value))]
             /\ alive' = [alive EXCEPT ![q] = @ /\ ~SemDestroyed(o, a.ok)]
             /\ todo' = [todo EXCEPT ![q] = IF Given(o, a.ok) THEN Tail(@) ELSE <<Plain("close", NoName)>>]
             /\ phase' = [phase EXCEPT ![q] = IF o.how = "write" THEN "sem" ELSE "ready"]
<1>0. \/ cb[q] = NoReport /\ Answered(q) /\ end(Head(pdus[q]))
      \/ (TimesOut(q) \/ Fails(q)) /\ end(NoAnswer)
  BY DEF ReporterReturns, NoAnswer
<1>1. \E a : Returned(q, a) /\ ReporterSees(q, a)
  <2>1. CASE cb[q] = NoReport /\ Answered(q) /\ end(Head(pdus[q]))
    <3>1. Returned(q, Head(pdus[q]))
      BY <2>1 DEF IedTypes, ReporterReturns, Answered, Returned, iedServer
    <3>2. ReporterSees(q, Head(pdus[q]))
      BY <2>1 DEF IedTypes, Of, ReporterReturns, ReporterSees, iedServer
    <3> QED BY <3>1, <3>2
  <2>2. CASE (TimesOut(q) \/ Fails(q)) /\ end(NoAnswer)
    <3>1. Returned(q, NoAnswer)
      BY <2>2 DEF IedTypes, ReporterReturns, TimesOut, Fails, Trouble, Returned, iedServer
    <3>2. ReporterSees(q, NoAnswer)
      BY <2>2 DEF IedTypes, Of, ReporterReturns, ReporterSees, NoAnswer, iedServer
    <3> QED BY <3>1, <3>2
  <2> QED BY <1>0, <2>1, <2>2
<1>2. ASSUME NEW p \in Procs, p # q PROVE Alone(p)
  <2>1. SameWires(p) /\ SameEnd(p) /\ sent'[p] = sent[p] /\ late'[p] = late[p]
    <3>1. Answered(q) \/ TimesOut(q) \/ Fails(q)
      BY <1>0
    <3>2. pdus'[p] = pdus[p] /\ late'[p] = late[p]
      BY <1>2, <3>1 DEF IedTypes, Answered, TimesOut, Fails
    <3> QED BY <3>2 DEF ReporterReturns, SameWires, SameEnd, iedServer
  <2>2. \E a : end(a)
    BY <1>0
  <2>3. todo'[p] = todo[p] /\ lines'[p] = lines[p] /\ alive'[p] = alive[p] /\ phase'[p] = phase[p]
    BY <1>2, <2>2 DEF IedTypes
  <2>4. SameScript(p) /\ SameReports(p)
    BY <2>3 DEF ReporterReturns, SameScript, SameReports
  <2> QED BY <2>1, <2>3, <2>4 DEF Alone, SameLines
<1> QED BY <1>1, <1>2 DEF Returns3

(***************************************************************************)
(* A step of a program is one of its own, and leaves the others alone.     *)
(***************************************************************************)
LEMMA ProgramSteps ==
  ASSUME IedTypes, NEW q \in Procs, ProgramStep(q)
  PROVE  OwnStep(q) /\ \A p \in Procs : p # q => Alone(p)
<1>1. CASE Associate(q) \/ Conclusion(q)
  BY <1>1, AssociateStep, ConcludeStep DEF OwnStep
<1>2. CASE (Request(q) \/ Discard(q)) /\ UNCHANGED reporting
  BY <1>2, RequestStep, DiscardStep DEF OwnStep
<1>3. CASE CallbackHead(q) \/ CallbackPost(q)
  BY <1>3, CallbackStep DEF OwnStep
<1>4. CASE SemTaken(q) \/ EmitReport(q) \/ SemExpires(q)
  BY <1>4, WaitStep DEF OwnStep
<1>5. CASE q \in Of("controller") /\ ControllerReturns(q) /\ UNCHANGED reporting
  BY <1>5, IedControllerStep DEF OwnStep
<1>6. CASE q \in Of("client") /\ ClientReturns(q) /\ UNCHANGED reporting
  BY <1>6, IedClientStep DEF OwnStep
<1>7. CASE q \in Of("reporter") /\ ReporterReturns(q)
  BY <1>7, IedReporterStep DEF OwnStep
<1> QED BY <1>1, <1>2, <1>3, <1>4, <1>5, <1>6, <1>7 DEF ProgramStep

-----------------------------------------------------------------------------
(* The server and what interferes, as a program sees them.                 *)

Done1(p) ==
  LET q == Head(asked[p])
  IN  [kind |-> "answer", ok |-> Grants(p, q), value |-> IF Grants(p, q) THEN Returns(q) ELSE << >>]

Performs(p) ==
  /\ ied = "up" /\ joined[p] = "up" /\ asked[p] # << >>
  /\ asked'[p] = Tail(asked[p]) /\ pdus'[p] = Append(pdus[p], Done1(p))
  /\ rcb' = (IF Grants(p, Head(asked[p])) THEN RcbAfter(p, Head(asked[p])) ELSE rcb)
  /\ sbo' = (IF Grants(p, Head(asked[p])) THEN SboAfter(p, Head(asked[p])) ELSE sbo)
  /\ data' = (IF Grants(p, Head(asked[p])) THEN DataAfter(Head(asked[p])) ELSE data)
  /\ ied' = ied /\ trouble' = trouble
  /\ joined'[p] = joined[p] /\ phase'[p] = phase[p] /\ sent'[p] = sent[p]
  /\ SameScript(p) /\ SameEnd(p) /\ SameLines(p) /\ SameReports(p)

Changes ==
  [kind |-> "report", seq |-> rcb.seq, incl |-> rcb.changed, value |-> [n \in rcb.changed |-> data[n]]]

Notified(p) ==
  /\ rcb.owner = p /\ rcb.changed # {}
  /\ pdus'[p] = Append(pdus[p], Changes) /\ sent'[p] = Append(sent[p], Changes)
  /\ rcb' = [rcb EXCEPT !.seq = @ + 1, !.changed = {}] /\ trouble' = trouble
  /\ UNCHANGED <<ied, data, sbo>>
  /\ joined'[p] = joined[p] /\ asked'[p] = asked[p] /\ phase'[p] = phase[p]
  /\ SameScript(p) /\ SameEnd(p) /\ SameLines(p) /\ SameReports(p)

(* The block belongs to a program with an association.                     *)
OwnerInv ==
  /\ rcb = [owner |-> rcb.owner, seq |-> rcb.seq, changed |-> rcb.changed]
  /\ rcb.owner = Nobody \/ (rcb.owner \in Procs /\ joined[rcb.owner] = "up")

LEMMA PerformStep ==
  ASSUME IedTypes, NEW q \in Procs, Perform(q), UNCHANGED <<programs, reporting>>
  PROVE  Performs(q) /\ \A p \in Procs : p # q => Alone(p)
<1>1. Performs(q)
  BY DEF IedTypes, Perform, Performs, Done1, SameScript, SameEnd, SameLines, SameReports, programs, reporting
<1>2. ASSUME NEW p \in Procs, p # q PROVE Alone(p)
  BY <1>2 DEF IedTypes, Perform, Alone, SameWires, SameScript, SameEnd, SameLines, SameReports,
              programs, reporting
<1> QED BY <1>1, <1>2

LEMMA SendStep ==
  ASSUME IedTypes, OwnerInv, SendReport, UNCHANGED <<programs, reporting>>
  PROVE  rcb.owner \in Procs /\ Notified(rcb.owner) /\ \A p \in Procs : p # rcb.owner => Alone(p)
<1>0. rcb.owner \in Procs
  BY DEF SendReport, OwnerInv
<1>1. Notified(rcb.owner)
  BY <1>0 DEF IedTypes, SendReport, Notified, Changes, SameScript, SameEnd, SameLines, SameReports, programs, reporting
<1>2. ASSUME NEW p \in Procs, p # rcb.owner PROVE Alone(p)
  BY <1>0, <1>2 DEF IedTypes, SendReport, Alone, SameWires, SameScript, SameEnd, SameLines, SameReports,
              programs, reporting
<1> QED BY <1>0, <1>1, <1>2

LEMMA BreakStep ==
  ASSUME IedTypes, NEW ps, Break(ps), UNCHANGED <<programs, reporting, cast, sent>>, NEW p \in Procs,
         p \in ps => joined[p] = "up"
  PROVE  IF p \in ps THEN Loses(p) ELSE Alone(p)
<1>1. CASE p \in ps
  BY <1>1 DEF IedTypes, Break, Released, Trouble, Loses, SameScript, SameEnd, SameLines, SameReports,
              programs, reporting
<1>2. CASE p \notin ps
  BY <1>2 DEF IedTypes, Break, Released, Alone, SameWires, SameScript, SameEnd, SameLines, SameReports,
              programs, reporting
<1> QED BY <1>1, <1>2

LEMMA StartStep ==
  ASSUME StartServer, UNCHANGED <<programs, reporting>>, NEW p \in Procs
  PROVE  Alone(p)
BY DEF StartServer, Alone, SameWires, SameScript, SameEnd, SameLines, SameReports, programs, reporting, wires

(***************************************************************************)
(* What a step can be for a program.                                       *)
(***************************************************************************)
LEMMA IedMoves ==
  ASSUME IedTypes, OwnerInv, [IedNext]_iedVars, NEW p \in Procs
  PROVE  Alone(p) \/ OwnStep(p) \/ Performs(p) \/ Notified(p) \/ Loses(p)
<1>1. CASE \E q \in Procs : ProgramStep(q)
  BY <1>1, ProgramSteps
<1>2. CASE IedServerStep
  BY <1>2, PerformStep, SendStep DEF IedServerStep
<1>3. CASE IedEnvironment
  <2>1. CASE StartServer
    BY <1>3, <2>1, StartStep DEF IedEnvironment
  <2>2. CASE StopServer
    <3> DEFINE ps == {q \in Procs : joined[q] = "up"}
    <3>1. Break(ps) /\ UNCHANGED <<programs, reporting, cast, sent>> /\ (p \in ps => joined[p] = "up")
      BY <1>3, <2>2 DEF IedEnvironment, StopServer
    <3> HIDE DEF ps
    <3> QED BY <3>1, BreakStep
  <2>3. CASE \E q \in Procs : CutOff(q)
    <3>1. PICK q \in Procs : CutOff(q)
      BY <2>3
    <3>2. Break({q}) /\ UNCHANGED <<programs, reporting, cast, sent>> /\ (p \in {q} => joined[p] = "up")
      BY <1>3, <3>1 DEF IedEnvironment, CutOff
    <3> QED BY <3>2, BreakStep
  <2> QED BY <1>3, <2>1, <2>2, <2>3 DEF IedEnvironment
<1>4. CASE UNCHANGED iedVars
  BY <1>4 DEF iedVars, iedServer, wires, programs, reporting, Alone, SameWires, SameScript, SameEnd,
              SameLines, SameReports
<1> QED BY <1>1, <1>2, <1>3, <1>4 DEF IedNext, IedProgress

LEMMA IedTypesInit == ASSUME IedInit PROVE IedTypes /\ OwnerInv
<1>1. cast \in Casts /\ lds \in Directories /\ trouble \in Nat
  BY DEF IedInit, IedServerInit
<1>2. DOMAIN joined = Procs /\ DOMAIN asked = Procs /\ DOMAIN pdus = Procs /\ DOMAIN sent = Procs
  BY DEF IedInit, IedServerInit
<1>3. /\ DOMAIN phase = Procs /\ DOMAIN todo = Procs /\ DOMAIN device = Procs /\ DOMAIN lines = Procs
      /\ DOMAIN late = Procs /\ DOMAIN failed = Procs /\ DOMAIN code = Procs
  BY DEF IedInit, ProgramInit
<1>4. /\ DOMAIN cb = Procs /\ DOMAIN st = Procs /\ DOMAIN sem = Procs /\ DOMAIN alive = Procs
      /\ DOMAIN head = Procs /\ DOMAIN misused = Procs
  BY DEF IedInit, ReporterInit
<1>5. OwnerInv
  BY DEF IedInit, IedServerInit, OwnerInv
<1> QED BY <1>1, <1>2, <1>3, <1>4, <1>5 DEF IedTypes

LEMMA CastKept ==
  ASSUME [IedNext]_iedVars
  PROVE  cast' = cast /\ lds' = lds /\ Procs' = Procs
<1>1. cast' = cast /\ lds' = lds
  <2>1. CASE \E q \in Procs : ProgramStep(q)
    <3>1. PICK q \in Procs : ProgramStep(q)
      BY <2>1
    <3>2. CASE Associate(q) \/ Conclusion(q)
      BY <3>2 DEF Associate, Conclusion, Leave, iedServer
    <3>3. CASE Request(q) \/ Discard(q)
      BY <3>3 DEF Request, Discard, iedServer
    <3>4. CASE CallbackHead(q) \/ CallbackPost(q) \/ SemTaken(q) \/ EmitReport(q) \/ SemExpires(q)
      BY <3>4 DEF CallbackHead, CallbackPost, SemTaken, EmitReport, SemExpires, iedServer
    <3>5. CASE ControllerReturns(q) \/ ClientReturns(q) \/ ReporterReturns(q)
      BY <3>5 DEF ControllerReturns, ClientReturns, ReporterReturns, iedServer
    <3> QED BY <3>1, <3>2, <3>3, <3>4, <3>5 DEF ProgramStep
  <2>2. CASE IedServerStep
    BY <2>2 DEF IedServerStep, SendReport, Perform
  <2>3. CASE IedEnvironment
    BY <2>3 DEF IedEnvironment, StartServer, StopServer, CutOff
  <2>4. CASE UNCHANGED iedVars
    BY <2>4 DEF iedVars, iedServer
  <2> QED BY <2>1, <2>2, <2>3, <2>4 DEF IedNext, IedProgress
<1> QED BY <1>1 DEF Procs

LEMMA IedTypesStep ==
  ASSUME IedTypes, [IedNext]_iedVars
  PROVE  IedTypes'
<1> DEFINE T1 == DOMAIN joined = Procs /\ DOMAIN asked = Procs /\ DOMAIN pdus = Procs /\ DOMAIN sent = Procs
           T2 == /\ DOMAIN phase = Procs /\ DOMAIN todo = Procs /\ DOMAIN device = Procs
                 /\ DOMAIN lines = Procs
                 /\ DOMAIN late = Procs /\ DOMAIN failed = Procs /\ DOMAIN code = Procs
           T3 == /\ DOMAIN cb = Procs /\ DOMAIN st = Procs /\ DOMAIN sem = Procs /\ DOMAIN alive = Procs
                 /\ DOMAIN head = Procs /\ DOMAIN misused = Procs
<1>1. T1 /\ T2 /\ T3 /\ trouble \in Nat
  BY DEF IedTypes
<1>2. cast' = cast /\ lds' = lds /\ Procs' = Procs
  BY CastKept
<1>3. CASE \E q \in Procs : ProgramStep(q)
  <2>1. PICK q \in Procs : ProgramStep(q)
    BY <1>3
  <2>2. ASSUME Associate(q)
        PROVE  T1' /\ T2' /\ T3' /\ trouble' \in Nat
    BY <1>1, <1>2, <2>2 DEF Associate, iedServer, reporting
  <2>3. ASSUME Conclusion(q)
        PROVE  T1' /\ T2' /\ T3' /\ trouble' \in Nat
    BY <1>1, <1>2, <2>3 DEF Conclusion, Leave, Released, reporting
  <2>4. ASSUME (Request(q) \/ Discard(q)) /\ UNCHANGED reporting
        PROVE  T1' /\ T2' /\ T3' /\ trouble' \in Nat
    BY <1>1, <1>2, <2>4 DEF Request, Discard, iedServer, reporting
  <2>5. ASSUME CallbackHead(q) \/ CallbackPost(q)
        PROVE  T1' /\ T2' /\ T3' /\ trouble' \in Nat
    BY <1>1, <1>2, <2>5 DEF CallbackHead, CallbackPost, iedServer, programs, wires
  <2>6. ASSUME SemTaken(q) \/ EmitReport(q)
        PROVE  T1' /\ T2' /\ T3' /\ trouble' \in Nat
    BY <1>1, <1>2, <2>6 DEF SemTaken, EmitReport, iedServer, reporting, wires
  <2>7. ASSUME SemExpires(q)
        PROVE  T1' /\ T2' /\ T3' /\ trouble' \in Nat
    BY <1>1, <1>2, <2>7 DEF SemExpires, Trouble, iedServer, reporting, wires
  <2>8. ASSUME ControllerReturns(q) /\ UNCHANGED reporting
        PROVE  T1' /\ T2' /\ T3' /\ trouble' \in Nat
    <3>1. Answered(q) \/ TimesOut(q) \/ Fails(q)
      BY <2>8 DEF ControllerReturns
    <3>2. DOMAIN pdus' = Procs /\ DOMAIN late' = Procs /\ trouble' \in Nat
      BY <1>1, <1>2, <3>1 DEF Answered, TimesOut, Fails, Trouble
    <3>3. DOMAIN lines' = Procs /\ DOMAIN todo' = Procs /\ DOMAIN phase' = Procs /\ T3'
      BY <1>1, <1>2, <2>8 DEF ControllerReturns, reporting
    <3>4. UNCHANGED <<joined, asked, sent, device, failed, code>>
      BY <2>8 DEF ControllerReturns, iedServer
    <3> QED BY <1>1, <1>2, <3>2, <3>3, <3>4
  <2>9. ASSUME ClientReturns(q) /\ UNCHANGED reporting
        PROVE  T1' /\ T2' /\ T3' /\ trouble' \in Nat
    BY <1>1, <1>2, <2>9 DEF ClientReturns, Answered, TimesOut, Fails, Trouble, iedServer, reporting
  <2>10. ASSUME ReporterReturns(q)
        PROVE  T1' /\ T2' /\ T3' /\ trouble' \in Nat
    <3>1. Answered(q) \/ TimesOut(q) \/ Fails(q)
      BY <2>10 DEF ReporterReturns
    <3>2. DOMAIN pdus' = Procs /\ DOMAIN late' = Procs /\ trouble' \in Nat
      BY <1>1, <1>2, <3>1 DEF Answered, TimesOut, Fails, Trouble
    <3>3. DOMAIN lines' = Procs /\ DOMAIN todo' = Procs /\ DOMAIN phase' = Procs /\ T3'
      BY <1>1, <1>2, <2>10 DEF ReporterReturns
    <3>4. UNCHANGED <<joined, asked, sent, device, failed, code>>
      BY <2>10 DEF ReporterReturns, iedServer
    <3> QED BY <1>1, <1>2, <3>2, <3>3, <3>4
  <2>11. T1' /\ T2' /\ T3' /\ trouble' \in Nat
    BY <2>1, <2>2, <2>3, <2>4, <2>5, <2>6, <2>7, <2>8, <2>9, <2>10 DEF ProgramStep
  <2> QED BY <1>1, <1>2, <2>11 DEF IedTypes
<1>4. CASE IedServerStep
  <2>1. T1' /\ trouble' \in Nat
    BY <1>1, <1>2, <1>4 DEF IedServerStep, SendReport, Perform
  <2>2. T2' /\ T3'
    BY <1>1, <1>2, <1>4 DEF IedServerStep, programs, reporting
  <2> QED BY <1>2, <2>1, <2>2 DEF IedTypes
<1>5. CASE IedEnvironment
  <2>1. T1' /\ trouble' \in Nat
    BY <1>1, <1>2, <1>5 DEF IedEnvironment, StartServer, StopServer, CutOff, Break, Released, Trouble, wires
  <2>2. T2' /\ T3'
    BY <1>1, <1>2, <1>5 DEF IedEnvironment, programs, reporting
  <2> QED BY <1>2, <2>1, <2>2 DEF IedTypes
<1>6. CASE UNCHANGED iedVars
  BY <1>6 DEF IedTypes, iedVars, iedServer, wires, programs, reporting, Procs
<1> QED BY <1>3, <1>4, <1>5, <1>6 DEF IedNext, IedProgress

LEMMA ReleasedRcb ==
  ASSUME OwnerInv, NEW ps, Released(ps)
  PROVE  /\ rcb' = [owner |-> rcb'.owner, seq |-> rcb'.seq, changed |-> rcb'.changed]
         /\ rcb'.owner = (IF rcb.owner \in ps THEN Nobody ELSE rcb.owner)
BY DEF Released, OwnerInv

(* Only the end of a program's main reaches into the server.               *)
LEMMA ServerSame ==
  ASSUME NEW q \in Procs, ProgramStep(q), ~Conclusion(q)
  PROVE  iedServer' = iedServer /\ (joined' = joined \/ Associate(q))
<1>1. CASE Associate(q)
  BY <1>1 DEF Associate
<1>2. CASE Request(q) \/ Discard(q) \/ CallbackHead(q)
  BY <1>2 DEF Request, Discard, CallbackHead
<1>3. CASE CallbackPost(q) \/ SemTaken(q) \/ EmitReport(q) \/ SemExpires(q)
  BY <1>3 DEF CallbackPost, SemTaken, EmitReport, SemExpires, wires
<1>4. CASE ControllerReturns(q) \/ ClientReturns(q) \/ ReporterReturns(q)
  BY <1>4 DEF ControllerReturns, ClientReturns, ReporterReturns
<1> QED BY <1>1, <1>2, <1>3, <1>4 DEF ProgramStep

LEMMA OwnerStep ==
  ASSUME IedTypes, OwnerInv, [IedNext]_iedVars
  PROVE  OwnerInv'
<1>1. Procs' = Procs
  BY CastKept
<1>2. CASE \E q \in Procs : ProgramStep(q)
  <2>1. PICK q \in Procs : ProgramStep(q)
    BY <1>2
  <2>2. CASE Conclusion(q)
    <3>1. Released({q}) /\ joined' = [joined EXCEPT ![q] = "off"]
      BY <2>2 DEF Conclusion, Leave
    <3> QED BY <1>1, <3>1, ReleasedRcb DEF OwnerInv, IedTypes
  <2>3. CASE ~Conclusion(q)
    <3>1. rcb' = rcb /\ (joined' = joined \/ Associate(q))
      BY <2>1, <2>3, ServerSame DEF iedServer
    <3> QED BY <1>1, <3>1 DEF OwnerInv, IedTypes, Associate
  <2> QED BY <2>2, <2>3
<1>3. CASE IedServerStep
  <2>1. CASE SendReport
    BY <1>1, <2>1 DEF SendReport, OwnerInv
  <2>2. CASE \E p \in Procs : Perform(p)
    <3>1. PICK p \in Procs : Perform(p)
      BY <2>2
    <3>2. joined' = joined /\ joined[p] = "up" /\ (rcb' = rcb \/ \E q : rcb' = RcbAfter(p, q))
      BY <3>1 DEF Perform
    <3>3. ASSUME NEW q, rcb' = RcbAfter(p, q) PROVE OwnerInv'
      BY <1>1, <3>2, <3>3 DEF OwnerInv, RcbAfter
    <3> QED BY <1>1, <3>2, <3>3 DEF OwnerInv
  <2> QED BY <1>3, <2>1, <2>2 DEF IedServerStep
<1>4. CASE IedEnvironment
  <2>1. CASE StartServer
    BY <1>1, <2>1 DEF StartServer, OwnerInv, wires
  <2>2. ASSUME NEW ps, Break(ps) PROVE OwnerInv'
    BY <1>1, <2>2, ReleasedRcb DEF Break, OwnerInv
  <2> QED BY <1>4, <2>1, <2>2 DEF IedEnvironment, StopServer, CutOff
<1>5. CASE UNCHANGED iedVars
  BY <1>5 DEF OwnerInv, iedVars, iedServer, wires, Procs
<1> QED BY <1>2, <1>3, <1>4, <1>5 DEF IedNext, IedProgress

-----------------------------------------------------------------------------
(* The last answer in a queue.                                             *)

LastIs(s, a) ==
  /\ a.kind = "answer"
  /\ \E i \in 1 .. Len(s) : s[i] = a /\ \A j \in 1 .. Len(s) : j > i => ~IsAnswer(s, j)

LEMMA Appended ==
  ASSUME NEW s, NEW x, IsSeq(s)
  PROVE  /\ IsSeq(Append(s, x)) /\ Len(Append(s, x)) = Len(s) + 1 /\ Append(s, x) # << >>
         /\ \A i \in 1 .. Len(s) : Append(s, x)[i] = s[i]
         /\ Append(s, x)[Len(s) + 1] = x
         /\ Answers(Append(s, x)) = Answers(s) + (IF x.kind = "answer" THEN 1 ELSE 0)
<1>1. IsSeq(<<x>>) /\ Len(<<x>>) = 1 /\ <<x>>[1] = x
  BY SeqOne
<1>2. Append(s, x) = s \o <<x>>
  BY SeqAppend
<1>3. /\ IsSeq(s \o <<x>>) /\ Len(s \o <<x>>) = Len(s) + Len(<<x>>)
      /\ \A i \in 1 .. Len(s) : (s \o <<x>>)[i] = s[i]
      /\ \A i \in 1 .. Len(<<x>>) : (s \o <<x>>)[Len(s) + i] = <<x>>[i]
  BY <1>1, SeqConcat
<1>4. Answers(s \o <<x>>) = Answers(s) + (IF x.kind = "answer" THEN 1 ELSE 0)
  <2>1. Answers(s \o <<x>>) = Answers(s) + Answers(<<x>>)
    BY <1>1, AnswersConcat, Zenon
  <2> QED BY <2>1, AnswersOne, Zenon
<1> DEFINE u == s \o <<x>>
<1> HIDE DEF u
<1>5. /\ IsSeq(u) /\ Len(u) = Len(s) + 1 /\ Len(s) \in Nat
      /\ \A i \in 1 .. Len(s) : u[i] = s[i]
      /\ u[Len(s) + 1] = x
  BY <1>1, <1>3, SeqLen DEF u
<1>6. u # << >>
  BY <1>5
<1> QED BY <1>2, <1>4, <1>5, <1>6 DEF u

LEMMA EndIsLast ==
  ASSUME NEW s, NEW x, IsSeq(s), x.kind = "answer"
  PROVE  LastIs(Append(s, x), x)
<1> DEFINE u == Append(s, x)
<1>1. IsSeq(u) /\ Len(u) = Len(s) + 1 /\ u[Len(s) + 1] = x /\ Len(s) \in Nat
  BY Appended, SeqLen
<1> HIDE DEF u
<1>2. Len(u) \in 1 .. Len(u) /\ u[Len(u)] = x
  BY <1>1
<1>3. \A j \in 1 .. Len(u) : ~(j > Len(u))
  BY <1>1
<1> QED BY <1>2, <1>3 DEF LastIs, u

LEMMA ReportAfterLast ==
  ASSUME NEW s, NEW x, NEW a, IsSeq(s), x.kind = "report", LastIs(s, a)
  PROVE  LastIs(Append(s, x), a)
<1> DEFINE u == Append(s, x)
<1>1. /\ Len(u) = Len(s) + 1 /\ u[Len(s) + 1] = x /\ Len(s) \in Nat
      /\ \A i \in 1 .. Len(s) : u[i] = s[i]
  BY Appended, SeqLen
<1> HIDE DEF u
<1>2. PICK i \in 1 .. Len(s) : s[i] = a /\ \A j \in 1 .. Len(s) : j > i => ~IsAnswer(s, j)
  BY DEF LastIs
<1>3. i \in 1 .. Len(u) /\ u[i] = a
  BY <1>1, <1>2
<1>4. ASSUME NEW j \in 1 .. Len(u), j > i PROVE ~IsAnswer(u, j)
  <2>1. CASE j \in 1 .. Len(s)
    BY <1>1, <1>2, <1>4, <2>1 DEF IsAnswer
  <2>2. CASE j \notin 1 .. Len(s)
    <3>1. j = Len(s) + 1
      BY <1>1, <2>2
    <3> QED BY <1>1, <3>1 DEF IsAnswer
  <2> QED BY <2>1, <2>2
<1> QED BY <1>3, <1>4 DEF LastIs, u

LEMMA OnlyAnswer ==
  ASSUME NEW s, IsSeq(s), s # << >>, Head(s).kind = "answer", Answers(s) = 1
  PROVE  /\ \A a : LastIs(s, a) => a = Head(s)
         /\ EndsAnswer(s) => Tail(s) = << >>
<1> DEFINE t == Tail(s)
<1>1. /\ IsSeq(t) /\ Len(t) = Len(s) - 1 /\ s[1] = Head(s) /\ Len(s) \in Nat /\ Len(s) > 0
      /\ \A i \in 1 .. Len(t) : t[i] = s[i + 1]
  BY SeqTail, SeqLen
<1>2. Answers(t) = 0
  <2>1. Answers(s) = Answers(t) + 1
    BY TailAnswers
  <2>2. Answers(t) \in Nat
    BY <1>1, AnswersFinite
  <2> QED BY <2>1, <2>2
<1> HIDE DEF t
<1>3. AnswersIn(t) = {}
  BY <1>1, <1>2, AnswersFinite
<1>4. ASSUME NEW i \in 1 .. Len(s), IsAnswer(s, i) PROVE i = 1
  <2> SUFFICES ASSUME i # 1 PROVE FALSE
    OBVIOUS
  <2>1. i - 1 \in 1 .. Len(t) /\ t[i - 1] = s[(i - 1) + 1] /\ (i - 1) + 1 = i
    BY <1>1
  <2>2. i - 1 \in AnswersIn(t)
    BY <1>4, <2>1 DEF AnswersIn, IsAnswer
  <2> QED BY <1>3, <2>2
<1>5. ASSUME NEW a, LastIs(s, a) PROVE a = Head(s)
  <2>1. PICK i \in 1 .. Len(s) : s[i] = a
    BY <1>5 DEF LastIs
  <2>2. IsAnswer(s, i)
    BY <1>5, <2>1 DEF LastIs, IsAnswer
  <2> QED BY <1>1, <1>4, <2>1, <2>2
<1>6. ASSUME EndsAnswer(s) PROVE t = << >>
  <2>1. Len(s) = 1
    BY <1>1, <1>4, <1>6 DEF EndsAnswer, IsAnswer
  <2> QED BY <1>1, <2>1, SeqNil
<1> QED BY <1>5, <1>6 DEF t

LEMMA TailKeepsLast ==
  ASSUME NEW s, NEW a, IsSeq(s), s # << >>, LastIs(s, a), Head(s).kind # "answer" \/ Answers(s) # 1
  PROVE  LastIs(Tail(s), a)
<1> DEFINE t == Tail(s)
<1>1. /\ IsSeq(t) /\ Len(t) = Len(s) - 1 /\ s[1] = Head(s) /\ Len(s) \in Nat /\ Len(s) > 0
      /\ \A i \in 1 .. Len(t) : t[i] = s[i + 1]
  BY SeqTail, SeqLen
<1> HIDE DEF t
<1>2. PICK i \in 1 .. Len(s) : s[i] = a /\ \A j \in 1 .. Len(s) : j > i => ~IsAnswer(s, j)
  BY DEF LastIs
<1>3. i # 1
  <2> SUFFICES ASSUME i = 1 PROVE FALSE
    OBVIOUS
  <2>1. Head(s).kind = "answer"
    BY <1>1, <1>2 DEF LastIs
  <2>2. AnswersIn(s) = {1}
    BY <1>1, <1>2, <2>1 DEF AnswersIn, IsAnswer
  <2>3. Answers(s) = 1
    BY <2>2, FS_Singleton DEF Answers
  <2> QED BY <2>1, <2>3
<1>4. i - 1 \in 1 .. Len(t) /\ t[i - 1] = a
  <2>1. i - 1 \in 1 .. Len(t) /\ (i - 1) + 1 = i
    BY <1>1, <1>3
  <2> QED BY <1>1, <1>2, <2>1
<1>5. ASSUME NEW j \in 1 .. Len(t), j > i - 1 PROVE ~IsAnswer(t, j)
  <2>1. j + 1 \in 1 .. Len(s) /\ j + 1 > i /\ t[j] = s[j + 1]
    BY <1>1, <1>5
  <2> QED BY <1>2, <2>1 DEF IsAnswer
<1> QED BY <1>4, <1>5 DEF LastIs, t

-----------------------------------------------------------------------------
(* The requests and answers of a program.                                  *)

Waiting(p) == IF phase[p] = "wait" THEN 1 ELSE 0

WireInv(p) ==
  /\ IsSeq(asked[p]) /\ IsSeq(pdus[p]) /\ late[p] \in Nat
  /\ joined[p] # "up" => asked[p] = << >> /\ pdus[p] = << >>
  /\ phase[p] = "new" => joined[p] # "up" /\ late[p] = 0
  /\ phase[p] = "exit" => joined[p] # "up"
  /\ joined[p] = "up" => Answers(pdus[p]) + Len(asked[p]) = late[p] + Waiting(p)

(* The last request is that of the call p waits for.                       *)
AskInv(p) ==
  phase[p] = "wait" /\ asked[p] # << >> => asked[p][Len(asked[p])] = Req(p)

(* The answer p waits for is under way.                                    *)
Awaiting(p) == phase[p] = "wait" /\ joined[p] = "up" /\ asked[p] = << >>

LEMMA WireNumbers ==
  ASSUME NEW p, WireInv(p)
  PROVE  Answers(pdus[p]) \in Nat /\ Len(asked[p]) \in Nat /\ late[p] \in Nat /\ Waiting(p) \in 0 .. 1
BY AnswersFinite, SeqLen DEF WireInv, Waiting

(* The first PDU is an answer, and is taken.                               *)
LEMMA PopAnswer ==
  ASSUME NEW p, WireInv(p), pdus[p] # << >>, Head(pdus[p]).kind = "answer"
  PROVE  /\ joined[p] = "up" /\ IsSeq(Tail(pdus[p]))
         /\ Answers(Tail(pdus[p])) = Answers(pdus[p]) - 1 /\ Answers(pdus[p]) > 0
<1>1. Answers(pdus[p]) = Answers(Tail(pdus[p])) + 1 /\ IsSeq(Tail(pdus[p]))
  BY TailAnswers, SeqTail DEF WireInv
<1>2. Answers(Tail(pdus[p])) \in Nat
  BY <1>1, AnswersFinite
<1> DEFINE n == Answers(Tail(pdus[p]))
<1> HIDE DEF n
<1>3. Answers(pdus[p]) = n + 1 /\ n \in Nat
  BY <1>1, <1>2 DEF n
<1>4. n = Answers(pdus[p]) - 1 /\ Answers(pdus[p]) > 0
  BY <1>3
<1> QED BY <1>1, <1>4 DEF n, WireInv

(* A call that is answered was performed, and this is its answer.          *)
LEMMA Taken ==
  ASSUME NEW p, WireInv(p), phase[p] = "wait", late[p] = 0,
         pdus[p] # << >>, Head(pdus[p]).kind = "answer"
  PROVE  Awaiting(p) /\ Answers(pdus[p]) = 1 /\ \A a : LastIs(pdus[p], a) => a = Head(pdus[p])
<1>1. joined[p] = "up" /\ Answers(pdus[p]) > 0
  BY PopAnswer
<1>2. Answers(pdus[p]) + Len(asked[p]) = 1
  BY <1>1 DEF WireInv, Waiting
<1>3. Answers(pdus[p]) \in Nat /\ Len(asked[p]) \in Nat
  BY WireNumbers
<1>4. Answers(pdus[p]) = 1 /\ Len(asked[p]) = 0
  BY <1>1, <1>2, <1>3
<1>5. asked[p] = << >> /\ IsSeq(pdus[p])
  BY <1>4, SeqNil DEF WireInv
<1> QED BY <1>1, <1>4, <1>5, OnlyAnswer DEF Awaiting

LEMMA AloneWires ==
  ASSUME NEW p, Alone(p), WireInv(p), AskInv(p)
  PROVE  WireInv(p)' /\ AskInv(p)'
<1>1. WireInv(p)'
  BY DEF Alone, SameWires, SameLines, WireInv, Waiting
<1>2. AskInv(p)'
  BY DEF Alone, SameWires, SameScript, AskInv, Req
<1> QED BY <1>1, <1>2

LEMMA LosesWires ==
  ASSUME NEW p, Loses(p), WireInv(p), AskInv(p)
  PROVE  WireInv(p)' /\ AskInv(p)'
BY SeqEmpty DEF Loses, SameLines, WireInv, AskInv

LEMMA PerformsWires ==
  ASSUME NEW p, Performs(p), WireInv(p), AskInv(p)
  PROVE  /\ WireInv(p)' /\ AskInv(p)'
         /\ asked'[p] = << >> /\ phase[p] = "wait" => Head(asked[p]) = Req(p)
         /\ LastIs(pdus'[p], Done1(p))
<1> DEFINE s == asked[p]
<1>1. /\ IsSeq(s) /\ IsSeq(Tail(s)) /\ Len(s) > 0 /\ Len(Tail(s)) = Len(s) - 1 /\ s[1] = Head(s)
      /\ \A i \in 1 .. Len(Tail(s)) : Tail(s)[i] = s[i + 1]
  BY SeqTail DEF Performs, WireInv
<1>2. Done1(p).kind = "answer"
  BY DEF Done1
<1>3. IsSeq(pdus'[p]) /\ Answers(pdus'[p]) = Answers(pdus[p]) + 1 /\ LastIs(pdus'[p], Done1(p))
  BY <1>2, Appended, EndIsLast DEF Performs, WireInv
<1> HIDE DEF s
<1>4. Answers(pdus[p]) \in Nat /\ Len(s) \in Nat
  BY WireNumbers DEF s
<1>5. Answers(pdus'[p]) + Len(asked'[p]) = Answers(pdus[p]) + Len(asked[p])
  BY <1>1, <1>3, <1>4 DEF Performs, s
<1>6. WireInv(p)'
  BY <1>1, <1>3, <1>5 DEF WireInv, Performs, SameLines, Waiting, s
<1>7. AskInv(p)'
  <2> SUFFICES ASSUME phase[p] = "wait", Tail(s) # << >>
               PROVE  Tail(s)[Len(Tail(s))] = Req(p)
    BY DEF AskInv, Performs, SameScript, Req, s
  <2>1. Len(Tail(s)) # 0
    BY <1>1, SeqNil
  <2>2. Tail(s)[Len(Tail(s))] = s[Len(s)]
    BY <1>1, <1>4, <2>1
  <2> QED BY <2>2 DEF AskInv, Performs, s
<1>8. ASSUME asked'[p] = << >>, phase[p] = "wait" PROVE Head(s) = Req(p)
  <2>1. Len(Tail(s)) = 0
    BY <1>1, <1>8, SeqNil DEF Performs, s
  <2>2. Len(s) = 1
    BY <1>1, <1>4, <2>1
  <2> QED BY <1>1, <1>8, <2>2 DEF AskInv, Performs, s
<1> QED BY <1>3, <1>6, <1>7, <1>8 DEF s

LEMMA NotifiedWires ==
  ASSUME NEW p, Notified(p), WireInv(p), AskInv(p), joined[p] = "up"
  PROVE  /\ WireInv(p)' /\ AskInv(p)'
         /\ \A a : LastIs(pdus[p], a) => LastIs(pdus'[p], a)
<1>1. Changes.kind = "report"
  BY DEF Changes
<1>2. /\ IsSeq(pdus'[p]) /\ Answers(pdus'[p]) = Answers(pdus[p]) + 0
      /\ \A a : LastIs(pdus[p], a) => LastIs(pdus'[p], a)
  BY <1>1, Appended, ReportAfterLast DEF Notified, WireInv
<1>3. Answers(pdus'[p]) = Answers(pdus[p])
  BY <1>2, WireNumbers
<1> QED BY <1>2, <1>3 DEF Notified, WireInv, AskInv, SameLines, SameScript, Waiting, Req

LEMMA OwnWires ==
  ASSUME NEW p, OwnStep(p), WireInv(p), AskInv(p)
  PROVE  WireInv(p)' /\ AskInv(p)'
<1>0. Answers(pdus[p]) \in Nat /\ Len(asked[p]) \in Nat /\ late[p] \in Nat /\ Waiting(p) \in 0 .. 1
  BY WireNumbers
<1> USE <1>0
<1>1. CASE Associates(p)
  <2>1. asked'[p] = << >> /\ pdus'[p] = << >> /\ late'[p] = 0 /\ Waiting(p)' = 0
    BY <1>1 DEF Associates, WireInv, Waiting
  <2>2. Len(asked'[p]) = 0 /\ Answers(pdus'[p]) = 0 /\ IsSeq(asked'[p]) /\ IsSeq(pdus'[p])
    BY <2>1, SeqEmpty
  <2>3. phase'[p] # "new" /\ (phase'[p] = "exit" => joined'[p] # "up")
    BY <1>1 DEF Associates, WireInv
  <2> QED BY <1>1, <2>1, <2>2, <2>3 DEF Associates, WireInv, AskInv
<1>2. CASE Concludes(p)
  BY <1>2, SeqEmpty DEF Concludes, Ended, WireInv, AskInv
<1>3. CASE Requests(p)
  <2>1. /\ IsSeq(asked'[p]) /\ Len(asked'[p]) = Len(asked[p]) + 1
        /\ asked'[p][Len(asked[p]) + 1] = Req(p)
    BY <1>3, Appended DEF Requests, WireInv
  <2>2. WireInv(p)'
    BY <1>3, <2>1 DEF Requests, SameLines, WireInv, Waiting
  <2>3. AskInv(p)'
    BY <1>3, <2>1 DEF Requests, SameScript, AskInv, Req
  <2> QED BY <2>2, <2>3
<1>4. CASE Discards(p)
  <2>1. joined[p] = "up" /\ IsSeq(pdus'[p]) /\ Answers(pdus'[p]) = Answers(pdus[p]) - 1
    BY <1>4, PopAnswer DEF Discards
  <2>2. Answers(pdus'[p]) + Len(asked'[p]) = late'[p] + Waiting(p)'
    <3>1. asked'[p] = asked[p] /\ late'[p] = late[p] - 1 /\ Waiting(p)' = Waiting(p)
      BY <1>4 DEF Discards, Waiting
    <3>2. Answers(pdus[p]) + Len(asked[p]) = late[p] + Waiting(p)
      BY <2>1 DEF WireInv
    <3> QED BY <1>0, <2>1, <3>1, <3>2
  <2>3. WireInv(p)'
    BY <1>4, <2>1, <2>2 DEF Discards, WireInv
  <2> QED BY <1>4, <2>3 DEF Discards, SameScript, AskInv, Req
<1>5. CASE Returns3(p)
  <2>1. PICK a : Returned(p, a) /\ (ControllerSees(p, a) \/ ClientSees(p, a) \/ ReporterSees(p, a))
    BY <1>5 DEF Returns3
  <2>2. phase'[p] # "wait" /\ phase'[p] # "new" /\ phase'[p] # "exit"
    BY <2>1 DEF ControllerSees, ClientSees, ReporterSees
  <2>3. CASE phase[p] = "wait" /\ late[p] = 0 /\ pdus[p] # << >> /\ Head(pdus[p]).kind = "answer"
             /\ pdus'[p] = Tail(pdus[p]) /\ late'[p] = late[p]
    <3>1. joined[p] = "up" /\ IsSeq(pdus'[p]) /\ Answers(pdus'[p]) = Answers(pdus[p]) - 1
      BY <2>3, PopAnswer
    <3>2. Answers(pdus'[p]) + Len(asked'[p]) = late'[p] + Waiting(p)'
      BY <2>1, <2>2, <2>3, <3>1 DEF Returned, WireInv, Waiting
    <3> QED BY <2>1, <2>2, <2>3, <3>1, <3>2 DEF Returned, WireInv, AskInv
  <2>4. CASE phase[p] = "wait" /\ joined[p] = "up" /\ pdus'[p] = pdus[p] /\ late'[p] = late[p] + 1
    <3>1. Answers(pdus'[p]) + Len(asked'[p]) = late'[p] + Waiting(p)'
      BY <2>1, <2>2, <2>4 DEF Returned, WireInv, Waiting
    <3> QED BY <2>1, <2>2, <2>4, <3>1 DEF Returned, WireInv, AskInv
  <2>5. CASE joined[p] = "lost" /\ pdus'[p] = pdus[p] /\ late'[p] = late[p]
    BY <2>1, <2>2, <2>5 DEF Returned, WireInv, AskInv
  <2> QED BY <2>1, <2>3, <2>4, <2>5 DEF Returned
<1>6. CASE Begins(p)
  <2>1. IsSeq(pdus'[p]) /\ Answers(pdus'[p]) = Answers(pdus[p]) /\ joined[p] = "up"
    <3>1. Answers(pdus[p]) = Answers(Tail(pdus[p])) + 0 /\ IsSeq(Tail(pdus[p]))
      BY <1>6, TailAnswers, SeqTail DEF Begins, WireInv
    <3>2. Answers(Tail(pdus[p])) \in Nat
      BY <3>1, AnswersFinite
    <3> QED BY <1>6, <3>1, <3>2 DEF Begins, WireInv
  <2>2. WireInv(p)'
    BY <1>6, <2>1 DEF Begins, SameLines, WireInv, Waiting
  <2> QED BY <1>6, <2>2 DEF Begins, SameScript, AskInv, Req
<1>7. CASE Posts(p)
  <2>1. WireInv(p)'
    BY <1>7 DEF Posts, SameWires, SameLines, WireInv, Waiting
  <2> QED BY <1>7, <2>1 DEF Posts, SameWires, SameScript, AskInv, Req
<1>8. CASE Takes(p) \/ Emits(p) \/ Expires(p)
  <2>1. WireInv(p)'
    BY <1>8 DEF Takes, Emits, Expires, SameWires, SameLines, WireInv, Waiting
  <2> QED BY <1>8, <2>1 DEF Takes, Emits, Expires, AskInv
<1> QED BY <1>1, <1>2, <1>3, <1>4, <1>5, <1>6, <1>7, <1>8 DEF OwnStep

LEMMA ProcNames ==
  ASSUME IedTypes
  PROVE  /\ Nobody \notin Procs
         /\ \A p \in Procs : cast[p].kind \in {"controller", "client", "reporter"}
BY IedAssumption DEF IedTypes, Procs

BaseInv ==
  IedTypes /\ OwnerInv /\ \A p \in Procs : WireInv(p) /\ AskInv(p)

LEMMA BaseInit == ASSUME IedInit PROVE BaseInv
<1>1. ASSUME NEW p \in Procs PROVE WireInv(p) /\ AskInv(p)
  <2>1. joined[p] = "off" /\ asked[p] = << >> /\ pdus[p] = << >> /\ phase[p] = "new" /\ late[p] = 0
    BY DEF IedInit, IedServerInit, ProgramInit
  <2> QED BY <2>1, SeqEmpty DEF WireInv, AskInv
<1> QED BY <1>1, IedTypesInit DEF BaseInv

LEMMA BaseStep ==
  ASSUME BaseInv, [IedNext]_iedVars
  PROVE  BaseInv'
<1>1. IedTypes' /\ OwnerInv' /\ Procs' = Procs
  BY IedTypesStep, OwnerStep, CastKept DEF BaseInv
<1>2. ASSUME NEW p \in Procs PROVE WireInv(p)' /\ AskInv(p)'
  <2>1. WireInv(p) /\ AskInv(p) /\ (Notified(p) => joined[p] = "up")
    BY ProcNames DEF BaseInv, OwnerInv, Notified, IedTypes
  <2>2. Alone(p) \/ OwnStep(p) \/ Performs(p) \/ Notified(p) \/ Loses(p)
    BY IedMoves DEF BaseInv
  <2> QED BY <2>1, <2>2, AloneWires, OwnWires, PerformsWires, NotifiedWires, LosesWires
<1> QED BY <1>1, <1>2 DEF BaseInv

-----------------------------------------------------------------------------
(* The place of a program in its script.                                   *)

From(s, k) == SubSeq(s, k, Len(s))

At(p, k) == todo[p] = From(Script(cast[p]), k)

LEMMA FromFacts ==
  ASSUME NEW s, IsSeq(s), NEW k \in 1 .. Len(s)
  PROVE  /\ From(s, k) # << >> /\ Head(From(s, k)) = s[k] /\ Tail(From(s, k)) = From(s, k + 1)
         /\ Len(From(s, k)) = Len(s) - k + 1
<1>1. PICK S : s \in Seq(S)
  BY DEF IsSeq
<1>2. Len(s) \in Nat /\ k \in Nat
  BY <1>1
<1>3. /\ From(s, k) \in Seq(S) /\ Len(From(s, k)) = Len(s) - k + 1
      /\ \A i \in 1 .. Len(s) - k + 1 : From(s, k)[i] = s[k + i - 1]
  BY <1>1, <1>2 DEF From
<1>4. From(s, k) # << >> /\ Head(From(s, k)) = s[k]
  BY <1>2, <1>3
<1>5. /\ From(s, k + 1) \in Seq(S) /\ Len(From(s, k + 1)) = Len(s) - k
      /\ \A i \in 1 .. Len(s) - k : From(s, k + 1)[i] = s[k + i]
  BY <1>1, <1>2 DEF From
<1> DEFINE u == From(s, k)
           v == From(s, k + 1)
<1> HIDE DEF u, v
<1>6. Tail(u) \in Seq(S) /\ Len(Tail(u)) = Len(u) - 1 /\ \A i \in 1 .. Len(u) - 1 : Tail(u)[i] = u[i + 1]
  BY <1>3, <1>4 DEF u
<1>7. ASSUME NEW i \in 1 .. Len(Tail(u)) PROVE Tail(u)[i] = v[i]
  <2>1. i \in 1 .. Len(s) - k /\ i + 1 \in 1 .. Len(s) - k + 1 /\ k + (i + 1) - 1 = k + i
    BY <1>2, <1>3, <1>6 DEF u
  <2> QED BY <1>3, <1>5, <1>6, <2>1 DEF u, v
<1>8. Tail(u) = v
  <2>1. Len(Tail(u)) = Len(v) /\ v \in Seq(S)
    BY <1>2, <1>3, <1>5, <1>6 DEF u, v
  <2> QED BY <1>6, <1>7, <2>1, SeqEqual
<1> QED BY <1>3, <1>4, <1>8 DEF u, v

LEMMA OnePlace ==
  ASSUME NEW p, IsSeq(Script(cast[p])), NEW k \in 1 .. Len(Script(cast[p])),
         NEW j \in 1 .. Len(Script(cast[p])), At(p, k), At(p, j)
  PROVE  k = j
<1> DEFINE n == Len(Script(cast[p]))
<1>1. Len(todo[p]) = n - k + 1 /\ Len(todo[p]) = n - j + 1
  BY FromFacts DEF At
<1>2. n \in Nat
  BY SeqLen
<1> HIDE DEF n
<1> QED BY <1>1, <1>2

(* A line was printed.                                                     *)
LEMMA LineSaid ==
  ASSUME NEW p, NEW op, NEW l, IsSeq(lines[p]), lines'[p] = Append(lines[p], l)
  PROVE  IsSeq(lines'[p]) /\ (Said(p, op)' <=> Said(p, op) \/ (l.op = op /\ l.ok))
<1>1. /\ IsSeq(lines'[p]) /\ Len(lines'[p]) = Len(lines[p]) + 1
      /\ \A i \in 1 .. Len(lines[p]) : lines'[p][i] = lines[p][i]
      /\ lines'[p][Len(lines[p]) + 1] = l
  BY Appended
<1>2. DOMAIN lines[p] = 1 .. Len(lines[p]) /\ DOMAIN lines'[p] = 1 .. Len(lines'[p]) /\ Len(lines[p]) \in Nat
  BY <1>1, SeqLen
<1>3. \A i \in DOMAIN lines'[p] : i \in DOMAIN lines[p] \/ i = Len(lines[p]) + 1
  BY <1>1, <1>2
<1>4. \A i \in DOMAIN lines[p] : i \in DOMAIN lines'[p]
  BY <1>1, <1>2
<1>5. Len(lines[p]) + 1 \in DOMAIN lines'[p]
  BY <1>1, <1>2
<1> QED BY <1>1, <1>2, <1>3, <1>4, <1>5 DEF Said, SaidAt

LEMMA ReporterOps ==
  ASSUME NEW r, r.kind = "reporter"
  PROVE  /\ IsSeq(Script(r)) /\ Len(Script(r)) = 6
         /\ Script(r)[1].how = "get-rcb" /\ Script(r)[2].how = "enable-rcb"
         /\ Script(r)[3] = Op("write", "SPS1", ~r.arg, 0)
         /\ Script(r)[4].how = "receive-report" /\ Script(r)[5].how = "disable-rcb"
         /\ Script(r)[6].how = "conclude"
<1>1. Script(r) = ReporterScript(r)
  BY DEF Script
<1>2. ReporterScript(r) \in
        Seq({Plain("get-rcb", "urcb01"), Plain("enable-rcb", "urcb01"), Op("write", "SPS1", ~r.arg, 0),
             Plain("receive-report", NoName), Plain("disable-rcb", "urcb01"), Plain("conclude", NoName)})
  BY DEF ReporterScript
<1>3. Len(ReporterScript(r)) = 6
  BY DEF ReporterScript
<1>4. /\ ReporterScript(r)[1].how = "get-rcb" /\ ReporterScript(r)[2].how = "enable-rcb"
      /\ ReporterScript(r)[3] = Op("write", "SPS1", ~r.arg, 0)
      /\ ReporterScript(r)[4].how = "receive-report" /\ ReporterScript(r)[5].how = "disable-rcb"
      /\ ReporterScript(r)[6].how = "conclude"
  BY DEF ReporterScript, Plain, Op
<1> QED BY <1>1, <1>2, <1>3, <1>4 DEF IsSeq

(* Only an enable gives p the block.                                       *)
LEMMA RcbMoves ==
  ASSUME BaseInv, [IedNext]_iedVars, NEW p \in Procs, rcb'.owner = p, rcb.owner # p
  PROVE  asked[p] # << >> /\ Head(asked[p]).how = "enable-rcb"
<1>1. OwnerInv /\ Nobody \notin Procs
  BY ProcNames DEF BaseInv
<1>2. CASE IedServerStep
  <2>1. CASE SendReport
    BY <1>1, <2>1 DEF SendReport, OwnerInv
  <2>2. CASE \E q \in Procs : Perform(q)
    <3>1. PICK q \in Procs : Perform(q)
      BY <2>2
    <3>2. asked[q] # << >> /\ (rcb' = rcb \/ rcb' = RcbAfter(q, Head(asked[q])))
      BY <3>1 DEF Perform
    <3>3. rcb' = RcbAfter(q, Head(asked[q]))
      BY <3>2
    <3>4. q = p /\ Head(asked[q]).how = "enable-rcb"
      BY <1>1, <3>3 DEF RcbAfter, OwnerInv
    <3> QED BY <3>2, <3>4
  <2> QED BY <1>2, <2>1, <2>2 DEF IedServerStep
<1>3. CASE \E q \in Procs : ProgramStep(q)
  <2>1. PICK q \in Procs : ProgramStep(q)
    BY <1>3
  <2>2. CASE Conclusion(q)
    <3>1. Released({q})
      BY <2>2 DEF Conclusion, Leave
    <3> QED BY <1>1, <3>1, ReleasedRcb
  <2>3. CASE ~Conclusion(q)
    BY <2>1, <2>3, ServerSame DEF iedServer
  <2> QED BY <2>2, <2>3
<1>4. CASE IedEnvironment
  <2>1. CASE StartServer
    BY <2>1 DEF StartServer
  <2>2. ASSUME NEW ps, Break(ps) PROVE FALSE
    BY <1>1, <2>2, ReleasedRcb DEF Break
  <2> QED BY <1>4, <2>1, <2>2 DEF IedEnvironment, StopServer, CutOff
<1>5. CASE UNCHANGED iedVars
  BY <1>5 DEF iedVars, iedServer
<1> QED BY <1>2, <1>3, <1>4, <1>5 DEF IedNext, IedProgress

-----------------------------------------------------------------------------
(* The reporter and its semaphore.                                         *)

Closed(p) == todo[p] = <<Plain("close", NoName)>>

SemPlace(p) ==
  /\ Closed(p) \/ \E k \in 1 .. 6 : At(p, k)
  /\ phase[p] \in {"sem", "emit"} <=> At(p, 4)
  /\ phase[p] = "new" => At(p, 1)
  /\ phase[p] = "wait" => \E k \in {1, 2, 3, 5} : At(p, k)
  /\ IsSeq(lines[p])

SemAlive(p) == (~alive[p] => At(p, 6) \/ Closed(p)) /\ (misused[p] => ~alive[p])

(* The request to enable the block is answered before main goes on.        *)
SemAsk(p) ==
  ~At(p, 2) /\ ~Closed(p) => \A i \in 1 .. Len(asked[p]) : asked[p][i].how # "enable-rcb"

(* The block was disabled; no report comes behind the answer.              *)
SemGone(p) ==
  Awaiting(p) /\ At(p, 5) =>
    \E a : LastIs(pdus[p], a) /\ (a.ok => rcb.owner # p /\ EndsAnswer(pdus[p]))

SemDone(p) ==
  Said(p, "disable-rcb") =>
    /\ At(p, 6) /\ rcb.owner # p /\ asked[p] = << >> /\ pdus[p] = << >>
    /\ cb[p] = NoReport /\ ~misused[p] /\ phase[p] \in {"ready", "exit"}

SemInv(p) == SemPlace(p) /\ SemAlive(p) /\ SemAsk(p) /\ SemGone(p) /\ SemDone(p)

LEMMA ReporterAt ==
  ASSUME NEW p, cast[p].kind = "reporter"
  PROVE  /\ At(p, 1) => Head(todo[p]).how = "get-rcb" /\ Tail(todo[p]) = From(Script(cast[p]), 2)
         /\ At(p, 2) => Head(todo[p]).how = "enable-rcb" /\ Tail(todo[p]) = From(Script(cast[p]), 3)
         /\ At(p, 3) => /\ Head(todo[p]) = Op("write", "SPS1", ~cast[p].arg, 0)
                        /\ Head(todo[p]).how = "write" /\ Tail(todo[p]) = From(Script(cast[p]), 4)
         /\ At(p, 4) => Head(todo[p]).how = "receive-report" /\ Tail(todo[p]) = From(Script(cast[p]), 5)
         /\ At(p, 5) => Head(todo[p]).how = "disable-rcb" /\ Tail(todo[p]) = From(Script(cast[p]), 6)
         /\ At(p, 6) => Head(todo[p]).how = "conclude"
         /\ Closed(p) => Head(todo[p]).how = "close"
<1> DEFINE s == Script(cast[p])
<1>1. /\ IsSeq(s) /\ Len(s) = 6
      /\ s[1].how = "get-rcb" /\ s[2].how = "enable-rcb" /\ s[3] = Op("write", "SPS1", ~cast[p].arg, 0)
      /\ s[4].how = "receive-report" /\ s[5].how = "disable-rcb" /\ s[6].how = "conclude"
  BY ReporterOps
<1>2. s[3].how = "write"
  BY <1>1 DEF Op
<1> HIDE DEF s
<1>3. \A k \in 1 .. 6 : Head(From(s, k)) = s[k] /\ Tail(From(s, k)) = From(s, k + 1)
  BY <1>1, FromFacts
<1>4. Closed(p) => Head(todo[p]).how = "close"
  BY DEF Closed, Plain, Op
<1>5. \A k \in 1 .. 6 : At(p, k) => Head(todo[p]) = s[k] /\ Tail(todo[p]) = From(s, k + 1)
  BY <1>3 DEF At, s
<1> QED BY <1>1, <1>2, <1>4, <1>5 DEF s

LEMMA ReporterAtNext ==
  ASSUME NEW p, cast[p].kind = "reporter", cast' = cast
  PROVE  /\ At(p, 1)' => Head(todo'[p]).how = "get-rcb" /\ Tail(todo'[p]) = From(Script(cast[p]), 2)
         /\ At(p, 2)' => Head(todo'[p]).how = "enable-rcb" /\ Tail(todo'[p]) = From(Script(cast[p]), 3)
         /\ At(p, 3)' => /\ Head(todo'[p]) = Op("write", "SPS1", ~cast[p].arg, 0)
                        /\ Head(todo'[p]).how = "write" /\ Tail(todo'[p]) = From(Script(cast[p]), 4)
         /\ At(p, 4)' => Head(todo'[p]).how = "receive-report" /\ Tail(todo'[p]) = From(Script(cast[p]), 5)
         /\ At(p, 5)' => Head(todo'[p]).how = "disable-rcb" /\ Tail(todo'[p]) = From(Script(cast[p]), 6)
         /\ At(p, 6)' => Head(todo'[p]).how = "conclude"
         /\ Closed(p)' => Head(todo'[p]).how = "close"
<1> DEFINE s == Script(cast[p])
<1>1. /\ IsSeq(s) /\ Len(s) = 6
      /\ s[1].how = "get-rcb" /\ s[2].how = "enable-rcb" /\ s[3] = Op("write", "SPS1", ~cast[p].arg, 0)
      /\ s[4].how = "receive-report" /\ s[5].how = "disable-rcb" /\ s[6].how = "conclude"
  BY ReporterOps
<1>2. s[3].how = "write"
  BY <1>1 DEF Op
<1> HIDE DEF s
<1>3. \A k \in 1 .. 6 : Head(From(s, k)) = s[k] /\ Tail(From(s, k)) = From(s, k + 1)
  BY <1>1, FromFacts
<1>4. Closed(p)' => Head(todo'[p]).how = "close"
  BY DEF Closed, Plain, Op
<1>5. \A k \in 1 .. 6 : At(p, k)' => Head(todo'[p]) = s[k] /\ Tail(todo'[p]) = From(s, k + 1)
  BY <1>3 DEF At, s
<1> QED BY <1>1, <1>2, <1>4, <1>5 DEF s

(* What a step of a reporter can be.                                       *)
LEMMA ReporterSteps ==
  ASSUME NEW p, OwnStep(p), cast[p].kind = "reporter"
  PROVE  \/ Associates(p) \/ Concludes(p) \/ Requests(p) \/ Discards(p) \/ Begins(p) \/ Posts(p)
         \/ Takes(p) \/ Emits(p) \/ Expires(p) \/ \E a : Returned(p, a) /\ ReporterSees(p, a)
BY DEF OwnStep, Returns3, ControllerSees, ClientSees

LEMMA SemPlaceStep ==
  ASSUME NEW p, cast[p].kind = "reporter", cast' = cast, SemPlace(p), OwnStep(p)
  PROVE  SemPlace(p)'
<1> USE ReporterAt
<1>1. CASE Associates(p) \/ Requests(p) \/ Discards(p) \/ Begins(p) \/ Posts(p) \/ Takes(p)
  <2>1. todo'[p] = todo[p]
    BY <1>1 DEF Associates, Requests, Discards, Begins, Posts, Takes, SameScript
  <2>2. Closed(p)' <=> Closed(p)
    BY <2>1 DEF Closed
  <2>3. \A k : At(p, k)' <=> At(p, k)
    BY <2>1 DEF At
  <2>4. lines'[p] = lines[p]
    BY <1>1 DEF Associates, Requests, Discards, Begins, Posts, Takes, SameLines
  <2>5. phase'[p] \in {"sem", "emit"} <=> At(p, 4)
    BY <1>1 DEF SemPlace, Associates, Requests, Discards, Begins, Posts, Takes
  <2>6. phase'[p] = "new" => phase[p] = "new"
    BY <1>1 DEF Associates, Requests, Discards, Begins, Posts, Takes
  <2>7. phase'[p] = "wait" => \E k \in {1, 2, 3, 5} : At(p, k)
    <3>1. CASE Requests(p)
      <4>1. Head(todo[p]).how \notin {"conclude", "close", "receive-report"}
        BY <3>1 DEF Requests, Local
      <4> QED BY <4>1 DEF SemPlace
    <3>2. CASE ~Requests(p)
      BY <1>1, <3>2 DEF SemPlace, Associates, Discards, Begins, Posts, Takes
    <3> QED BY <3>1, <3>2
  <2> QED BY <2>2, <2>3, <2>4, <2>5, <2>6, <2>7 DEF SemPlace
<1>2. CASE Concludes(p)
  <2>1. todo'[p] = todo[p] /\ phase'[p] = "exit" /\ phase[p] = "ready"
    BY <1>2 DEF Concludes, Ended, SameScript
  <2>2. (Closed(p)' <=> Closed(p)) /\ \A k : At(p, k)' <=> At(p, k)
    BY <2>1 DEF Closed, At
  <2>3. IsSeq(lines'[p])
    <3>1. lines'[p] = lines[p] \o << >> \/ lines'[p] = lines[p] \o <<Line("conclude", TRUE, << >>)>>
      BY <1>2 DEF Concludes, Ended
    <3>2. IsSeq(lines[p]) /\ IsSeq(<< >>) /\ IsSeq(<<Line("conclude", TRUE, << >>)>>)
      BY SeqEmpty, SeqOne DEF SemPlace
    <3>3. IsSeq(lines[p] \o << >>) /\ IsSeq(lines[p] \o <<Line("conclude", TRUE, << >>)>>)
      BY <3>2, SeqConcat
    <3> QED BY <3>1, <3>3
  <2> QED BY <2>1, <2>2, <2>3 DEF SemPlace
<1>3. CASE \E a : Returned(p, a) /\ ReporterSees(p, a)
  <2>1. PICK a : Returned(p, a) /\ ReporterSees(p, a)
    BY <1>3
  <2>2. IsSeq(lines'[p])
    BY <2>1, LineSaid DEF ReporterSees, SemPlace
  <2>3. \E k \in {1, 2, 3, 5} : At(p, k)
    <3>1. phase[p] = "wait" \/ Head(todo[p]).how \notin {"conclude", "close", "receive-report"}
      BY <2>1 DEF Returned, Local
    <3> QED BY <3>1 DEF SemPlace
  <2>4. ASSUME NEW k \in {1, 2, 5}, At(p, k) PROVE SemPlace(p)'
    <3>1. phase'[p] = "ready"
      BY <2>1, <2>4 DEF ReporterSees
    <3>2. todo'[p] = From(Script(cast[p]), k + 1) \/ todo'[p] = <<Plain("close", NoName)>>
      BY <2>1, <2>4 DEF ReporterSees
    <3>3. At(p, k + 1)' \/ Closed(p)'
      BY <3>2 DEF At, Closed
    <3>4. ~At(p, 4)'
      <4>1. k + 1 \in {2, 3, 6}
        OBVIOUS
      <4>2. Head(todo'[p]).how # "receive-report"
        BY <3>3, <4>1, ReporterAtNext
      <4> QED BY <4>2, ReporterAtNext
    <3> QED BY <2>2, <3>1, <3>3, <3>4 DEF SemPlace
  <2>5. ASSUME At(p, 3) PROVE SemPlace(p)'
    <3>1. phase'[p] = "sem" /\ todo'[p] = From(Script(cast[p]), 4)
      BY <2>1, <2>5 DEF ReporterSees, Given
    <3>2. At(p, 4)'
      BY <3>1 DEF At
    <3> QED BY <2>2, <3>1, <3>2 DEF SemPlace
  <2> QED BY <2>3, <2>4, <2>5
<1>4. CASE Emits(p) \/ Expires(p)
  <2>1. At(p, 4) /\ phase'[p] = "ready" /\ todo'[p] = Tail(todo[p])
    BY <1>4 DEF Emits, Expires, SemPlace
  <2>2. At(p, 5)'
    BY <2>1 DEF At
  <2>3. ~At(p, 4)'
    BY <2>2, ReporterAtNext
  <2>4. IsSeq(lines'[p])
    BY <1>4, LineSaid DEF Emits, Expires, SemPlace
  <2> QED BY <2>1, <2>2, <2>3, <2>4 DEF SemPlace
<1> QED BY <1>1, <1>2, <1>3, <1>4, ReporterSteps

LEMMA WholeFrom ==
  ASSUME NEW s, IsSeq(s)
  PROVE  From(s, 1) = s
<1>1. PICK S : s \in Seq(S)
  BY DEF IsSeq
<1>2. Len(s) \in Nat
  BY <1>1
<1>3. /\ From(s, 1) \in Seq(S) /\ Len(From(s, 1)) = Len(s)
      /\ \A i \in 1 .. Len(s) : From(s, 1)[i] = s[i]
  BY <1>1, <1>2 DEF From
<1> QED BY <1>1, <1>3, SeqEqual

(* A program that ends says nothing but "conclude".                        *)
LEMMA EndSays ==
  ASSUME NEW p, Concludes(p), IsSeq(lines[p]), NEW op, op # "conclude"
  PROVE  Said(p, op)' <=> Said(p, op)
<1>1. CASE lines'[p] = lines[p] \o << >>
  <2>1. IsSeq(lines'[p]) /\ Len(lines'[p]) = Len(lines[p]) + 0 /\ Len(lines[p]) \in Nat
        /\ \A i \in 1 .. Len(lines[p]) : lines'[p][i] = lines[p][i]
    BY <1>1, SeqConcat, SeqEmpty, SeqLen
  <2>2. DOMAIN lines'[p] = 1 .. Len(lines[p]) /\ DOMAIN lines[p] = 1 .. Len(lines[p])
    BY <2>1, SeqLen
  <2> QED BY <2>1, <2>2 DEF Said, SaidAt
<1>2. CASE lines'[p] = lines[p] \o <<Line("conclude", TRUE, << >>)>>
  <2>1. lines'[p] = Append(lines[p], Line("conclude", TRUE, << >>))
    BY <1>2, SeqAppend
  <2>2. Line("conclude", TRUE, << >>).op = "conclude"
    BY DEF Line
  <2> QED BY <2>1, <2>2, LineSaid
<1> QED BY <1>1, <1>2 DEF Concludes, Ended

(* The answers that are behind the first PDU stay where they are.          *)
LEMMA TailEnds ==
  ASSUME NEW s, IsSeq(s), s # << >>, EndsAnswer(s), Tail(s) # << >>
  PROVE  EndsAnswer(Tail(s))
<1> DEFINE t == Tail(s)
<1>1. /\ IsSeq(t) /\ Len(t) = Len(s) - 1 /\ Len(s) \in Nat
      /\ \A i \in 1 .. Len(t) : t[i] = s[i + 1]
  BY SeqTail, SeqLen
<1>2. Len(t) # 0
  BY <1>1, SeqNil
<1> HIDE DEF t
<1>3. Len(t) \in 1 .. Len(t) /\ Len(t) + 1 = Len(s)
  BY <1>1, <1>2
<1>4. t[Len(t)].kind = "answer"
  BY <1>1, <1>3 DEF EndsAnswer
<1> QED BY <1>4 DEF EndsAnswer, t

LEMMA LastNotNil ==
  ASSUME NEW s, NEW a, IsSeq(s), LastIs(s, a)
  PROVE  s # << >>
<1> SUFFICES ASSUME s = << >> PROVE FALSE
  OBVIOUS
<1>1. Len(s) = 0
  BY SeqEmpty, SeqNil
<1> QED BY <1>1 DEF LastIs

LEMMA EndIsAnswer ==
  ASSUME NEW s, NEW x, IsSeq(s), x.kind = "answer"
  PROVE  EndsAnswer(Append(s, x))
BY Appended DEF EndsAnswer

-----------------------------------------------------------------------------

(* Only an answer to enable-rcb gives p the block.                         *)
RcbKept(p) == rcb'.owner = p /\ rcb.owner # p => asked[p] # << >> /\ Head(asked[p]).how = "enable-rcb"

(* The place of a reporter, by what it does next.                          *)
LEMMA OneThing ==
  ASSUME NEW p, cast[p].kind = "reporter"
  PROVE  /\ At(p, 6) \/ Closed(p) => ~At(p, 1) /\ ~At(p, 2) /\ ~At(p, 3) /\ ~At(p, 4) /\ ~At(p, 5)
         /\ At(p, 4) => ~At(p, 2)
         /\ At(p, 5) => ~At(p, 2) /\ ~Closed(p)
BY ReporterAt

LEMMA SemAliveStep ==
  ASSUME NEW p, cast[p].kind = "reporter", cast' = cast, SemPlace(p), SemAlive(p), OwnStep(p)
  PROVE  SemAlive(p)'
<1>1. CASE \/ Associates(p) \/ Requests(p) \/ Discards(p) \/ Begins(p) \/ Takes(p) \/ Concludes(p)
  <2>1. todo'[p] = todo[p] /\ alive'[p] = alive[p] /\ misused'[p] = misused[p]
    BY <1>1 DEF Associates, Requests, Discards, Begins, Takes, Concludes, Ended, SameScript, SameReports
  <2> QED BY <2>1 DEF SemAlive, At, Closed
<1>2. CASE Posts(p)
  <2>1. todo'[p] = todo[p] /\ alive'[p] = alive[p] /\ misused'[p] = (misused[p] \/ ~alive[p])
    BY <1>2 DEF Posts, SameScript
  <2> QED BY <2>1 DEF SemAlive, At, Closed
<1>3. CASE Emits(p) \/ Expires(p)
  <2>1. At(p, 4) /\ alive'[p] = alive[p] /\ misused'[p] = misused[p]
    BY <1>3 DEF Emits, Expires, SemPlace, SameReports
  <2>2. alive[p]
    BY <2>1, OneThing DEF SemAlive
  <2> QED BY <2>1, <2>2 DEF SemAlive
<1>4. CASE \E a : Returned(p, a) /\ ReporterSees(p, a)
  <2>1. PICK a : Returned(p, a) /\ ReporterSees(p, a)
    BY <1>4
  <2>2. \E k \in {1, 2, 3, 5} : At(p, k)
    <3>1. phase[p] = "wait" \/ Head(todo[p]).how \notin {"conclude", "close", "receive-report"}
      BY <2>1 DEF Returned, Local
    <3> QED BY <3>1, ReporterAt DEF SemPlace
  <2>3. alive[p] /\ ~misused[p] /\ misused'[p] = misused[p]
    BY <2>1, <2>2, OneThing DEF SemAlive, ReporterSees
  <2>4. ASSUME ~alive'[p] PROVE At(p, 6)' \/ Closed(p)'
    <3>1. SemDestroyed(Head(todo[p]), a.ok)
      BY <2>1, <2>3, <2>4 DEF ReporterSees
    <3>2. CASE ~Given(Head(todo[p]), a.ok)
      BY <2>1, <3>2 DEF ReporterSees, Closed
    <3>3. CASE Given(Head(todo[p]), a.ok)
      <4>1. Head(todo[p]).how = "disable-rcb"
        BY <3>1, <3>3 DEF SemDestroyed
      <4>2. At(p, 5)
        BY <2>2, <4>1, ReporterAt
      <4>3. todo'[p] = From(Script(cast[p]), 6)
        BY <2>1, <3>3, <4>2, ReporterAt DEF ReporterSees
      <4> QED BY <4>3 DEF At
    <3> QED BY <3>2, <3>3
  <2> QED BY <2>3, <2>4 DEF SemAlive
<1> QED BY <1>1, <1>2, <1>3, <1>4, ReporterSteps

LEMMA SemAskStep ==
  ASSUME NEW p, cast[p].kind = "reporter", cast' = cast, WireInv(p), SemPlace(p), SemAsk(p), OwnStep(p)
  PROVE  SemAsk(p)'
<1>1. CASE Associates(p) \/ Discards(p) \/ Begins(p) \/ Posts(p) \/ Takes(p)
  <2>1. todo'[p] = todo[p] /\ asked'[p] = asked[p]
    BY <1>1 DEF Associates, Discards, Begins, Posts, Takes, SameScript, SameWires
  <2> QED BY <2>1 DEF SemAsk, At, Closed
<1>2. CASE Concludes(p)
  <2>1. asked'[p] = << >>
    BY <1>2 DEF Concludes, Ended
  <2>2. Len(asked'[p]) = 0
    BY <2>1, SeqEmpty, SeqNil
  <2> QED BY <2>2 DEF SemAsk
<1>3. CASE Requests(p)
  <2>1. todo'[p] = todo[p] /\ asked'[p] = Append(asked[p], Req(p))
    BY <1>3 DEF Requests, SameScript
  <2>2. /\ Len(asked'[p]) = Len(asked[p]) + 1 /\ Len(asked[p]) \in Nat /\ asked'[p][Len(asked[p]) + 1] = Req(p)
        /\ \A i \in 1 .. Len(asked[p]) : asked'[p][i] = asked[p][i]
    BY <2>1, Appended, SeqLen DEF WireInv
  <2> SUFFICES ASSUME ~At(p, 2), ~Closed(p), NEW i \in 1 .. Len(asked'[p])
               PROVE  asked'[p][i].how # "enable-rcb"
    BY <2>1 DEF SemAsk, At, Closed
  <2>3. CASE i \in 1 .. Len(asked[p])
    BY <2>2, <2>3 DEF SemAsk
  <2>4. CASE i \notin 1 .. Len(asked[p])
    <3>1. i = Len(asked[p]) + 1
      BY <2>2, <2>4
    <3>2. Req(p).how = Head(todo[p]).how
      BY DEF Req
    <3>3. Head(todo[p]).how # "enable-rcb"
      BY ReporterAt DEF SemPlace
    <3> QED BY <2>2, <3>1, <3>2, <3>3
  <2> QED BY <2>3, <2>4
<1>4. CASE Emits(p) \/ Expires(p)
  <2>1. At(p, 4) /\ asked'[p] = asked[p]
    BY <1>4 DEF Emits, Expires, SemPlace, SameWires
  <2> QED BY <2>1, OneThing DEF SemAsk
<1>5. CASE \E a : Returned(p, a) /\ ReporterSees(p, a)
  <2>1. PICK a : Returned(p, a) /\ ReporterSees(p, a)
    BY <1>5
  <2>2. asked'[p] = asked[p]
    BY <2>1 DEF Returned
  <2>3. CASE ~At(p, 2) /\ ~Closed(p)
    BY <2>2, <2>3 DEF SemAsk
  <2>4. CASE Closed(p)
    <3>1. phase[p] = "wait" \/ Head(todo[p]).how # "close"
      BY <2>1 DEF Returned, Local
    <3>2. FALSE
      BY <2>4, <3>1, ReporterAt, OneThing DEF SemPlace
    <3> QED BY <3>2
  <2>5. CASE At(p, 2) /\ a.ok
    <3>1. asked[p] = << >>
      BY <2>1, <2>5, Taken DEF Returned, Awaiting, NoAnswer
    <3>2. Len(asked'[p]) = 0
      BY <2>2, <3>1, SeqEmpty, SeqNil
    <3> QED BY <3>2 DEF SemAsk
  <2>6. CASE At(p, 2) /\ ~a.ok
    <3>1. todo'[p] = <<Plain("close", NoName)>>
      BY <2>1, <2>6, ReporterAt DEF ReporterSees, Given
    <3> QED BY <3>1 DEF SemAsk, Closed
  <2> QED BY <2>3, <2>4, <2>5, <2>6
<1> QED BY <1>1, <1>2, <1>3, <1>4, <1>5, ReporterSteps

LEMMA SemGoneStep ==
  ASSUME NEW p, cast[p].kind = "reporter", cast' = cast, WireInv(p), SemGone(p), OwnStep(p), RcbKept(p), SemAsk(p)
  PROVE  SemGone(p)'
<1> SUFFICES ASSUME Awaiting(p)', At(p, 5)'
             PROVE  \E a : LastIs(pdus'[p], a) /\ (a.ok => rcb'.owner # p /\ EndsAnswer(pdus'[p]))
  BY DEF SemGone
<1>1. phase'[p] = "wait" /\ joined'[p] = "up" /\ asked'[p] = << >>
  BY DEF Awaiting
<1>2. CASE Requests(p)
  <2>1. asked'[p] # << >>
    BY <1>2, Appended DEF Requests, WireInv
  <2> QED BY <1>1, <2>1
<1>3. ASSUME Discards(p) \/ Begins(p) \/ Posts(p)
      PROVE  \E a : LastIs(pdus[p], a) /\ (a.ok => rcb.owner # p /\ EndsAnswer(pdus[p]))
  <2>1. phase[p] = "wait" /\ joined[p] = "up" /\ asked[p] = << >>
    BY <1>1, <1>3 DEF Discards, Begins, Posts, SameWires
  <2>2. At(p, 5)
    BY <1>3 DEF Discards, Begins, Posts, SameScript, At
  <2> QED BY <2>1, <2>2 DEF SemGone, Awaiting
<1>4. ASSUME Discards(p) \/ Begins(p), NEW a, LastIs(pdus[p], a),
             a.ok => rcb.owner # p /\ EndsAnswer(pdus[p])
      PROVE  LastIs(pdus'[p], a) /\ (a.ok => rcb'.owner # p /\ EndsAnswer(pdus'[p]))
  <2>1. pdus[p] # << >> /\ pdus'[p] = Tail(pdus[p]) /\ IsSeq(pdus[p]) /\ IsSeq(pdus'[p]) /\ rcb' = rcb
    BY <1>4, SeqTail DEF Discards, Begins, WireInv, SameIed, iedServer
  <2>2. Head(pdus[p]).kind # "answer" \/ Answers(pdus[p]) # 1
    <3>1. CASE Begins(p)
      BY <3>1 DEF Begins
    <3>2. CASE Discards(p)
      <4>1. Answers(pdus[p]) + Len(asked[p]) = late[p] + 1 /\ Len(asked[p]) = 0 /\ late[p] > 0
        <5>1. phase[p] = "wait" /\ joined[p] = "up" /\ asked[p] = << >> /\ late[p] > 0
          BY <1>1, <3>2 DEF Discards
        <5>2. Len(asked[p]) = 0
          BY <5>1, SeqEmpty, SeqNil
        <5> QED BY <5>1, <5>2 DEF WireInv, Waiting
      <4>2. Answers(pdus[p]) \in Nat /\ late[p] \in Nat
        BY WireNumbers
      <4> QED BY <4>1, <4>2
    <3> QED BY <1>4, <3>1, <3>2
  <2>3. LastIs(Tail(pdus[p]), a)
    BY <1>4, <2>1, <2>2, TailKeepsLast
  <2>4. Tail(pdus[p]) # << >>
    BY <2>1, <2>3, LastNotNil
  <2>5. EndsAnswer(pdus[p]) => EndsAnswer(Tail(pdus[p]))
    BY <2>1, <2>4, TailEnds
  <2> QED BY <1>4, <2>1, <2>3, <2>5
<1>5. CASE Discards(p) \/ Begins(p)
  <2>1. PICK a : LastIs(pdus[p], a) /\ (a.ok => rcb.owner # p /\ EndsAnswer(pdus[p]))
    BY <1>3, <1>5
  <2>2. LastIs(pdus'[p], a) /\ (a.ok => rcb'.owner # p /\ EndsAnswer(pdus'[p]))
    BY <1>4, <1>5, <2>1
  <2> QED BY <2>2
<1>6. CASE Posts(p)
  <2>1. pdus'[p] = pdus[p] /\ rcb' = rcb
    BY <1>6 DEF Posts, SameWires, SameIed, iedServer
  <2> QED BY <1>3, <1>6, <2>1
<1>7. CASE Associates(p) \/ Concludes(p) \/ Takes(p) \/ Emits(p) \/ Expires(p)
           \/ \E a : Returned(p, a) /\ ReporterSees(p, a)
  <2>1. phase'[p] # "wait"
    BY <1>7 DEF Associates, Concludes, Ended, Takes, Emits, Expires, ReporterSees
  <2> QED BY <1>1, <2>1
<1> QED BY <1>2, <1>5, <1>6, <1>7, ReporterSteps

SemDoneBody(p) ==
  /\ At(p, 6) /\ rcb.owner # p /\ asked[p] = << >> /\ pdus[p] = << >>
  /\ cb[p] = NoReport /\ ~misused[p] /\ phase[p] \in {"ready", "exit"}

LEMMA SemDoneStep ==
  ASSUME NEW p, cast[p].kind = "reporter", cast' = cast, WireInv(p), OwnStep(p),
         SemPlace(p), SemAlive(p), SemGone(p), SemDone(p), rcb.owner # p /\ At(p, 6) => rcb'.owner # p
  PROVE  SemDone(p)'
<1>1. CASE Said(p, "disable-rcb")
  <2>1. /\ At(p, 6) /\ rcb'.owner # p /\ asked[p] = << >> /\ pdus[p] = << >>
        /\ cb[p] = NoReport /\ ~misused[p] /\ phase[p] \in {"ready", "exit"}
    BY <1>1 DEF SemDone
  <2>2. Head(todo[p]).how = "conclude"
    BY <2>1, ReporterAt
  <2>3. CASE Concludes(p)
    <3>1. todo'[p] = todo[p] /\ asked'[p] = << >> /\ pdus'[p] = << >> /\ phase'[p] = "exit"
          /\ cb'[p] = cb[p] /\ misused'[p] = misused[p]
      BY <2>3 DEF Concludes, Ended, SameScript, SameReports
    <3> QED BY <2>1, <3>1 DEF SemDone, At
  <2>4. ~Associates(p) /\ ~Discards(p) /\ ~Begins(p) /\ ~Posts(p) /\ ~Takes(p) /\ ~Emits(p) /\ ~Expires(p)
    BY <2>1 DEF Associates, Discards, Begins, Posts, Takes, Emits, Expires
  <2>5. ~Requests(p)
    BY <2>2 DEF Requests, Local
  <2>6. ASSUME NEW a, Returned(p, a), ReporterSees(p, a) PROVE FALSE
    BY <2>1, <2>2, <2>6 DEF Returned, Local
  <2> QED BY <2>3, <2>4, <2>5, <2>6, ReporterSteps
<1>2. CASE ~Said(p, "disable-rcb")
  <2>1. CASE Associates(p) \/ Requests(p) \/ Discards(p) \/ Begins(p) \/ Posts(p) \/ Takes(p)
    <3>1. lines'[p] = lines[p]
      BY <2>1 DEF Associates, Requests, Discards, Begins, Posts, Takes, SameLines
    <3> QED BY <1>2, <3>1 DEF SemDone, Said, SaidAt
  <2>2. CASE Concludes(p)
    BY <1>2, <2>2, EndSays DEF SemDone, SemPlace
  <2>3. CASE Emits(p) \/ Expires(p)
    <3>1. PICK l : lines'[p] = Append(lines[p], l) /\ l.op = "receive-report"
      BY <2>3 DEF Emits, Expires, ReportLine, Line
    <3>2. Said(p, "disable-rcb")' <=> Said(p, "disable-rcb")
      BY <3>1, LineSaid DEF SemPlace
    <3> QED BY <1>2, <3>2 DEF SemDone
  <2>4. ASSUME NEW a, Returned(p, a), ReporterSees(p, a), Said(p, "disable-rcb")'
        PROVE  SemDoneBody(p)'
    <3> DEFINE o == Head(todo[p])
    <3>1. lines'[p] = Append(lines[p], Line(o.how, a.ok, a.value))
      BY <2>4 DEF ReporterSees
    <3>2. Line(o.how, a.ok, a.value).op = o.how /\ Line(o.how, a.ok, a.value).ok = a.ok
      BY DEF Line
    <3>3. o.how = "disable-rcb" /\ a.ok
      BY <1>2, <2>4, <3>1, <3>2, LineSaid DEF SemPlace
    <3>4. At(p, 5)
      <4>1. phase[p] = "wait" => \E k \in {1, 2, 3, 5} : At(p, k)
        BY DEF SemPlace
      <4>2. Closed(p) \/ \E k \in 1 .. 6 : At(p, k)
        BY DEF SemPlace
      <4> QED BY <3>3, <4>2, ReporterAt
    <3>5. /\ phase[p] = "wait" /\ late[p] = 0 /\ pdus[p] # << >> /\ Head(pdus[p]).kind = "answer"
          /\ a = Head(pdus[p]) /\ pdus'[p] = Tail(pdus[p])
      BY <2>4, <3>3 DEF Returned, NoAnswer
    <3>6. Awaiting(p) /\ Answers(pdus[p]) = 1 /\ \A b : LastIs(pdus[p], b) => b = a
      BY <3>5, Taken
    <3>7. rcb.owner # p /\ EndsAnswer(pdus[p])
      BY <3>3, <3>4, <3>6 DEF SemGone
    <3>8. pdus'[p] = << >>
      BY <3>5, <3>6, <3>7, OnlyAnswer DEF WireInv
    <3>9. asked'[p] = << >>
      BY <2>4, <3>6 DEF Awaiting, Returned
    <3>10. ~misused'[p]
      <4>1. alive[p]
        BY <3>4, OneThing DEF SemAlive
      <4> QED BY <2>4, <4>1 DEF SemAlive, ReporterSees
    <3>11. cb'[p] = NoReport /\ phase'[p] = "ready"
      BY <2>4, <3>3 DEF ReporterSees
    <3>12. At(p, 6)'
      <4>1. todo'[p] = Tail(todo[p])
        BY <2>4, <3>3 DEF ReporterSees, Given
      <4> QED BY <3>4, <4>1, ReporterAt DEF At
    <3>13. rcb'.owner # p
      BY <2>4, <3>7 DEF Returned, iedServer
    <3> QED BY <3>8, <3>9, <3>10, <3>11, <3>12, <3>13 DEF SemDoneBody
  <2>5. CASE \E a : Returned(p, a) /\ ReporterSees(p, a)
    BY <2>4, <2>5 DEF SemDone, SemDoneBody
  <2> QED BY <2>1, <2>2, <2>3, <2>5, ReporterSteps
<1> QED BY <1>1, <1>2

(* The server, and what interferes.                                        *)
LEMMA SemHold ==
  ASSUME NEW p, cast[p].kind = "reporter", cast' = cast, Alone(p) \/ Performs(p) \/ Notified(p) \/ Loses(p),
         WireInv(p), SemInv(p)
  PROVE  SemPlace(p)' /\ SemAlive(p)' /\ SemAsk(p)'
<1>1. /\ phase'[p] = phase[p] /\ todo'[p] = todo[p] /\ lines'[p] = lines[p]
      /\ alive'[p] = alive[p] /\ misused'[p] = misused[p]
  BY DEF Alone, Performs, Notified, Loses, SameScript, SameLines, SameReports
<1>2. SemPlace(p)'
  BY <1>1 DEF SemInv, SemPlace, At, Closed
<1>3. SemAlive(p)'
  BY <1>1 DEF SemInv, SemAlive, At, Closed
<1>4. SemAsk(p)'
  <2> SUFFICES ASSUME ~At(p, 2), ~Closed(p), NEW i \in 1 .. Len(asked'[p])
               PROVE  asked'[p][i].how # "enable-rcb"
    BY <1>1 DEF SemAsk, At, Closed
  <2>0. \A j \in 1 .. Len(asked[p]) : asked[p][j].how # "enable-rcb"
    BY DEF SemInv, SemAsk
  <2>1. CASE Alone(p) \/ Notified(p)
    BY <2>0, <2>1 DEF Alone, Notified, SameWires
  <2>2. CASE Loses(p)
    <3>1. Len(asked'[p]) = 0
      BY <2>2, SeqEmpty, SeqNil DEF Loses
    <3> QED BY <3>1
  <2>3. CASE Performs(p)
    <3>1. /\ Len(Tail(asked[p])) = Len(asked[p]) - 1 /\ Len(asked[p]) \in Nat
          /\ \A j \in 1 .. Len(Tail(asked[p])) : Tail(asked[p])[j] = asked[p][j + 1]
      BY <2>3, SeqTail, SeqLen DEF Performs, WireInv
    <3>2. asked'[p] = Tail(asked[p])
      BY <2>3 DEF Performs
    <3>3. i + 1 \in 1 .. Len(asked[p])
      BY <3>1, <3>2
    <3> QED BY <2>0, <3>1, <3>2, <3>3
  <2> QED BY <2>1, <2>2, <2>3
<1> QED BY <1>2, <1>3, <1>4

(* The enable-rcb of p is not among its requests, so the block is not its. *)
LEMMA NotItsBlock ==
  ASSUME NEW p, RcbKept(p), WireInv(p), SemAsk(p), ~At(p, 2), ~Closed(p), rcb.owner # p
  PROVE  rcb'.owner # p
<1> SUFFICES ASSUME rcb'.owner = p PROVE FALSE
  OBVIOUS
<1>1. asked[p] # << >> /\ Head(asked[p]).how = "enable-rcb"
  BY DEF RcbKept
<1>2. Len(asked[p]) \in Nat /\ Len(asked[p]) # 0 /\ asked[p][1] = Head(asked[p])
  BY <1>1, SeqTail, SeqLen, SeqNil DEF WireInv
<1>3. 1 \in 1 .. Len(asked[p])
  BY <1>2
<1> QED BY <1>1, <1>2, <1>3 DEF SemAsk

LEMMA SemGoneHold ==
  ASSUME NEW p, cast[p].kind = "reporter", cast' = cast, Alone(p) \/ Performs(p) \/ Notified(p) \/ Loses(p),
         WireInv(p), AskInv(p), SemInv(p), RcbKept(p), p # Nobody
  PROVE  SemGone(p)'
<1> SUFFICES ASSUME Awaiting(p)', At(p, 5)'
             PROVE  \E a : LastIs(pdus'[p], a) /\ (a.ok => rcb'.owner # p /\ EndsAnswer(pdus'[p]))
  BY DEF SemGone
<1>1. todo'[p] = todo[p] /\ phase'[p] = "wait" /\ joined'[p] = "up" /\ asked'[p] = << >> /\ phase[p] = "wait"
  BY DEF Awaiting, Alone, Performs, Notified, Loses, SameScript
<1>2. At(p, 5) /\ ~At(p, 2) /\ ~Closed(p)
  <2>1. At(p, 5)
    BY <1>1 DEF At
  <2> QED BY <2>1, OneThing
<1>3. CASE Alone(p) \/ Notified(p)
  <2>1. Awaiting(p)
    BY <1>1, <1>3 DEF Alone, Notified, SameWires, Awaiting
  <2>2. PICK a : LastIs(pdus[p], a) /\ (a.ok => rcb.owner # p /\ EndsAnswer(pdus[p]))
    BY <1>2, <2>1 DEF SemInv, SemGone
  <2>3. CASE Alone(p)
    <3>1. pdus'[p] = pdus[p]
      BY <2>3 DEF Alone, SameWires
    <3>2. rcb.owner # p => rcb'.owner # p
      BY <1>2, NotItsBlock DEF SemInv
    <3> QED BY <2>2, <3>1, <3>2
  <2>4. CASE Notified(p)
    <3>1. rcb.owner = p
      BY <2>4 DEF Notified
    <3>2. ~a.ok
      BY <2>2, <3>1
    <3>3. LastIs(pdus'[p], a)
      BY <2>1, <2>2, <2>4, NotifiedWires DEF Awaiting
    <3> QED BY <3>2, <3>3
  <2> QED BY <1>3, <2>3, <2>4
<1>4. CASE Performs(p)
  <2>1. LastIs(pdus'[p], Done1(p)) /\ Head(asked[p]) = Req(p)
    BY <1>1, <1>4, PerformsWires
  <2>2. Head(asked[p]).how = "disable-rcb"
    BY <1>2, <2>1, ReporterAt DEF Req
  <2>3. ASSUME Done1(p).ok PROVE rcb'.owner # p
    <3>1. rcb' = RcbAfter(p, Head(asked[p]))
      BY <1>4, <2>3 DEF Performs, Done1
    <3>2. rcb' = [rcb EXCEPT !.owner = Nobody, !.changed = {}]
      BY <2>2, <3>1 DEF RcbAfter
    <3> QED BY <3>2
  <2>4. EndsAnswer(pdus'[p])
    BY <1>4, EndIsAnswer DEF Performs, WireInv, Done1
  <2> QED BY <2>1, <2>3, <2>4
<1>5. CASE Loses(p)
  BY <1>1, <1>5 DEF Loses
<1> QED BY <1>3, <1>4, <1>5

LEMMA SemDoneHold ==
  ASSUME NEW p, cast[p].kind = "reporter", cast' = cast, Alone(p) \/ Performs(p) \/ Notified(p) \/ Loses(p),
         SemInv(p), rcb.owner # p /\ At(p, 6) => rcb'.owner # p
  PROVE  SemDone(p)'
<1> SUFFICES ASSUME Said(p, "disable-rcb")'
             PROVE  SemDoneBody(p)'
  BY DEF SemDone, SemDoneBody
<1>1. /\ phase'[p] = phase[p] /\ todo'[p] = todo[p] /\ lines'[p] = lines[p] /\ cb'[p] = cb[p]
      /\ misused'[p] = misused[p]
  BY DEF Alone, Performs, Notified, Loses, SameScript, SameLines, SameReports
<1>2. SemDoneBody(p)
  BY <1>1 DEF Said, SaidAt, SemInv, SemDone, SemDoneBody
<1>3. Alone(p) \/ Loses(p)
  BY <1>2 DEF SemDoneBody, Performs, Notified
<1>4. asked'[p] = << >> /\ pdus'[p] = << >>
  BY <1>2, <1>3 DEF SemDoneBody, Alone, Loses, SameWires
<1> QED BY <1>1, <1>2, <1>4 DEF SemDoneBody, At

SemaphoreInv == BaseInv /\ \A p \in Of("reporter") : SemInv(p)

LEMMA SemaphoreInit == ASSUME IedInit PROVE SemaphoreInv
<1>1. ASSUME NEW p \in Of("reporter") PROVE SemInv(p)
  <2>1. p \in Procs /\ cast[p].kind = "reporter"
    BY <1>1 DEF Of
  <2>2. /\ asked[p] = << >> /\ pdus[p] = << >> /\ phase[p] = "new" /\ lines[p] = << >>
        /\ todo[p] = Script(cast[p]) /\ alive[p] = TRUE /\ misused[p] = FALSE
    BY <2>1 DEF IedInit, IedServerInit, ProgramInit, ReporterInit
  <2>3. At(p, 1)
    BY <2>1, <2>2, ReporterOps, WholeFrom DEF At
  <2>4. ~At(p, 4)
    BY <2>1, <2>3, ReporterAt
  <2>5. SemPlace(p)
    BY <2>2, <2>3, <2>4, SeqEmpty DEF SemPlace
  <2>6. SemAlive(p)
    BY <2>2 DEF SemAlive
  <2>7. SemAsk(p) /\ SemGone(p)
    <3>1. Len(asked[p]) = 0
      BY <2>2, SeqEmpty, SeqNil
    <3> QED BY <2>2, <3>1 DEF SemAsk, SemGone, Awaiting
  <2>8. SemDone(p)
    <3>1. DOMAIN lines[p] = {}
      <4>1. Len(lines[p]) = 0 /\ IsSeq(lines[p])
        BY <2>2, SeqEmpty, SeqNil
      <4> QED BY <4>1, SeqLen
    <3> QED BY <3>1 DEF SemDone, Said, SaidAt
  <2> QED BY <2>5, <2>6, <2>7, <2>8 DEF SemInv
<1> QED BY <1>1, BaseInit DEF SemaphoreInv

LEMMA SemaphoreStep ==
  ASSUME SemaphoreInv, [IedNext]_iedVars
  PROVE  SemaphoreInv'
<1>1. BaseInv /\ BaseInv' /\ cast' = cast /\ Of("reporter")' = Of("reporter")
  BY BaseStep, CastKept DEF SemaphoreInv, Of
<1>2. ASSUME NEW p \in Of("reporter") PROVE SemInv(p)'
  <2>1. p \in Procs /\ cast[p].kind = "reporter" /\ p # Nobody
    BY <1>1, <1>2, ProcNames DEF Of, BaseInv
  <2>2. SemInv(p) /\ WireInv(p) /\ AskInv(p)
    BY <1>1, <1>2, <2>1 DEF SemaphoreInv, BaseInv
  <2>3. Alone(p) \/ OwnStep(p) \/ Performs(p) \/ Notified(p) \/ Loses(p)
    BY <1>1, <2>1, IedMoves DEF BaseInv
  <2>4. RcbKept(p)
    BY <1>1, <2>1, RcbMoves DEF RcbKept
  <2>5. rcb.owner # p /\ At(p, 6) => rcb'.owner # p
    <3>1. At(p, 6) => ~At(p, 2) /\ ~Closed(p)
      BY <2>1, ReporterAt
    <3>2. SemAsk(p)
      BY <2>2 DEF SemInv
    <3> QED BY <2>2, <2>4, <3>1, <3>2, NotItsBlock
  <2>6. CASE OwnStep(p)
    <3>1. SemPlace(p)'
      BY <1>1, <2>1, <2>2, <2>6, SemPlaceStep DEF SemInv
    <3>2. SemAlive(p)'
      BY <1>1, <2>1, <2>2, <2>6, SemAliveStep DEF SemInv
    <3>3. SemAsk(p)'
      BY <1>1, <2>1, <2>2, <2>6, SemAskStep DEF SemInv
    <3>4. SemGone(p)'
      BY <1>1, <2>1, <2>2, <2>4, <2>6, SemGoneStep DEF SemInv
    <3>5. SemDone(p)'
      BY <1>1, <2>1, <2>2, <2>5, <2>6, SemDoneStep DEF SemInv
    <3> QED BY <3>1, <3>2, <3>3, <3>4, <3>5 DEF SemInv
  <2>7. CASE Alone(p) \/ Performs(p) \/ Notified(p) \/ Loses(p)
    <3>1. SemPlace(p)' /\ SemAlive(p)' /\ SemAsk(p)'
      BY <1>1, <2>1, <2>2, <2>7, SemHold
    <3>2. SemGone(p)'
      BY <1>1, <2>1, <2>2, <2>4, <2>7, SemGoneHold
    <3>3. SemDone(p)'
      BY <1>1, <2>1, <2>2, <2>5, <2>7, SemDoneHold
    <3> QED BY <3>1, <3>2, <3>3 DEF SemInv
  <2> QED BY <2>3, <2>6, <2>7
<1> QED BY <1>1, <1>2 DEF SemaphoreInv

(* reportCallback does not post the semaphore that main has destroyed once *)
(* disable-rcb was answered: the block is gone before that answer, and the *)
(* reports sent before it are handled first.                               *)
THEOREM SemaphoresAlive == IedSpec => []SemaphoreAlive
<1>1. IedInit => SemaphoreInv
  BY SemaphoreInit
<1>2. SemaphoreInv /\ [IedNext]_iedVars => SemaphoreInv'
  BY SemaphoreStep
<1>3. SemaphoreInv => SemaphoreAlive
  BY DEF SemaphoreInv, SemaphoreAlive, SemInv, SemDone
<1> QED BY <1>1, <1>2, <1>3, PTL DEF IedSpec

-----------------------------------------------------------------------------
(* The scripts, and where the programs are in theirs.                      *)

(* Of the data set only SPS1 and Mod are written, and Mod becomes 5.       *)
OpSound(q) ==
  /\ q.how = "write" => q.on = "SPS1" \/ (q.on = "Mod" /\ q.val = 5)
  /\ q.how = "operate" => q.on \in {"SPCSO1", "SPCSO2", "SPCSO3"}

LEMMA ClientOps ==
  ASSUME NEW r, r.kind = "client"
  PROVE  /\ IsSeq(Script(r)) /\ Len(Script(r)) = 12
         /\ Script(r)[1].how = "get-server-directory" /\ Script(r)[2].how = "get-ld-directory"
         /\ Script(r)[3].how = "get-ln-directory"
         /\ \A k \in 4 .. 9 :
              Script(r)[k].how = "read" /\ Script(r)[k].on \in {"SPS1", "TotW", "DPS1", "TotVAh", "ModCtl", "ModD"}
         /\ Script(r)[10] = Op("write", "Mod", 5, 0) /\ Script(r)[11].how = "read-dataset"
         /\ Script(r)[12].how = "conclude"
<1>1. Script(r) = ClientScript
  BY DEF Script
<1>2. IsSeq(ClientScript)
  <2>1. ClientScript \in Seq({Op(h, n, v, 0) : h \in {"get-server-directory", "get-ld-directory",
          "get-ln-directory", "read", "write", "read-dataset", "conclude"},
          n \in {NoName, "GGIO1", "SPS1", "TotW", "DPS1", "TotVAh", "ModCtl", "ModD", "Mod", "dsInterop"},
          v \in {FALSE, 5}})
    BY DEF ClientScript, Plain
  <2> QED BY <2>1 DEF IsSeq
<1>3. Len(ClientScript) = 12
  BY DEF ClientScript
<1>4. /\ ClientScript[1].how = "get-server-directory" /\ ClientScript[2].how = "get-ld-directory"
      /\ ClientScript[3].how = "get-ln-directory"
      /\ ClientScript[10] = Op("write", "Mod", 5, 0) /\ ClientScript[11].how = "read-dataset"
      /\ ClientScript[12].how = "conclude"
  BY DEF ClientScript, Plain, Op
<1>5. /\ ClientScript[4] = Plain("read", "SPS1") /\ ClientScript[5] = Plain("read", "TotW")
      /\ ClientScript[6] = Plain("read", "DPS1") /\ ClientScript[7] = Plain("read", "TotVAh")
      /\ ClientScript[8] = Plain("read", "ModCtl") /\ ClientScript[9] = Plain("read", "ModD")
  BY DEF ClientScript
<1>6. ASSUME NEW k \in 4 .. 9
      PROVE  ClientScript[k].how = "read" /\ ClientScript[k].on \in {"SPS1", "TotW", "DPS1", "TotVAh", "ModCtl", "ModD"}
  <2>1. k = 4 \/ k = 5 \/ k = 6 \/ k = 7 \/ k = 8 \/ k = 9
    OBVIOUS
  <2> QED BY <1>5, <2>1 DEF Plain, Op
<1> QED BY <1>1, <1>2, <1>3, <1>4, <1>6

ScriptOf(w, s, t, u) ==
  /\ IsSeq(w) /\ Len(w) = Len(s) + Len(t) + Len(u)
  /\ \A i \in 1 .. Len(s) : w[i] = s[i]
  /\ \A i \in 1 .. Len(t) : w[Len(s) + i] = t[i]
  /\ \A i \in 1 .. Len(u) : w[(Len(s) + Len(t)) + i] = u[i]

LEMMA ThreeParts ==
  ASSUME NEW s, NEW t, NEW u, IsSeq(s), IsSeq(t), IsSeq(u)
  PROVE  ScriptOf(s \o t \o u, s, t, u)
<1> DEFINE v == s \o t
<1>1. /\ IsSeq(v) /\ Len(v) = Len(s) + Len(t)
      /\ \A i \in 1 .. Len(s) : v[i] = s[i]
      /\ \A i \in 1 .. Len(t) : v[Len(s) + i] = t[i]
  BY SeqConcat
<1> HIDE DEF v
<1> DEFINE w == v \o u
<1>2. /\ IsSeq(w) /\ Len(w) = Len(v) + Len(u)
      /\ \A i \in 1 .. Len(v) : w[i] = v[i]
      /\ \A i \in 1 .. Len(u) : w[Len(v) + i] = u[i]
  <2>1. IsSeq(v) /\ IsSeq(u)
    BY <1>1
  <2>2. IsSeq(w)
    BY <2>1, SeqConcat
  <2>3. Len(w) = Len(v) + Len(u)
    BY <2>1, SeqConcat
  <2>4. \A i \in 1 .. Len(v) : w[i] = v[i]
    BY <2>1, SeqConcat
  <2>5. \A i \in 1 .. Len(u) : w[Len(v) + i] = u[i]
    BY <2>1, SeqConcat
  <2> QED BY <2>2, <2>3, <2>4, <2>5
<1> HIDE DEF w
<1>3. Len(s) \in Nat /\ Len(t) \in Nat /\ Len(u) \in Nat
  BY SeqLen
<1>4. \A i \in 1 .. Len(s) : w[i] = s[i]
  <2>1. \A i \in 1 .. Len(s) : i \in 1 .. Len(v)
    BY <1>1, <1>3
  <2> QED BY <1>1, <1>2, <2>1
<1>5. \A i \in 1 .. Len(t) : w[Len(s) + i] = t[i]
  <2>1. \A i \in 1 .. Len(t) : Len(s) + i \in 1 .. Len(v)
    BY <1>1, <1>3
  <2> QED BY <1>1, <1>2, <2>1
<1>6. ScriptOf(w, s, t, u)
  BY <1>1, <1>2, <1>4, <1>5 DEF ScriptOf
<1> QED BY <1>6 DEF v, w

LEMMA Pair ==
  ASSUME NEW a, NEW b
  PROVE  IsSeq(<<a, b>>) /\ Len(<<a, b>>) = 2 /\ <<a, b>>[1] = a /\ <<a, b>>[2] = b
<1>1. <<a, b>> \in Seq({a, b})
  OBVIOUS
<1> QED BY <1>1 DEF IsSeq

LEMMA ControllerOps ==
  ASSUME NEW r, r.kind = "controller", r.on \in {"SPCSO1", "SPCSO2", "SPCSO3"}
  PROVE  /\ IsSeq(Script(r)) /\ Script(r)[1] = Plain("read-ctlmodel", r.on)
         /\ r.on = "SPCSO1" =>
              /\ Len(Script(r)) = 4 /\ Script(r)[2] = Op("operate", r.on, r.arg, 0)
              /\ Script(r)[3] = Plain("read", r.on) /\ Script(r)[4] = Plain("conclude", NoName)
         /\ r.on = "SPCSO2" =>
              /\ Script(r)[2] = Op("select", r.on, FALSE, 0) /\ Script(r)[3] = Op("operate", r.on, r.arg, 0)
         /\ r.on = "SPCSO3" =>
              /\ Script(r)[2] = Op("select-with-value", r.on, r.arg, 1)
              /\ Script(r)[3] = Op("operate", r.on, r.arg, 1)
         /\ r.on # "SPCSO1" =>
              /\ Len(Script(r)) = 5
              /\ Script(r)[4] = Plain("read", r.on) /\ Script(r)[5] = Plain("conclude", NoName)
<1> DEFINE A == <<Plain("read-ctlmodel", r.on)>>
           C == <<Plain("read", r.on), Plain("conclude", NoName)>>
           B1 == <<Op("operate", r.on, r.arg, 0)>>
           B2 == <<Op("select", r.on, FALSE, 0), Op("operate", r.on, r.arg, 0)>>
           B3 == <<Op("select-with-value", r.on, r.arg, 1), Op("operate", r.on, r.arg, 1)>>
<1>1. IsSeq(A) /\ Len(A) = 1 /\ A[1] = Plain("read-ctlmodel", r.on)
  BY SeqOne
<1>2. IsSeq(C) /\ Len(C) = 2 /\ C[1] = Plain("read", r.on) /\ C[2] = Plain("conclude", NoName)
  BY Pair
<1>3. IsSeq(B1) /\ Len(B1) = 1 /\ B1[1] = Op("operate", r.on, r.arg, 0)
  BY SeqOne
<1>4. /\ IsSeq(B2) /\ Len(B2) = 2
      /\ B2[1] = Op("select", r.on, FALSE, 0) /\ B2[2] = Op("operate", r.on, r.arg, 0)
  BY Pair
<1>5. /\ IsSeq(B3) /\ Len(B3) = 2
      /\ B3[1] = Op("select-with-value", r.on, r.arg, 1) /\ B3[2] = Op("operate", r.on, r.arg, 1)
  BY Pair
<1>6. ControllerScript(r) = A \o (CASE expected_ctlmodel[r.on] = 1 -> B1
                                    [] expected_ctlmodel[r.on] = 2 -> B2
                                    [] OTHER -> B3) \o C
  BY DEF ControllerScript, op_read_ctlmodel, op_operate, op_select, op_select_with_value, op_read_stval
<1> HIDE DEF A, B1, B2, B3, C
<1>7. /\ r.on = "SPCSO1" => Script(r) = A \o B1 \o C
      /\ r.on = "SPCSO2" => Script(r) = A \o B2 \o C
      /\ r.on = "SPCSO3" => Script(r) = A \o B3 \o C
  <2>1. Script(r) = ControllerScript(r)
    BY DEF Script
  <2>2. /\ r.on = "SPCSO1" => expected_ctlmodel[r.on] = 1
        /\ r.on = "SPCSO2" => expected_ctlmodel[r.on] = 2
        /\ r.on = "SPCSO3" => expected_ctlmodel[r.on] = 4
    BY DEF expected_ctlmodel
  <2>3. expected_ctlmodel[r.on] = 4 => expected_ctlmodel[r.on] # 1 /\ expected_ctlmodel[r.on] # 2
    OBVIOUS
  <2>4. expected_ctlmodel[r.on] = 2 => expected_ctlmodel[r.on] # 1
    OBVIOUS
  <2> DEFINE B == CASE expected_ctlmodel[r.on] = 1 -> B1 [] expected_ctlmodel[r.on] = 2 -> B2 [] OTHER -> B3
  <2>5. r.on = "SPCSO1" => B = B1
    BY <2>2
  <2>6. r.on = "SPCSO2" => B = B2
    BY <2>2, <2>4
  <2>7. r.on = "SPCSO3" => B = B3
    BY <2>2, <2>3
  <2>8. Script(r) = A \o B \o C
    BY <1>6, <2>1
  <2> HIDE DEF B
  <2> QED BY <2>5, <2>6, <2>7, <2>8, Zenon
<1>8. CASE r.on = "SPCSO1"
  <2> DEFINE s == A \o B1 \o C
  <2>1. /\ IsSeq(s) /\ Len(s) = (1 + 1) + 2
        /\ (\A i \in 1 .. 1 : s[i] = A[i]) /\ (\A i \in 1 .. 1 : s[1 + i] = B1[i])
        /\ \A i \in 1 .. 2 : s[(1 + 1) + i] = C[i]
    <3>1. ScriptOf(s, A, B1, C)
      BY <1>1, <1>2, <1>3, ThreeParts
    <3> HIDE DEF s
    <3>2. Len(A) = 1 /\ Len(B1) = 1 /\ Len(C) = 2
      BY <1>1, <1>2, <1>3
    <3> QED BY <3>1, <3>2 DEF ScriptOf
  <2> HIDE DEF s
  <2>2. Len(s) = 4 /\ s[1] = A[1] /\ s[2] = B1[1] /\ s[3] = C[1] /\ s[4] = C[2]
    BY <2>1
  <2> QED BY <1>1, <1>2, <1>3, <1>7, <1>8, <2>1, <2>2 DEF s
<1>9. CASE r.on = "SPCSO2"
  <2> DEFINE s == A \o B2 \o C
  <2>1. /\ IsSeq(s) /\ Len(s) = (1 + 2) + 2
        /\ (\A i \in 1 .. 1 : s[i] = A[i]) /\ (\A i \in 1 .. 2 : s[1 + i] = B2[i])
        /\ \A i \in 1 .. 2 : s[(1 + 2) + i] = C[i]
    <3>1. ScriptOf(s, A, B2, C)
      BY <1>1, <1>2, <1>4, ThreeParts
    <3> HIDE DEF s
    <3>2. Len(A) = 1 /\ Len(B2) = 2 /\ Len(C) = 2
      BY <1>1, <1>2, <1>4
    <3> QED BY <3>1, <3>2 DEF ScriptOf
  <2> HIDE DEF s
  <2>2. Len(s) = 5 /\ s[1] = A[1] /\ s[2] = B2[1] /\ s[3] = B2[2] /\ s[4] = C[1] /\ s[5] = C[2]
    BY <2>1
  <2> QED BY <1>1, <1>2, <1>4, <1>7, <1>9, <2>1, <2>2 DEF s
<1>10. CASE r.on = "SPCSO3"
  <2> DEFINE s == A \o B3 \o C
  <2>1. /\ IsSeq(s) /\ Len(s) = (1 + 2) + 2
        /\ (\A i \in 1 .. 1 : s[i] = A[i]) /\ (\A i \in 1 .. 2 : s[1 + i] = B3[i])
        /\ \A i \in 1 .. 2 : s[(1 + 2) + i] = C[i]
    <3>1. ScriptOf(s, A, B3, C)
      BY <1>1, <1>2, <1>5, ThreeParts
    <3> HIDE DEF s
    <3>2. Len(A) = 1 /\ Len(B3) = 2 /\ Len(C) = 2
      BY <1>1, <1>2, <1>5
    <3> QED BY <3>1, <3>2 DEF ScriptOf
  <2> HIDE DEF s
  <2>2. Len(s) = 5 /\ s[1] = A[1] /\ s[2] = B3[1] /\ s[3] = B3[2] /\ s[4] = C[1] /\ s[5] = C[2]
    BY <2>1
  <2> QED BY <1>1, <1>2, <1>5, <1>7, <1>10, <2>1, <2>2 DEF s
<1> QED BY <1>8, <1>9, <1>10

(* What every script has in common.                                        *)
LEMMA ScriptOps ==
  ASSUME NEW r, r.kind \in {"controller", "client", "reporter"},
         r.kind = "controller" => r.on \in {"SPCSO1", "SPCSO2", "SPCSO3"}
  PROVE  /\ IsSeq(Script(r)) /\ Len(Script(r)) > 3
         /\ \A i \in 1 .. Len(Script(r)) : OpSound(Script(r)[i])
         /\ Script(r)[Len(Script(r))].how = "conclude"
         /\ \A i \in 1 .. Len(Script(r)) :
              /\ Script(r)[i].how # "close"
              /\ Script(r)[i].how = "conclude" => i = Len(Script(r))
              /\ Script(r)[i].how \in {"select", "select-with-value"} => i = 2 /\ Len(Script(r)) = 5
         /\ r.kind = "controller" => Script(r)[Len(Script(r))] = Plain("conclude", NoName)
<1> DEFINE s == Script(r)
<1>1. CASE r.kind = "client"
  <2>1. /\ IsSeq(s) /\ Len(s) = 12
        /\ s[1].how = "get-server-directory" /\ s[2].how = "get-ld-directory" /\ s[3].how = "get-ln-directory"
        /\ \A k \in 4 .. 9 : s[k].how = "read"
        /\ s[10] = Op("write", "Mod", 5, 0) /\ s[11].how = "read-dataset" /\ s[12].how = "conclude"
    BY <1>1, ClientOps
  <2>2. s[10].how = "write" /\ s[10].on = "Mod" /\ s[10].val = 5
    BY <2>1 DEF Op
  <2> HIDE DEF s
  <2>3. \A i \in 1 .. Len(s) : i \in {1, 2, 3, 10, 11, 12} \/ i \in 4 .. 9
    BY <2>1
  <2>4. \A i \in 1 .. Len(s) : OpSound(s[i])
    BY <2>1, <2>2, <2>3 DEF OpSound
  <2>5. \A i \in 1 .. Len(s) :
          s[i].how \notin {"close", "select", "select-with-value"} /\ (s[i].how = "conclude" => i = Len(s))
    BY <2>1, <2>2, <2>3
  <2> QED BY <1>1, <2>1, <2>4, <2>5 DEF s
<1>2. CASE r.kind = "reporter"
  <2>1. /\ IsSeq(s) /\ Len(s) = 6
        /\ s[1].how = "get-rcb" /\ s[2].how = "enable-rcb" /\ s[3] = Op("write", "SPS1", ~r.arg, 0)
        /\ s[4].how = "receive-report" /\ s[5].how = "disable-rcb" /\ s[6].how = "conclude"
    BY <1>2, ReporterOps
  <2>2. s[3].how = "write" /\ s[3].on = "SPS1"
    BY <2>1 DEF Op
  <2> HIDE DEF s
  <2>3. \A i \in 1 .. Len(s) : i \in {1, 2, 3, 4, 5, 6}
    BY <2>1
  <2>4. \A i \in 1 .. Len(s) : OpSound(s[i])
    BY <2>1, <2>2, <2>3 DEF OpSound
  <2>5. \A i \in 1 .. Len(s) :
          s[i].how \notin {"close", "select", "select-with-value"} /\ (s[i].how = "conclude" => i = Len(s))
    BY <2>1, <2>2, <2>3
  <2> QED BY <1>2, <2>1, <2>4, <2>5 DEF s
<1>3. CASE r.kind = "controller" /\ r.on = "SPCSO1"
  <2>1. /\ IsSeq(s) /\ Len(s) = 4 /\ s[1] = Plain("read-ctlmodel", r.on) /\ s[2] = Op("operate", r.on, r.arg, 0)
        /\ s[3] = Plain("read", r.on) /\ s[4] = Plain("conclude", NoName)
    BY <1>3, ControllerOps
  <2> HIDE DEF s
  <2>2. /\ s[1].how = "read-ctlmodel" /\ s[2].how = "operate" /\ s[2].on = r.on
        /\ s[3].how = "read" /\ s[4].how = "conclude"
    BY <2>1 DEF Plain, Op
  <2>3. \A i \in 1 .. Len(s) : i \in {1, 2, 3, 4}
    BY <2>1
  <2>4. \A i \in 1 .. Len(s) : OpSound(s[i])
    BY <1>3, <2>2, <2>3 DEF OpSound
  <2>5. \A i \in 1 .. Len(s) :
          s[i].how \notin {"close", "select", "select-with-value"} /\ (s[i].how = "conclude" => i = Len(s))
    BY <2>1, <2>2, <2>3
  <2> QED BY <1>3, <2>1, <2>2, <2>4, <2>5 DEF s
<1>4. CASE r.kind = "controller" /\ r.on # "SPCSO1"
  <2>1. /\ IsSeq(s) /\ Len(s) = 5 /\ s[1] = Plain("read-ctlmodel", r.on)
        /\ \/ s[2] = Op("select", r.on, FALSE, 0) /\ s[3] = Op("operate", r.on, r.arg, 0)
           \/ s[2] = Op("select-with-value", r.on, r.arg, 1) /\ s[3] = Op("operate", r.on, r.arg, 1)
        /\ s[4] = Plain("read", r.on) /\ s[5] = Plain("conclude", NoName)
    BY <1>4, ControllerOps
  <2> HIDE DEF s
  <2>2. /\ s[1].how = "read-ctlmodel" /\ s[2].how \in {"select", "select-with-value"}
        /\ s[3].how = "operate" /\ s[3].on = r.on
        /\ s[4].how = "read" /\ s[5].how = "conclude"
    BY <2>1 DEF Plain, Op
  <2>3. \A i \in 1 .. Len(s) : i \in {1, 2, 3, 4, 5}
    BY <2>1
  <2>4. \A i \in 1 .. Len(s) : OpSound(s[i])
    BY <1>4, <2>2, <2>3 DEF OpSound
  <2>5. \A i \in 1 .. Len(s) :
          /\ s[i].how # "close" /\ (s[i].how = "conclude" => i = Len(s))
          /\ s[i].how \in {"select", "select-with-value"} => i = 2
    BY <2>1, <2>2, <2>3
  <2> QED BY <1>4, <2>1, <2>2, <2>4, <2>5 DEF s
<1> QED BY <1>1, <1>2, <1>3, <1>4

LEMMA FromEnd ==
  ASSUME NEW s, IsSeq(s), Len(s) > 0
  PROVE  From(s, Len(s)) = <<s[Len(s)]>>
<1>1. PICK S : s \in Seq(S)
  BY DEF IsSeq
<1>2. Len(s) \in Nat
  BY <1>1
<1>3. From(s, Len(s)) \in Seq(S) /\ Len(From(s, Len(s))) = 1 /\ From(s, Len(s))[1] = s[Len(s)]
  BY <1>1, <1>2 DEF From
<1> DEFINE x == s[Len(s)]
           u == From(s, Len(s))
<1>4. x \in S
  BY <1>1, <1>2
<1> HIDE DEF x, u
<1>5. <<x>> \in Seq(S) /\ Len(<<x>>) = 1 /\ <<x>>[1] = x
  BY <1>4
<1>6. \A i \in 1 .. 1 : u[i] = <<x>>[i]
  BY <1>3, <1>5 DEF u, x
<1> QED BY <1>3, <1>5, <1>6, SeqEqual DEF u, x

LEMMA Roles ==
  ASSUME IedTypes, NEW p \in Procs
  PROVE  /\ cast[p].kind \in {"controller", "client", "reporter"}
         /\ cast[p].kind = "controller" => cast[p].on \in {"SPCSO1", "SPCSO2", "SPCSO3"}
         /\ cast[p].kind # "client" => cast[p].arg \in BOOLEAN
         /\ p # Nobody
BY IedAssumption DEF IedTypes, Procs

IsRole(r) ==
  /\ r.kind \in {"controller", "client", "reporter"}
  /\ r.kind = "controller" => r.on \in {"SPCSO1", "SPCSO2", "SPCSO3"}

(* The operation at the place k.                                           *)
LEMMA PlaceFacts ==
  ASSUME NEW p, IsRole(cast[p]), NEW k \in 1 .. Len(Script(cast[p])), At(p, k)
  PROVE  /\ todo[p] # << >> /\ Head(todo[p]) = Script(cast[p])[k]
         /\ Tail(todo[p]) = From(Script(cast[p]), k + 1)
         /\ Len(todo[p]) = Len(Script(cast[p])) - k + 1
         /\ OpSound(Head(todo[p]))
BY ScriptOps, FromFacts DEF At, IsRole

Placed(p) ==
  /\ \E k \in 1 .. Len(Script(cast[p])) : At(p, k)
  /\ phase[p] \in {"new", "ready", "wait", "exit"}
  /\ phase[p] = "wait" => Head(todo[p]).how \notin Local
  /\ phase[p] = "new" => At(p, 1)
  /\ IsSeq(lines[p])

ScriptPlace(p) == IF cast[p].kind = "reporter" THEN SemPlace(p) ELSE Placed(p)

AskSound(p) == \A i \in 1 .. Len(asked[p]) : OpSound(asked[p][i])

(* p goes on in its script.                                                *)
Advances(p, k) ==
  \E j \in k + 1 .. Len(Script(cast[p])) : At(p, j)'

LEMMA ControllerAdvances ==
  ASSUME NEW p, IsRole(cast[p]), cast' = cast, NEW a, Returned(p, a), ControllerSees(p, a), Placed(p),
         NEW k \in 1 .. Len(Script(cast[p])), At(p, k)
  PROVE  Advances(p, k)
<1> DEFINE s == Script(cast[p])
           n == Len(s)
<1>1. /\ IsSeq(s) /\ s[n].how = "conclude" /\ s[n] = Plain("conclude", NoName)
      /\ s[k].how # "close" /\ (s[k].how \in {"select", "select-with-value"} => k = 2 /\ n = 5) /\ n > 3
  BY ScriptOps DEF IsRole, ControllerSees
<1>2. Head(todo[p]) = s[k] /\ Tail(todo[p]) = From(s, k + 1) /\ n \in Nat /\ k \in 1 .. n
  BY <1>1, PlaceFacts, SeqLen
<1>3. Head(todo[p]).how \notin Local
  BY DEF Returned, Placed
<1>4. From(s, n) = <<Plain("conclude", NoName)>>
  BY <1>1, FromEnd
<1> HIDE DEF s, n
<1>5. k < n
  BY <1>1, <1>2, <1>3 DEF Local
<1>6. CASE ~a.ok /\ Head(todo[p]).how = "select"
  <2>1. todo'[p] = From(s, n)
    BY <1>4, <1>6 DEF ControllerSees, ControllerRest
  <2>2. n \in k + 1 .. n
    BY <1>2, <1>5
  <2> QED BY <2>1, <2>2 DEF Advances, At, s, n
<1>7. CASE ~a.ok /\ Head(todo[p]).how = "select-with-value"
  <2>1. k = 2 /\ n = 5
    BY <1>1, <1>2, <1>7
  <2>2. todo'[p] = Tail(Tail(todo[p]))
    BY <1>7 DEF ControllerSees, ControllerRest
  <2>3. Tail(From(s, 3)) = From(s, 3 + 1)
    <3>1. 3 \in 1 .. Len(s)
      BY <2>1 DEF n
    <3> QED BY <1>1, <3>1, FromFacts
  <2>4. todo'[p] = From(s, 4)
    BY <1>2, <2>1, <2>2, <2>3
  <2>5. 4 \in k + 1 .. n
    BY <2>1
  <2> QED BY <2>4, <2>5 DEF Advances, At, s, n
<1>8. CASE a.ok \/ Head(todo[p]).how \notin {"select", "select-with-value"}
  <2>1. todo'[p] = From(s, k + 1)
    BY <1>2, <1>8 DEF ControllerSees, ControllerRest
  <2>2. k + 1 \in k + 1 .. n
    BY <1>2, <1>5
  <2> QED BY <2>1, <2>2 DEF Advances, At, s, n
<1> QED BY <1>6, <1>7, <1>8

LEMMA ClientAdvances ==
  ASSUME NEW p, IsRole(cast[p]), cast' = cast, NEW a, Returned(p, a), ClientSees(p, a), Placed(p),
         NEW k \in 1 .. Len(Script(cast[p])), At(p, k)
  PROVE  k < Len(Script(cast[p])) /\ At(p, k + 1)'
<1> DEFINE s == Script(cast[p])
           n == Len(s)
<1>1. IsSeq(s) /\ s[n].how = "conclude"
  BY ScriptOps DEF IsRole
<1>2. Head(todo[p]) = s[k] /\ Tail(todo[p]) = From(s, k + 1) /\ n \in Nat /\ k \in 1 .. n
  BY <1>1, PlaceFacts, SeqLen
<1>3. Head(todo[p]).how \notin Local
  BY DEF Returned, Placed
<1>4. todo'[p] = From(s, k + 1)
  BY <1>2 DEF ClientSees
<1> HIDE DEF s, n
<1>5. k < n
  BY <1>1, <1>2, <1>3 DEF Local
<1> QED BY <1>4, <1>5 DEF At, s, n

(* A step of p in which it gets no answer.                                 *)
LEMMA StaysPut ==
  ASSUME NEW p, OwnStep(p), cast' = cast, Placed(p)
  PROVE  \/ \E a : Returned(p, a) /\ (ControllerSees(p, a) \/ ClientSees(p, a) \/ ReporterSees(p, a))
         \/ Associates(p) /\ todo'[p] = todo[p]
         \/ Concludes(p) /\ todo'[p] = todo[p]
         \/ /\ Requests(p) \/ Discards(p) \/ Begins(p) \/ Posts(p)
            /\ todo'[p] = todo[p] /\ lines'[p] = lines[p] /\ failed'[p] = failed[p] /\ code'[p] = code[p]
            /\ (phase'[p] = phase[p] \/ Requests(p))
<1>1. ~Takes(p) /\ ~Emits(p) /\ ~Expires(p)
  BY DEF Takes, Emits, Expires, Placed
<1>2. CASE Associates(p) \/ Concludes(p)
  BY <1>2 DEF Associates, Concludes, Ended, SameScript
<1>3. CASE Requests(p) \/ Discards(p) \/ Begins(p) \/ Posts(p)
  BY <1>3 DEF Requests, Discards, Begins, Posts, SameScript, SameLines, SameEnd
<1>4. CASE Returns3(p)
  BY <1>4 DEF Returns3
<1> QED BY <1>1, <1>2, <1>3, <1>4 DEF OwnStep

LEMMA PlacedStep ==
  ASSUME NEW p, IsRole(cast[p]), cast[p].kind # "reporter", cast' = cast, Placed(p), OwnStep(p)
  PROVE  Placed(p)'
<1>0. PICK k \in 1 .. Len(Script(cast[p])) : At(p, k)
  BY DEF Placed
<1>1. CASE \E a : Returned(p, a) /\ (ControllerSees(p, a) \/ ClientSees(p, a) \/ ReporterSees(p, a))
  <2>1. PICK a : Returned(p, a) /\ (ControllerSees(p, a) \/ ClientSees(p, a) \/ ReporterSees(p, a))
    BY <1>1
  <2>2. phase'[p] = "ready"
    BY <2>1 DEF ControllerSees, ClientSees, ReporterSees
  <2>3. CASE ControllerSees(p, a)
    <3>1. Advances(p, k)
      BY <1>0, <2>1, <2>3, ControllerAdvances
    <3>2. \E j \in 1 .. Len(Script(cast[p])) : At(p, j)'
      BY <1>0, <3>1 DEF Advances
    <3>3. IsSeq(lines'[p])
      BY <2>3, Appended DEF ControllerSees, Placed
    <3> QED BY <2>2, <3>2, <3>3 DEF Placed
  <2>4. CASE ClientSees(p, a)
    <3>1. k < Len(Script(cast[p])) /\ At(p, k + 1)'
      BY <1>0, <2>1, <2>4, ClientAdvances
    <3>2. IsSeq(Script(cast[p]))
      BY ScriptOps DEF IsRole
    <3>3. k + 1 \in 1 .. Len(Script(cast[p]))
      BY <1>0, <3>1, <3>2, SeqLen
    <3>4. IsSeq(lines'[p])
      <4>1. IsSeq(<<Line(Head(todo[p]).how, a.ok, a.value)>>) /\ IsSeq(<<Line(Head(todo[p]).how, FALSE, << >>)>>) /\ IsSeq(<< >>)
        BY SeqOne, SeqEmpty
      <4>2. IsSeq(ClientLines(Head(todo[p]), a))
        BY <4>1, SeqConcat DEF ClientLines
      <4>3. IsSeq(lines[p]) /\ lines'[p] = lines[p] \o ClientLines(Head(todo[p]), a)
        BY <2>4 DEF ClientSees, Placed
      <4>4. IsSeq(lines[p] \o ClientLines(Head(todo[p]), a))
        BY <4>2, <4>3, SeqConcat
      <4> QED BY <4>3, <4>4
    <3> QED BY <2>2, <3>1, <3>3, <3>4 DEF Placed
  <2>5. CASE ReporterSees(p, a)
    BY <2>5 DEF ReporterSees
  <2> QED BY <2>1, <2>3, <2>4, <2>5
<1>2. CASE Associates(p) /\ todo'[p] = todo[p]
  <2>1. phase'[p] \in {"ready", "exit"}
    BY <1>2 DEF Associates
  <2>2. IsSeq(lines'[p])
    BY <1>2, SeqOne DEF Associates, Placed
  <2>3. At(p, k)'
    BY <1>0, <1>2 DEF At
  <2> QED BY <2>1, <2>2, <2>3 DEF Placed
<1>3. CASE Concludes(p) /\ todo'[p] = todo[p]
  <2>1. phase'[p] = "exit"
    BY <1>3 DEF Concludes, Ended
  <2>2. IsSeq(lines'[p])
    <3>1. lines'[p] = lines[p] \o << >> \/ lines'[p] = lines[p] \o <<Line("conclude", TRUE, << >>)>>
      BY <1>3 DEF Concludes, Ended
    <3>2. IsSeq(lines[p]) /\ IsSeq(<< >>) /\ IsSeq(<<Line("conclude", TRUE, << >>)>>)
      BY SeqEmpty, SeqOne DEF Placed
    <3>3. IsSeq(lines[p] \o << >>) /\ IsSeq(lines[p] \o <<Line("conclude", TRUE, << >>)>>)
      BY <3>2, SeqConcat
    <3> QED BY <3>1, <3>3
  <2>3. At(p, k)'
    BY <1>0, <1>3 DEF At
  <2> QED BY <2>1, <2>2, <2>3 DEF Placed
<1>4. CASE /\ Requests(p) \/ Discards(p) \/ Begins(p) \/ Posts(p)
           /\ todo'[p] = todo[p] /\ lines'[p] = lines[p] /\ (phase'[p] = phase[p] \/ Requests(p))
  <2>1. At(p, k)' /\ (At(p, 1) => At(p, 1)')
    BY <1>0, <1>4 DEF At
  <2>2. CASE Requests(p)
    <3>1. phase'[p] = "wait" /\ Head(todo'[p]).how \notin Local
      BY <1>4, <2>2 DEF Requests
    <3> QED BY <1>4, <2>1, <3>1 DEF Placed
  <2>3. CASE phase'[p] = phase[p]
    BY <1>4, <2>1, <2>3 DEF Placed
  <2> QED BY <1>4, <2>2, <2>3
<1> QED BY <1>1, <1>2, <1>3, <1>4, StaysPut

-----------------------------------------------------------------------------
(* The data of the server.                                                 *)

DataInv ==
  /\ ied \in {"down", "up", "gone"}
  /\ ied # "down" => DOMAIN data = DOMAIN InitialValues

(* Before the server runs nobody has begun.                                *)
NotBegun(p) == ied = "down" => phase[p] \in {"new", "exit"} /\ At(p, 1)

DataMoves ==
  \/ ied' = ied /\ data' = data
  \/ ied = "down" /\ ied' = "up" /\ data' = InitialValues
  \/ ied = "up" /\ ied' = "gone" /\ data' = data
  \/ /\ ied = "up" /\ ied' = "up"
     /\ \E q \in Procs : asked[q] # << >> /\ data' = DataAfter(Head(asked[q]))

LEMMA DataStep ==
  ASSUME [IedNext]_iedVars
  PROVE  DataMoves
<1>1. CASE \E q \in Procs : ProgramStep(q)
  <2>1. PICK q \in Procs : ProgramStep(q)
    BY <1>1
  <2>2. CASE Conclusion(q)
    BY <2>2 DEF Conclusion, Leave, DataMoves
  <2>3. CASE ~Conclusion(q)
    BY <2>1, <2>3, ServerSame DEF iedServer, DataMoves
  <2> QED BY <2>2, <2>3
<1>2. CASE IedServerStep
  <2>1. CASE SendReport
    BY <2>1 DEF SendReport, DataMoves
  <2>2. CASE \E q \in Procs : Perform(q)
    <3>1. PICK q \in Procs : Perform(q)
      BY <2>2
    <3>2. /\ asked[q] # << >> /\ ied = "up" /\ ied' = ied
          /\ data' = data \/ data' = DataAfter(Head(asked[q]))
      BY <3>1 DEF Perform
    <3> QED BY <3>2 DEF DataMoves
  <2> QED BY <1>2, <2>1, <2>2 DEF IedServerStep
<1>3. CASE IedEnvironment
  BY <1>3 DEF IedEnvironment, StartServer, StopServer, CutOff, DataMoves
<1>4. CASE UNCHANGED iedVars
  BY <1>4 DEF iedVars, iedServer, DataMoves
<1> QED BY <1>1, <1>2, <1>3, <1>4 DEF IedNext, IedProgress

ScriptInv(p) == ScriptPlace(p) /\ AskSound(p) /\ NotBegun(p)

ScriptsInv == BaseInv /\ DataInv /\ \A p \in Procs : ScriptInv(p)

LEMMA DataInvStep ==
  ASSUME DataInv, DataMoves
  PROVE  DataInv' /\ (ied # "down" => ied' # "down")
BY DEF DataInv, DataMoves, DataAfter, control_handler

(* The request the server performs next.                                   *)
LEMMA FirstAsked ==
  ASSUME NEW p, WireInv(p), AskSound(p), asked[p] # << >>
  PROVE  OpSound(Head(asked[p]))
<1>1. Len(asked[p]) \in Nat /\ Len(asked[p]) > 0 /\ asked[p][1] = Head(asked[p])
  BY SeqTail, SeqLen DEF WireInv
<1>2. 1 \in 1 .. Len(asked[p])
  BY <1>1
<1> QED BY <1>1, <1>2 DEF AskSound

(* Mod is 5 from the first write on.                                       *)
LEMMA ModStays ==
  ASSUME ScriptsInv, DataMoves, ied # "down", data["Mod"] = 5
  PROVE  data'["Mod"] = 5
<1>1. "Mod" \in DOMAIN data
  BY DEF ScriptsInv, DataInv, InitialValues
<1>2. ASSUME NEW q \in Procs, asked[q] # << >>, data' = DataAfter(Head(asked[q]))
      PROVE  data'["Mod"] = 5
  <2>1. OpSound(Head(asked[q]))
    BY <1>2, FirstAsked DEF ScriptsInv, BaseInv, ScriptInv
  <2> QED BY <1>1, <1>2, <2>1 DEF DataAfter, control_handler, OpSound
<1> QED BY <1>2 DEF DataMoves

(* The place of a program, whatever it is.                                 *)
LEMMA SomePlace ==
  ASSUME NEW p, IsRole(cast[p]), ScriptPlace(p)
  PROVE  Closed(p) \/ \E k \in 1 .. Len(Script(cast[p])) : At(p, k)
<1>1. CASE cast[p].kind = "reporter"
  <2>1. Len(Script(cast[p])) = 6
    BY <1>1, ReporterOps
  <2> QED BY <1>1, <2>1 DEF ScriptPlace, SemPlace
<1>2. CASE cast[p].kind # "reporter"
  BY <1>2 DEF ScriptPlace, Placed
<1> QED BY <1>1, <1>2

LEMMA ScriptPlaceStep ==
  ASSUME NEW p, IsRole(cast[p]), cast' = cast, ScriptPlace(p),
         Alone(p) \/ OwnStep(p) \/ Performs(p) \/ Notified(p) \/ Loses(p)
  PROVE  ScriptPlace(p)'
<1>1. CASE OwnStep(p)
  BY <1>1, PlacedStep, SemPlaceStep DEF ScriptPlace
<1>2. CASE Alone(p) \/ Performs(p) \/ Notified(p) \/ Loses(p)
  <2>1. phase'[p] = phase[p] /\ todo'[p] = todo[p] /\ lines'[p] = lines[p]
    BY <1>2 DEF Alone, Performs, Notified, Loses, SameScript, SameLines
  <2>2. Placed(p) => Placed(p)'
    BY <2>1 DEF Placed, At
  <2>3. SemPlace(p) => SemPlace(p)'
    BY <2>1 DEF SemPlace, At, Closed
  <2> QED BY <2>2, <2>3 DEF ScriptPlace
<1> QED BY <1>1, <1>2

LEMMA NoneAsked ==
  ASSUME NEW p, asked'[p] = << >>
  PROVE  AskSound(p)'
<1>1. Len(asked'[p]) = 0
  BY SeqEmpty, SeqNil
<1> QED BY <1>1 DEF AskSound

LEMMA AskSoundStep ==
  ASSUME NEW p, IsRole(cast[p]), ScriptPlace(p), WireInv(p), AskSound(p),
         Alone(p) \/ OwnStep(p) \/ Performs(p) \/ Notified(p) \/ Loses(p)
  PROVE  AskSound(p)'
<1>1. CASE \/ Alone(p) \/ Notified(p)
           \/ Associates(p) \/ Discards(p) \/ Begins(p) \/ Posts(p) \/ Takes(p) \/ Emits(p) \/ Expires(p)
  <2>1. asked'[p] = asked[p]
    BY <1>1 DEF Alone, Notified, Associates, Discards, Begins, Posts, Takes, Emits, Expires, SameWires
  <2> QED BY <2>1 DEF AskSound
<1>2. CASE Returns3(p)
  BY <1>2 DEF Returns3, Returned, AskSound
<1>3. CASE Loses(p) \/ Concludes(p)
  BY <1>3, NoneAsked DEF Loses, Concludes, Ended
<1>4. CASE Performs(p)
  <2>1. /\ Len(asked'[p]) = Len(asked[p]) - 1 /\ Len(asked[p]) \in Nat
        /\ \A j \in 1 .. Len(asked'[p]) : asked'[p][j] = asked[p][j + 1]
    BY <1>4, SeqTail, SeqLen DEF Performs, WireInv
  <2>2. \A j \in 1 .. Len(asked'[p]) : j + 1 \in 1 .. Len(asked[p])
    BY <2>1
  <2> QED BY <2>1, <2>2 DEF AskSound
<1>5. CASE Requests(p)
  <2>1. /\ Len(asked'[p]) = Len(asked[p]) + 1 /\ Len(asked[p]) \in Nat /\ asked'[p][Len(asked[p]) + 1] = Req(p)
        /\ \A i \in 1 .. Len(asked[p]) : asked'[p][i] = asked[p][i]
    BY <1>5, Appended, SeqLen DEF Requests, WireInv
  <2>2. Head(todo[p]).how # "close"
    BY <1>5 DEF Requests, Local
  <2>3. ~Closed(p)
    <3>1. Closed(p) => Head(todo[p]).how = "close"
      BY DEF Closed, Plain, Op
    <3> QED BY <2>2, <3>1
  <2>4. OpSound(Head(todo[p]))
    BY <2>3, SomePlace, PlaceFacts
  <2>5. OpSound(Req(p))
    BY <2>4 DEF Req, OpSound
  <2>6. \A i \in 1 .. Len(asked'[p]) : i \in 1 .. Len(asked[p]) \/ i = Len(asked[p]) + 1
    BY <2>1
  <2> QED BY <2>1, <2>5, <2>6 DEF AskSound
<1> QED BY <1>1, <1>2, <1>3, <1>4, <1>5 DEF OwnStep

LEMMA NotBegunStep ==
  ASSUME NEW p, cast' = cast, NotBegun(p), DataMoves,
         Alone(p) \/ OwnStep(p) \/ Performs(p) \/ Notified(p) \/ Loses(p)
  PROVE  NotBegun(p)'
<1> SUFFICES ASSUME ied' = "down" PROVE phase'[p] \in {"new", "exit"} /\ At(p, 1)'
  BY DEF NotBegun
<1>1. ied = "down" /\ phase[p] \in {"new", "exit"} /\ At(p, 1)
  BY DEF DataMoves, NotBegun
<1>2. CASE Alone(p) \/ Performs(p) \/ Notified(p) \/ Loses(p)
  <2>1. phase'[p] = phase[p] /\ todo'[p] = todo[p]
    BY <1>2 DEF Alone, Performs, Notified, Loses, SameScript
  <2> QED BY <1>1, <2>1 DEF At
<1>3. CASE OwnStep(p)
  <2>1. ~Concludes(p) /\ ~Requests(p) /\ ~Takes(p) /\ ~Emits(p) /\ ~Expires(p) /\ ~Returns3(p)
    BY <1>1 DEF Concludes, Requests, Takes, Emits, Expires, Returns3, Returned
  <2>2. todo'[p] = todo[p] /\ phase'[p] \in {"new", "exit"}
    BY <1>1, <1>3, <2>1 DEF OwnStep, Associates, Discards, Begins, Posts, SameScript
  <2> QED BY <1>1, <2>2 DEF At
<1> QED BY <1>2, <1>3

LEMMA ScriptsInit == ASSUME IedInit PROVE ScriptsInv
<1>1. BaseInv /\ DataInv
  BY BaseInit DEF IedInit, IedServerInit, DataInv
<1>2. ASSUME NEW p \in Procs PROVE ScriptInv(p)
  <2>1. /\ asked[p] = << >> /\ phase[p] = "new" /\ lines[p] = << >> /\ todo[p] = Script(cast[p])
    BY DEF IedInit, IedServerInit, ProgramInit
  <2>2. IsRole(cast[p])
    BY <1>1, Roles DEF BaseInv, IsRole
  <2>3. IsSeq(Script(cast[p])) /\ Len(Script(cast[p])) > 3
    BY <2>2, ScriptOps DEF IsRole
  <2>4. At(p, 1)
    BY <2>1, <2>3, WholeFrom DEF At
  <2>5. 1 \in 1 .. Len(Script(cast[p])) /\ IsSeq(lines[p])
    BY <2>1, <2>3, SeqLen, SeqEmpty
  <2>6. ASSUME cast[p].kind = "reporter" PROVE ScriptPlace(p)
    <3>1. ~At(p, 4)
      BY <2>4, <2>6, ReporterAt
    <3>2. SemPlace(p)
      BY <2>1, <2>4, <2>5, <3>1 DEF SemPlace
    <3> QED BY <2>6, <3>2 DEF ScriptPlace
  <2>7. ASSUME cast[p].kind # "reporter" PROVE ScriptPlace(p)
    <3>1. Placed(p)
      BY <2>1, <2>4, <2>5 DEF Placed
    <3> QED BY <2>7, <3>1 DEF ScriptPlace
  <2>8. AskSound(p)
    <3>1. Len(asked[p]) = 0
      BY <2>1, SeqEmpty, SeqNil
    <3> QED BY <3>1 DEF AskSound
  <2> QED BY <2>1, <2>4, <2>6, <2>7, <2>8 DEF ScriptInv, NotBegun
<1> QED BY <1>1, <1>2 DEF ScriptsInv

LEMMA ScriptsStep ==
  ASSUME ScriptsInv, [IedNext]_iedVars
  PROVE  ScriptsInv'
<1>1. BaseInv /\ BaseInv' /\ cast' = cast /\ Procs' = Procs /\ DataMoves
  BY BaseStep, CastKept, DataStep DEF ScriptsInv
<1>2. DataInv'
  BY <1>1, DataInvStep DEF ScriptsInv
<1>3. ASSUME NEW p \in Procs PROVE ScriptInv(p)'
  <2>1. IsRole(cast[p]) /\ ScriptInv(p) /\ WireInv(p)
    BY <1>1, Roles DEF ScriptsInv, BaseInv, IsRole
  <2>2. Alone(p) \/ OwnStep(p) \/ Performs(p) \/ Notified(p) \/ Loses(p)
    BY <1>1, IedMoves DEF BaseInv
  <2>3. ScriptPlace(p)'
    BY <1>1, <2>1, <2>2, ScriptPlaceStep DEF ScriptInv
  <2>4. AskSound(p)'
    BY <1>1, <2>1, <2>2, AskSoundStep DEF ScriptInv
  <2>5. NotBegun(p)'
    BY <1>1, <2>1, <2>2, NotBegunStep DEF ScriptInv
  <2> QED BY <2>3, <2>4, <2>5 DEF ScriptInv
<1> QED BY <1>1, <1>2, <1>3 DEF ScriptsInv

-----------------------------------------------------------------------------
(* ied-client: what its lines say, and its exit code.                      *)

LEMMA Least ==
  ASSUME NEW S, S \subseteq Nat, S # {}
  PROVE  \E m \in S : \A n \in S : m <= n
<1>1. IsWellFoundedOn(OpToRel(<, Nat), Nat)
  BY NatLessThanWellFounded
<1>2. PICK m \in S : \A n \in S : ~(<<n, m>> \in OpToRel(<, Nat))
  BY <1>1, WFMin
<1>3. \A n \in S : <<n, m>> \in OpToRel(<, Nat) <=> n < m
  BY DEF OpToRel
<1>4. \A n \in S : ~(n < m)
  BY <1>2, <1>3
<1>5. \A n \in S : n \in Nat /\ m \in Nat
  OBVIOUS
<1>6. \A n \in S : m <= n
  BY <1>4, <1>5
<1> QED BY <1>6

(* ied-client finds the logical device of the model.                       *)
LEMMA Resolves ==
  ASSUME IedTypes, ld # NoName
  PROVE  resolve_interop_ld(lds) = ld /\ ld \in ToSet(lds)
<1>1. lds \in Seq(ToSet(lds)) /\ ~(HasModel \subseteq ToSet(lds))
  BY IedAssumption DEF IedTypes
<1>2. PICK n \in HasModel : n \in ToSet(lds)
  BY DEF ld
<1>3. ld = n
  <2>1. \A m \in HasModel : m \in ToSet(lds) => m = n
    BY <1>1, <1>2 DEF HasModel
  <2> QED BY <1>2, <2>1 DEF ld
<1> DEFINE prefixed == {i \in DOMAIN lds : lds[i] \in HasModel}
<1>4. prefixed \subseteq Nat /\ \A i \in prefixed : lds[i] = n
  <2>1. DOMAIN lds \subseteq Nat
    BY <1>1
  <2>2. ASSUME NEW i \in prefixed PROVE lds[i] = n
    <3>1. lds[i] \in HasModel /\ lds[i] \in ToSet(lds)
      BY DEF ToSet
    <3> QED BY <1>1, <1>2, <3>1 DEF HasModel
  <2> QED BY <2>1, <2>2
<1>5. prefixed # {}
  BY <1>2 DEF ToSet
<1>6. (CHOOSE i \in prefixed : \A j \in prefixed : i <= j) \in prefixed
  <2> HIDE DEF prefixed
  <2> QED BY <1>4, <1>5, Least
<1>7. lds[CHOOSE i \in prefixed : \A j \in prefixed : i <= j] = n
  BY <1>4, <1>6
<1>8. "InteropLD" \in ToSet(lds) => n = "InteropLD"
  BY <1>1, <1>2 DEF HasModel
<1> QED BY <1>2, <1>3, <1>5, <1>7, <1>8 DEF resolve_interop_ld

LEMMA FromOne ==
  ASSUME NEW s, IsSeq(s), NEW k \in 1 .. Len(s), NEW j \in 1 .. Len(s), From(s, k) = From(s, j)
  PROVE  k = j
<1>1. Len(From(s, k)) = Len(s) - k + 1 /\ Len(From(s, j)) = Len(s) - j + 1 /\ Len(s) \in Nat
  BY FromFacts, SeqLen
<1> QED BY <1>1

NotOk(s) == \E i \in DOMAIN s : ~s[i].ok

LEMMA NotOkConcat ==
  ASSUME NEW s, NEW t, IsSeq(s), IsSeq(t)
  PROVE  NotOk(s \o t) <=> NotOk(s) \/ NotOk(t)
<1> DEFINE u == s \o t
<1>1. /\ IsSeq(u) /\ Len(u) = Len(s) + Len(t)
      /\ \A i \in 1 .. Len(s) : u[i] = s[i]
      /\ \A i \in 1 .. Len(t) : u[Len(s) + i] = t[i]
  BY SeqConcat
<1> HIDE DEF u
<1>2. /\ Len(s) \in Nat /\ Len(t) \in Nat
      /\ DOMAIN s = 1 .. Len(s) /\ DOMAIN t = 1 .. Len(t) /\ DOMAIN u = 1 .. Len(u)
  BY <1>1, SeqLen
<1>3. ASSUME NEW i \in DOMAIN s, ~s[i].ok PROVE NotOk(u)
  <2>1. i \in DOMAIN u /\ u[i] = s[i]
    BY <1>1, <1>2
  <2> QED BY <1>3, <2>1 DEF NotOk
<1>4. ASSUME NEW i \in DOMAIN t, ~t[i].ok PROVE NotOk(u)
  <2>1. Len(s) + i \in DOMAIN u /\ u[Len(s) + i] = t[i]
    BY <1>1, <1>2
  <2> QED BY <1>4, <2>1 DEF NotOk
<1>5. ASSUME NEW i \in DOMAIN u, ~u[i].ok PROVE NotOk(s) \/ NotOk(t)
  <2>1. CASE i \in DOMAIN s
    BY <1>1, <1>2, <1>5, <2>1 DEF NotOk
  <2>2. CASE i \notin DOMAIN s
    <3>1. i - Len(s) \in 1 .. Len(t) /\ Len(s) + (i - Len(s)) = i
      BY <1>1, <1>2, <2>2
    <3>2. u[i] = t[i - Len(s)]
      BY <1>1, <3>1
    <3> QED BY <1>2, <1>5, <3>1, <3>2 DEF NotOk
  <2> QED BY <2>1, <2>2
<1>6. NotOk(u) <=> NotOk(s) \/ NotOk(t)
  BY <1>3, <1>4, <1>5 DEF NotOk
<1> QED BY <1>6 DEF u

LEMMA NotOkOne ==
  ASSUME NEW x
  PROVE  (NotOk(<<x>>) <=> ~x.ok) /\ ~NotOk(<< >>)
<1>1. DOMAIN <<x>> = {1} /\ <<x>>[1] = x /\ DOMAIN << >> = {}
  OBVIOUS
<1> QED BY <1>1 DEF NotOk

(* The lines of a call of ied-client.                                      *)
LEMMA ClientLinesOk ==
  ASSUME NEW o, NEW a
  PROVE  /\ IsSeq(ClientLines(o, a)) /\ Len(ClientLines(o, a)) \in Nat \ {0}
         /\ ClientLines(o, a)[1] = Line(o.how, a.ok, a.value)
         /\ NotOk(ClientLines(o, a)) <=> ~(a.ok /\ Resolved(o, a))
<1> DEFINE x == Line(o.how, a.ok, a.value)
           y == Line(o.how, FALSE, << >>)
           s == <<x>>
           t == IF Resolved(o, a) THEN << >> ELSE <<y>>
<1>1. x.ok = a.ok /\ y.ok = FALSE
  BY DEF Line
<1> HIDE DEF x, y
<1>2. IsSeq(s) /\ Len(s) = 1 /\ s[1] = x /\ (NotOk(s) <=> ~x.ok)
  BY SeqOne, NotOkOne
<1>3. IsSeq(t) /\ (NotOk(t) <=> ~Resolved(o, a))
  <2>1. CASE Resolved(o, a)
    <3>1. t = << >>
      BY <2>1
    <3> HIDE DEF t
    <3> QED BY <2>1, <3>1, SeqEmpty, NotOkOne
  <2>2. CASE ~Resolved(o, a)
    <3>1. t = <<y>>
      BY <2>2
    <3> HIDE DEF t
    <3>2. IsSeq(<<y>>) /\ NotOk(<<y>>)
      BY <1>1, SeqOne, NotOkOne
    <3> QED BY <2>2, <3>1, <3>2
  <2> QED BY <2>1, <2>2
<1>4. ClientLines(o, a) = s \o t
  BY DEF ClientLines, x, y
<1> HIDE DEF s, t
<1>5. NotOk(s \o t) <=> NotOk(s) \/ NotOk(t)
  BY <1>2, <1>3, NotOkConcat
<1>6. IsSeq(s \o t) /\ Len(s \o t) = Len(s) + Len(t) /\ \A i \in 1 .. Len(s) : (s \o t)[i] = s[i]
  <2>1. IsSeq(s) /\ IsSeq(t)
    BY <1>2, <1>3
  <2>2. IsSeq(s \o t)
    BY <2>1, SeqConcat
  <2>3. Len(s \o t) = Len(s) + Len(t)
    BY <2>1, SeqConcat
  <2>4. \A i \in 1 .. Len(s) : (s \o t)[i] = s[i]
    BY <2>1, SeqConcat
  <2> QED BY <2>2, <2>3, <2>4
<1>7. Len(t) \in Nat
  BY <1>3, SeqLen
<1> DEFINE w == s \o t
<1> HIDE DEF w
<1>8. IsSeq(w) /\ Len(w) = 1 + Len(t) /\ w[1] = s[1]
  BY <1>2, <1>6 DEF w
<1>9. Len(w) \in Nat \ {0}
  BY <1>7, <1>8
<1>10. NotOk(w) <=> ~(a.ok /\ Resolved(o, a))
  BY <1>1, <1>2, <1>3, <1>5, Zenon DEF w
<1> QED BY <1>2, <1>4, <1>8, <1>9, <1>10 DEF w, x

Fine == trouble = 0 /\ ld # NoName

(* A line of p shows the data set with Mod = 5.                            *)
ReadFive(p) == \E i \in DOMAIN lines[p] : SaidAt(p, "read-dataset", i) /\ lines[p][i].value[2] = 5

(* What the answer a to the call of ied-client tells.                      *)
Told(p, a) ==
  /\ At(p, 10) /\ a.ok => data["Mod"] = 5
  /\ At(p, 11) /\ ~failed[p] /\ a.ok => a.value[2] = 5
  /\ Fine => a.ok /\ (At(p, 1) => a.value = lds)

ClientTold(p) == Awaiting(p) => \E a : LastIs(pdus[p], a) /\ Told(p, a)

ClientCode(p) ==
  /\ phase[p] = "new" => lines[p] = << >> /\ ~failed[p]
  /\ phase[p] = "exit" => code[p] = 2 \/ (At(p, 12) /\ code[p] = IF failed[p] THEN 3 ELSE 0)
  /\ (phase[p] = "exit" /\ code[p] = 2) \/ (failed[p] <=> NotOk(lines[p]))

ClientRead(p) ==
  /\ At(p, 12) /\ ~failed[p] => ReadFive(p)
  /\ At(p, 11) /\ ~failed[p] => ied # "down" /\ data["Mod"] = 5

ClientFine(p) ==
  Fine => /\ ~failed[p] /\ late[p] = 0 /\ joined[p] # "lost"
          /\ phase[p] \in {"ready", "wait"} /\ ~At(p, 1) => device[p] = ld

ClientInv(p) == ClientTold(p) /\ ClientCode(p) /\ ClientRead(p) /\ ClientFine(p)

LEMMA TroubleGrows ==
  ASSUME [IedNext]_iedVars, trouble \in Nat
  PROVE  trouble' = trouble \/ trouble' = trouble + 1
<1>1. CASE \E q \in Procs : ProgramStep(q)
  <2>1. PICK q \in Procs : ProgramStep(q)
    BY <1>1
  <2>2. CASE Associate(q) \/ Conclusion(q)
    BY <2>2 DEF Associate, Conclusion, Leave
  <2>3. CASE Request(q) \/ Discard(q)
    BY <2>3 DEF Request, Discard
  <2>4. CASE CallbackHead(q) \/ CallbackPost(q) \/ SemTaken(q) \/ EmitReport(q) \/ SemExpires(q)
    BY <2>4 DEF CallbackHead, CallbackPost, SemTaken, EmitReport, SemExpires, Trouble
  <2>5. CASE ControllerReturns(q) \/ ClientReturns(q) \/ ReporterReturns(q)
    <3>1. Answered(q) \/ TimesOut(q) \/ Fails(q)
      BY <2>5 DEF ControllerReturns, ClientReturns, ReporterReturns
    <3> QED BY <3>1 DEF Answered, TimesOut, Fails, Trouble
  <2> QED BY <2>1, <2>2, <2>3, <2>4, <2>5 DEF ProgramStep
<1>2. CASE IedServerStep
  BY <1>2 DEF IedServerStep, SendReport, Perform
<1>3. CASE IedEnvironment
  BY <1>3 DEF IedEnvironment, StartServer, StopServer, CutOff, Break, Trouble
<1>4. CASE UNCHANGED iedVars
  BY <1>4 DEF iedVars
<1> QED BY <1>1, <1>2, <1>3, <1>4 DEF IedNext, IedProgress

LEMMA FineBefore ==
  ASSUME IedTypes, [IedNext]_iedVars, Fine'
  PROVE  Fine /\ trouble' = trouble /\ ld' = ld
<1>1. trouble' = trouble
  BY TroubleGrows DEF IedTypes, Fine
<1>2. ld' = ld
  BY CastKept DEF ld
<1> QED BY <1>1, <1>2 DEF Fine

(* The place of ied-client, by number.                                     *)
LEMMA ClientPlace ==
  ASSUME NEW p, cast[p].kind = "client", NEW k \in 1 .. 12, At(p, k)
  PROVE  /\ \A j \in 1 .. 12 : At(p, j) => j = k
         /\ Head(todo[p]) = Script(cast[p])[k] /\ k \in 1 .. Len(Script(cast[p]))
         /\ k = 12 <=> Head(todo[p]).how \in {"conclude", "close"}
         /\ k = 1 <=> Head(todo[p]).how = "get-server-directory"
<1> DEFINE s == Script(cast[p])
<1>1. /\ IsSeq(s) /\ Len(s) = 12
      /\ s[1].how = "get-server-directory" /\ s[2].how = "get-ld-directory" /\ s[3].how = "get-ln-directory"
      /\ \A i \in 4 .. 9 : s[i].how = "read"
      /\ s[10] = Op("write", "Mod", 5, 0) /\ s[11].how = "read-dataset" /\ s[12].how = "conclude"
  BY ClientOps
<1>2. s[10].how = "write"
  BY <1>1 DEF Op
<1>3. \A j \in 1 .. 12 : At(p, j) => j = k
  BY <1>1, OnePlace
<1>4. IsRole(cast[p])
  BY DEF IsRole
<1>5. Head(todo[p]) = s[k] /\ k \in 1 .. Len(s)
  BY <1>1, <1>4, PlaceFacts
<1> HIDE DEF s
<1>6. k \in {1, 2, 3, 10, 11, 12} \/ k \in 4 .. 9
  OBVIOUS
<1>7. (k = 12 <=> s[k].how \in {"conclude", "close"}) /\ (k = 1 <=> s[k].how = "get-server-directory")
  BY <1>1, <1>2, <1>6
<1> QED BY <1>3, <1>5, <1>7 DEF s

(* The server performs a call of ied-client.                               *)
LEMMA ClientPerformed ==
  ASSUME ScriptsInv, NEW p \in Procs, cast[p].kind = "client", Performs(p), cast' = cast,
         ClientRead(p), ClientFine(p), Fine' => Fine, lds' = lds,
         phase[p] = "wait", Head(asked[p]) = Req(p), NEW a, a = Done1(p)
  PROVE  Told(p, a)'
<1> DEFINE s == Script(cast[p])
           q == Head(asked[p])
           o == Head(todo[p])
<1>1. PICK k \in 1 .. 12 : At(p, k)
  <2>1. Len(s) = 12
    BY ClientOps
  <2> QED BY <2>1 DEF ScriptsInv, ScriptInv, ScriptPlace, Placed
<1>2. /\ todo'[p] = todo[p] /\ failed'[p] = failed[p]
      /\ \A j \in 1 .. 12 : At(p, j)' => j = k
  <2>1. todo'[p] = todo[p] /\ failed'[p] = failed[p]
    BY DEF Performs, SameScript, SameEnd
  <2>2. \A j \in 1 .. 12 : At(p, j)' => At(p, j)
    BY <2>1 DEF At
  <2> QED BY <1>1, <2>1, <2>2, ClientPlace
<1>3. o = s[k] /\ q.how = o.how /\ q.on = o.on /\ q.val = o.val /\ q.ld = device[p]
  <2>1. o = s[k]
    BY <1>1, ClientPlace
  <2>2. q = [how |-> o.how, on |-> o.on, val |-> o.val, num |-> o.num, ld |-> device[p]]
    BY DEF Req
  <2> HIDE DEF q, o
  <2> QED BY <2>1, <2>2
<1>4. /\ s[1].how = "get-server-directory" /\ s[2].how = "get-ld-directory" /\ s[3].how = "get-ln-directory"
      /\ \A i \in 4 .. 9 : s[i].how = "read" /\ s[i].on \in {"SPS1", "TotW", "DPS1", "TotVAh", "ModCtl", "ModD"}
      /\ s[10].how = "write" /\ s[10].on = "Mod" /\ s[10].val = 5 /\ s[11].how = "read-dataset"
      /\ s[12].how = "conclude"
  BY ClientOps DEF Op
<1>5. ied = "up" /\ "Mod" \in DOMAIN data /\ {"SPS1", "TotW", "DPS1", "TotVAh", "ModCtl", "ModD"} \subseteq DOMAIN data
  BY DEF Performs, ScriptsInv, DataInv, InitialValues
<1>6. ASSUME At(p, 10)', a.ok PROVE data'["Mod"] = 5
  <2>1. q.how = "write" /\ q.on = "Mod" /\ q.val = 5
    BY <1>2, <1>3, <1>4, <1>6
  <2>2. data' = DataAfter(q)
    BY <1>6 DEF Performs, Done1
  <2>3. data' = [data EXCEPT !["Mod"] = 5]
    BY <2>1, <2>2 DEF DataAfter
  <2> QED BY <1>5, <2>3
<1>7. ASSUME At(p, 11)', ~failed[p], a.ok PROVE a.value[2] = 5
  <2>1. q.how = "read-dataset"
    BY <1>2, <1>3, <1>4, <1>7
  <2>2. data["Mod"] = 5
    BY <1>1, <1>2, <1>7 DEF ClientRead
  <2>3. a.value = Returns(q)
    BY <1>7 DEF Done1
  <2>4. Returns(q) = [i \in DOMAIN dsInterop |-> data[dsInterop[i]]]
    BY <2>1 DEF Returns
  <2>5. 2 \in DOMAIN dsInterop /\ dsInterop[2] = "Mod"
    BY DEF dsInterop
  <2> QED BY <2>2, <2>3, <2>4, <2>5
<1>8. ASSUME Fine PROVE Grants(p, q) /\ (k = 1 => Returns(q) = lds)
  <2>1. ld # NoName /\ (k # 1 => device[p] = ld) /\ ld \in ToSet(lds)
    <3>1. At(p, 1) => k = 1
      BY <1>1, ClientPlace
    <3>2. ld # NoName /\ IedTypes
      BY <1>8 DEF Fine, ScriptsInv, BaseInv
    <3>3. ld \in ToSet(lds)
      BY <3>2, Resolves
    <3>4. ~At(p, 1) => device[p] = ld
      BY <1>8 DEF ClientFine
    <3> QED BY <3>1, <3>2, <3>3, <3>4
  <2>2. CASE k = 1
    <3>1. q.how = "get-server-directory"
      BY <1>3, <1>4, <2>2
    <3> HIDE DEF q
    <3>2. Grants(p, q)
      BY <3>1 DEF Grants
    <3>3. Returns(q) = lds
      BY <3>1 DEF Returns
    <3> QED BY <3>2, <3>3
  <2>3. CASE k # 1
    <3>1. q.ld = ld
      BY <1>3, <2>1, <2>3
    <3>2. q.how # "get-ld-directory" /\ q.how # "get-server-directory" => q.how \in {"get-ln-directory", "read", "write", "read-dataset", "conclude"}
      <4>1. k \in {1, 2, 3, 10, 11, 12} \/ k \in 4 .. 9
        OBVIOUS
      <4> QED BY <1>3, <1>4, <4>1
    <3>3. q.how = "read" => q.on \in DOMAIN data
      <4>1. k \in {1, 2, 3, 10, 11, 12} \/ k \in 4 .. 9
        OBVIOUS
      <4>2. q.how = "read" => k \in 4 .. 9
        BY <1>3, <1>4, <4>1
      <4> QED BY <1>3, <1>4, <1>5, <4>2
    <3>4. q.how = "write" => q.on = "Mod"
      <4>1. k \in {1, 2, 3, 10, 11, 12} \/ k \in 4 .. 9
        OBVIOUS
      <4>2. q.how = "write" => k = 10
        BY <1>3, <1>4, <4>1
      <4> QED BY <1>3, <1>4, <4>2
    <3>5. q.how # "get-server-directory"
      BY <1>1, <1>3, <2>3, ClientPlace
    <3> HIDE DEF q
    <3>6. CASE q.how = "get-ld-directory"
      BY <2>1, <2>3, <3>1, <3>6 DEF Grants
    <3>7. CASE q.how # "get-ld-directory"
      <4>1. Permits(p, q)
        <5>1. CASE q.how = "read"
          BY <3>3, <5>1 DEF Permits
        <5>2. CASE q.how = "write"
          BY <1>5, <3>4, <5>2 DEF Permits, Constraint, WriteAllowed
        <5>3. CASE q.how \in {"get-ln-directory", "read-dataset", "conclude"}
          BY <5>3 DEF Permits
        <5> QED BY <3>2, <3>5, <3>7, <5>1, <5>2, <5>3
      <4> QED BY <2>3, <3>1, <3>5, <3>7, <4>1 DEF Grants
    <3> QED BY <3>6, <3>7
  <2> QED BY <2>2, <2>3
<1>9. ASSUME Fine' PROVE a.ok /\ (At(p, 1)' => a.value = lds')
  BY <1>2, <1>8, <1>9 DEF Done1
<1> QED BY <1>2, <1>6, <1>7, <1>9 DEF Told

LEMMA TakenTold ==
  ASSUME NEW p, NEW a, Returned(p, a), WireInv(p), ClientTold(p), ClientFine(p),
         Fine' => Fine /\ trouble' = trouble, trouble \in Nat
  PROVE  a.ok \/ Fine' => Told(p, a)
<1>1. ASSUME phase[p] = "wait", late[p] = 0, pdus[p] # << >>, Head(pdus[p]).kind = "answer", a = Head(pdus[p])
      PROVE  Told(p, a)
  <2>1. Awaiting(p) /\ \A b : LastIs(pdus[p], b) => b = a
    BY <1>1, Taken
  <2> QED BY <2>1 DEF ClientTold
<1>2. NoAnswer.ok = FALSE
  BY DEF NoAnswer
<1>3. ASSUME Fine' PROVE trouble' # trouble + 1 /\ joined[p] # "lost"
  BY <1>3 DEF ClientFine
<1> QED BY <1>1, <1>2, <1>3 DEF Returned

LEMMA ClientAnswered ==
  ASSUME ScriptsInv, NEW p \in Procs, cast[p].kind = "client", cast' = cast, lds' = lds,
         NEW a, Returned(p, a), ClientSees(p, a), ClientInv(p), Fine' => Fine /\ trouble' = trouble
  PROVE  ClientInv(p)'
<1> DEFINE s == Script(cast[p])
           o == Head(todo[p])
<1>1. /\ WireInv(p) /\ trouble \in Nat /\ IedTypes /\ Placed(p) /\ NotBegun(p) /\ IsRole(cast[p])
      /\ IsSeq(s) /\ Len(s) = 12
  BY Roles, ClientOps DEF ScriptsInv, BaseInv, IedTypes, ScriptInv, ScriptPlace, IsRole
<1>2. PICK k \in 1 .. 12 : At(p, k)
  BY <1>1 DEF Placed
<1>3. k < 12 /\ At(p, k + 1)'
  BY <1>1, <1>2, ClientAdvances
<1>4. \A j \in 1 .. 12 : At(p, j)' => j = k + 1
  <2>1. \A j \in 1 .. 12 : At(p, j)' => From(s, j) = From(s, k + 1)
    BY <1>3 DEF At
  <2>2. k + 1 \in 1 .. 12
    BY <1>3
  <2> HIDE DEF s
  <2> QED BY <1>1, <2>1, <2>2, FromOne
<1>5. a.ok \/ Fine' => Told(p, a)
  BY <1>1, TakenTold DEF ClientInv
<1>6. /\ phase'[p] = "ready" /\ failed'[p] = (failed[p] \/ ~(a.ok /\ Resolved(o, a)))
      /\ lines'[p] = lines[p] \o ClientLines(o, a) /\ phase[p] \in {"ready", "wait"}
      /\ iedServer' = iedServer /\ joined'[p] = joined[p]
  BY DEF ClientSees, Failed, Returned
<1>7. IsSeq(lines[p]) /\ ied # "down"
  BY <1>1, <1>6 DEF Placed, NotBegun
<1>8. NotOk(lines'[p]) <=> NotOk(lines[p]) \/ ~(a.ok /\ Resolved(o, a))
  <2>1. IsSeq(ClientLines(o, a)) /\ (NotOk(ClientLines(o, a)) <=> ~(a.ok /\ Resolved(o, a)))
    BY ClientLinesOk
  <2>2. NotOk(lines[p] \o ClientLines(o, a)) <=> NotOk(lines[p]) \/ NotOk(ClientLines(o, a))
    BY <1>7, <2>1, NotOkConcat
  <2> QED BY <1>6, <2>1, <2>2
<1>9. ClientTold(p)'
  BY <1>6 DEF ClientTold, Awaiting
<1>10. ClientCode(p)'
  <2>1. failed[p] <=> NotOk(lines[p])
    BY <1>6 DEF ClientInv, ClientCode
  <2>2. failed'[p] <=> NotOk(lines'[p])
    BY <1>6, <1>8, <2>1, Zenon
  <2> QED BY <1>6, <2>2 DEF ClientCode
<1>11. ~failed'[p] => ~failed[p] /\ a.ok /\ Told(p, a)
  BY <1>5, <1>6, Zenon
<1>12. ASSUME At(p, 12)', ~failed'[p] PROVE ReadFive(p)'
  <2>1. k = 11
    BY <1>3, <1>4, <1>12
  <2>2. o.how = "read-dataset" /\ a.value[2] = 5 /\ a.ok
    <3>1. o.how = "read-dataset"
      BY <1>2, <2>1, ClientPlace, ClientOps
    <3> QED BY <1>2, <1>11, <1>12, <2>1, <3>1 DEF Told
  <2>3. /\ IsSeq(ClientLines(o, a)) /\ Len(ClientLines(o, a)) \in Nat \ {0}
        /\ ClientLines(o, a)[1] = Line(o.how, a.ok, a.value)
    BY ClientLinesOk
  <2> DEFINE t == ClientLines(o, a)
             n == Len(lines[p]) + 1
  <2> HIDE DEF t
  <2>4. /\ IsSeq(lines'[p]) /\ Len(lines'[p]) = Len(lines[p]) + Len(t)
        /\ \A i \in 1 .. Len(t) : lines'[p][Len(lines[p]) + i] = t[i]
    <3>1. lines'[p] = lines[p] \o t /\ IsSeq(t)
      BY <1>6, <2>3 DEF t
    <3> QED BY <1>7, <3>1, SeqConcat
  <2>5. n \in 1 .. Len(lines'[p]) /\ lines'[p][n] = t[1]
    <3>1. Len(lines[p]) \in Nat /\ Len(t) \in Nat \ {0}
      BY <1>7, <2>3, SeqLen DEF t
    <3>2. 1 \in 1 .. Len(t)
      BY <3>1
    <3>3. lines'[p][n] = t[1]
      BY <2>4, <3>2
    <3> QED BY <2>4, <3>1, <3>3
  <2>6. n \in DOMAIN lines'[p]
    BY <2>4, <2>5, SeqLen
  <2>7. lines'[p][n] = Line(o.how, a.ok, a.value)
    BY <2>3, <2>5 DEF t
  <2>8. lines'[p][n].op = "read-dataset" /\ lines'[p][n].ok /\ lines'[p][n].value[2] = 5
    BY <2>2, <2>7 DEF Line
  <2> HIDE DEF n
  <2> QED BY <2>6, <2>8 DEF ReadFive, SaidAt
<1>13. ASSUME At(p, 11)', ~failed'[p] PROVE ied' # "down" /\ data'["Mod"] = 5
  <2>1. k = 10
    BY <1>3, <1>4, <1>13
  <2>2. data["Mod"] = 5
    BY <1>2, <1>11, <1>13, <2>1 DEF Told
  <2> QED BY <1>6, <1>7, <2>2 DEF iedServer
<1>14. ClientRead(p)'
  BY <1>12, <1>13 DEF ClientRead
<1>15. ASSUME Fine'
       PROVE  ~failed'[p] /\ late'[p] = 0 /\ joined'[p] # "lost" /\ device'[p] = ld'
  <2>1. /\ Fine /\ trouble' = trouble /\ Told(p, a)
        /\ ~failed[p] /\ late[p] = 0 /\ joined[p] # "lost"
    BY <1>5, <1>15 DEF ClientInv, ClientFine
  <2>2. a.ok /\ (k = 1 => a.value = lds)
    BY <1>2, <1>15, <2>1 DEF Told
  <2>3. ld # NoName /\ resolve_interop_ld(lds) = ld
    BY <1>1, <2>1, Resolves DEF Fine
  <2>4. k = 1 <=> o.how = "get-server-directory"
    BY <1>2, ClientPlace
  <2>5. Resolved(o, a)
    BY <2>2, <2>3, <2>4 DEF Resolved
  <2>6. late'[p] = 0
    BY <1>1, <2>1 DEF Returned
  <2>7. device'[p] = ld
    <3>1. CASE k = 1
      BY <2>2, <2>3, <2>4, <2>5, <3>1 DEF ClientSees
    <3>2. CASE k # 1
      <4>1. ~At(p, 1)
        BY <1>2, <3>2, ClientPlace
      <4>2. device[p] = ld
        BY <1>6, <2>1, <4>1 DEF ClientInv, ClientFine
      <4> QED BY <2>4, <3>2, <4>2 DEF ClientSees
    <3> QED BY <3>1, <3>2
  <2>8. ld' = ld
    BY DEF ld
  <2> QED BY <1>6, <2>1, <2>2, <2>5, <2>6, <2>7, <2>8
<1>16. ClientFine(p)'
  BY <1>15 DEF ClientFine
<1> QED BY <1>9, <1>10, <1>14, <1>16 DEF ClientInv

(* A line that says it all stays.                                          *)
LEMMA ReadStays ==
  ASSUME NEW p, IsSeq(lines[p]), NEW t, IsSeq(t), lines'[p] = lines[p] \o t, ReadFive(p)
  PROVE  ReadFive(p)'
<1>1. /\ IsSeq(lines'[p]) /\ Len(lines'[p]) = Len(lines[p]) + Len(t)
      /\ \A i \in 1 .. Len(lines[p]) : lines'[p][i] = lines[p][i]
  BY SeqConcat
<1>2. /\ DOMAIN lines[p] = 1 .. Len(lines[p]) /\ DOMAIN lines'[p] = 1 .. Len(lines'[p])
      /\ Len(lines[p]) \in Nat /\ Len(t) \in Nat
  BY <1>1, SeqLen
<1>3. \A i \in DOMAIN lines[p] : i \in DOMAIN lines'[p] /\ lines'[p][i] = lines[p][i]
  BY <1>1, <1>2
<1> QED BY <1>3 DEF ReadFive, SaidAt

LEMMA ClientAssociates ==
  ASSUME ScriptsInv, NEW p \in Procs, cast[p].kind = "client", cast' = cast, lds' = lds,
         Associates(p), ClientInv(p), Fine' => Fine
  PROVE  ClientInv(p)'
<1>1. Placed(p) /\ phase[p] = "new"
  BY DEF ScriptsInv, ScriptInv, ScriptPlace, Associates
<1>2. At(p, 1) /\ todo'[p] = todo[p]
  BY <1>1 DEF Placed, Associates, SameScript
<1>3. At(p, 1)' /\ ~At(p, 11)' /\ ~At(p, 12)'
  <2>1. \A k : At(p, k)' <=> At(p, k)
    BY <1>2 DEF At
  <2> QED BY <1>2, <2>1, ClientPlace
<1>4. /\ phase'[p] = (IF ied = "up" THEN "ready" ELSE "exit") /\ code'[p] = (IF ied = "up" THEN code[p] ELSE 2)
      /\ lines'[p] = <<Line("associate", ied = "up", << >>)>> /\ failed'[p] = failed[p] /\ ~failed[p]
  BY <1>1 DEF Associates, ClientInv, ClientCode
<1>5. NotOk(lines'[p]) <=> ied # "up"
  <2>1. Line("associate", ied = "up", << >>).ok <=> ied = "up"
    BY DEF Line
  <2> QED BY <1>4, <2>1, NotOkOne
<1>6. ClientCode(p)'
  <2>1. CASE ied = "up"
    <3>1. phase'[p] = "ready" /\ ~failed'[p] /\ ~NotOk(lines'[p])
      BY <1>4, <1>5, <2>1
    <3> QED BY <3>1 DEF ClientCode
  <2>2. CASE ied # "up"
    <3>1. phase'[p] = "exit" /\ code'[p] = 2
      BY <1>4, <2>2
    <3> QED BY <3>1 DEF ClientCode
  <2> QED BY <2>1, <2>2
<1>7. ClientTold(p)'
  <2>1. phase'[p] # "wait"
    BY <1>4
  <2> QED BY <2>1 DEF ClientTold, Awaiting
<1>8. ClientRead(p)'
  BY <1>3 DEF ClientRead
<1>9. ClientFine(p)'
  <2>1. late'[p] = late[p] /\ (joined'[p] = "up" \/ joined'[p] = joined[p])
    BY DEF Associates
  <2> QED BY <1>3, <1>4, <2>1 DEF ClientInv, ClientFine
<1> QED BY <1>6, <1>7, <1>8, <1>9 DEF ClientInv

LEMMA ClientConcludes ==
  ASSUME ScriptsInv, NEW p \in Procs, cast[p].kind = "client", cast' = cast, lds' = lds,
         Concludes(p), ClientInv(p), Fine' => Fine
  PROVE  ClientInv(p)'
<1>1. Placed(p) /\ phase[p] = "ready" /\ IsSeq(lines[p])
  BY DEF ScriptsInv, ScriptInv, ScriptPlace, Concludes, Placed
<1>2. todo'[p] = todo[p] /\ failed'[p] = failed[p] /\ phase'[p] = "exit" /\ joined'[p] = "off"
      /\ late'[p] = late[p] /\ code'[p] = (IF failed[p] THEN 3 ELSE 0)
  BY DEF Concludes, Ended, SameScript
<1>3. PICK k \in 1 .. 12 : At(p, k)
  BY <1>1, ClientOps DEF Placed
<1>4. At(p, 12) /\ At(p, 12)' /\ ~At(p, 11)'
  <2>1. k = 12
    BY <1>3, ClientPlace DEF Concludes
  <2>2. ~At(p, 11)
    BY <1>3, <2>1, ClientPlace
  <2> QED BY <1>2, <1>3, <2>1, <2>2 DEF At
<1>5. PICK t : lines'[p] = lines[p] \o t /\ IsSeq(t) /\ ~NotOk(t)
  <2>1. CASE lines'[p] = lines[p] \o << >>
    BY <2>1, SeqEmpty, NotOkOne
  <2>2. CASE lines'[p] = lines[p] \o <<Line("conclude", TRUE, << >>)>>
    <3>1. Line("conclude", TRUE, << >>).ok
      BY DEF Line
    <3> QED BY <2>2, <3>1, SeqOne, NotOkOne
  <2> QED BY <2>1, <2>2 DEF Concludes, Ended
<1>6. NotOk(lines'[p]) <=> NotOk(lines[p])
  BY <1>1, <1>5, NotOkConcat
<1>7. ClientCode(p)'
  <2>1. failed[p] <=> NotOk(lines[p])
    BY <1>1 DEF ClientInv, ClientCode
  <2> QED BY <1>2, <1>4, <1>6, <2>1 DEF ClientCode
<1>8. ClientRead(p)'
  BY <1>1, <1>2, <1>4, <1>5, ReadStays DEF ClientInv, ClientRead
<1>9. ClientTold(p)'
  BY <1>2 DEF ClientTold, Awaiting
<1>10. ClientFine(p)'
  BY <1>2 DEF ClientInv, ClientFine
<1> QED BY <1>7, <1>8, <1>9, <1>10 DEF ClientInv

(* p itself does not go on.                                                *)
LEMMA ClientHolds ==
  ASSUME ScriptsInv, DataMoves, NEW p \in Procs, cast[p].kind = "client", cast' = cast, lds' = lds,
         todo'[p] = todo[p], failed'[p] = failed[p], lines'[p] = lines[p], code'[p] = code[p],
         device'[p] = device[p], phase'[p] = phase[p] \/ (phase[p] = "ready" /\ phase'[p] = "wait"),
         ClientInv(p), Fine' => Fine /\ late'[p] = late[p] /\ joined'[p] = joined[p]
  PROVE  /\ ClientCode(p)' /\ ClientRead(p)' /\ ClientFine(p)'
         /\ \A a : Told(p, a) /\ phase[p] = "wait" => Told(p, a)'
<1>1. \A k : At(p, k)' <=> At(p, k)
  BY DEF At
<1>2. ClientCode(p)'
  BY <1>1 DEF ClientInv, ClientCode
<1>3. ied # "down" => ied' # "down" /\ (data["Mod"] = 5 => data'["Mod"] = 5)
  BY DataInvStep, ModStays DEF ScriptsInv
<1>4. ClientRead(p)'
  <2>1. ReadFive(p) => ReadFive(p)'
    BY DEF ReadFive, SaidAt
  <2> QED BY <1>1, <1>3, <2>1 DEF ClientInv, ClientRead
<1>5. ClientFine(p)'
  <2>1. ld' = ld
    BY DEF ld
  <2>2. ASSUME Fine'
        PROVE  /\ ~failed'[p] /\ late'[p] = 0 /\ joined'[p] # "lost"
               /\ (phase'[p] \in {"ready", "wait"} /\ ~At(p, 1)' => device'[p] = ld')
    BY <1>1, <2>1, <2>2 DEF ClientInv, ClientFine
  <2> QED BY <2>2 DEF ClientFine
<1>6. ASSUME NEW a, Told(p, a), phase[p] = "wait" PROVE Told(p, a)'
  <2>1. ied # "down"
    BY <1>6 DEF ScriptsInv, ScriptInv, NotBegun
  <2> QED BY <1>1, <1>3, <1>6, <2>1 DEF Told
<1> QED BY <1>2, <1>4, <1>5, <1>6

(* The answer that ied-client waits for stays the last one of its queue.   *)
LEMMA LastKept ==
  ASSUME NEW p, WireInv(p), Discards(p) \/ Begins(p), Awaiting(p), NEW a, LastIs(pdus[p], a)
  PROVE  LastIs(pdus'[p], a)
<1>1. pdus[p] # << >> /\ pdus'[p] = Tail(pdus[p]) /\ IsSeq(pdus[p])
  BY DEF Discards, Begins, WireInv
<1>2. Head(pdus[p]).kind # "answer" \/ Answers(pdus[p]) # 1
  <2>1. CASE Begins(p)
    BY <2>1 DEF Begins
  <2>2. CASE Discards(p)
    <3>1. Len(asked[p]) = 0
      BY SeqEmpty, SeqNil DEF Awaiting
    <3>2. Answers(pdus[p]) + Len(asked[p]) = late[p] + 1 /\ late[p] > 0
      BY <2>2 DEF WireInv, Waiting, Awaiting, Discards
    <3>3. Answers(pdus[p]) \in Nat /\ late[p] \in Nat
      BY WireNumbers
    <3> QED BY <3>1, <3>2, <3>3
  <2> QED BY <2>1, <2>2
<1> QED BY <1>1, <1>2, TailKeepsLast

(* A step in which ied-client gets no answer.                              *)
LEMMA ClientKeeps ==
  ASSUME ScriptsInv, DataMoves, NEW p \in Procs, cast[p].kind = "client", cast' = cast, lds' = lds,
         ClientInv(p), Fine' => Fine /\ trouble' = trouble,
         \/ Alone(p) \/ Performs(p) \/ Notified(p) \/ Loses(p)
         \/ (Requests(p) \/ Discards(p) \/ Begins(p) \/ Posts(p))
            /\ todo'[p] = todo[p] /\ lines'[p] = lines[p] /\ failed'[p] = failed[p] /\ code'[p] = code[p]
            /\ (phase'[p] = phase[p] \/ Requests(p))
  PROVE  ClientInv(p)'
<1>1. WireInv(p) /\ AskInv(p) /\ trouble \in Nat
  BY DEF ScriptsInv, BaseInv, IedTypes
<1>2. /\ todo'[p] = todo[p] /\ failed'[p] = failed[p] /\ lines'[p] = lines[p] /\ code'[p] = code[p]
      /\ device'[p] = device[p] /\ (phase'[p] = phase[p] \/ Requests(p))
  BY DEF Alone, Performs, Notified, Loses, Requests, Discards, Begins, Posts, SameScript, SameEnd, SameLines
<1>3. phase'[p] = phase[p] \/ (phase[p] = "ready" /\ phase'[p] = "wait")
  BY <1>2 DEF Requests
<1>4. ASSUME Fine' PROVE Fine /\ late'[p] = late[p] /\ joined'[p] = joined[p]
  <2>1. Fine /\ trouble' = trouble /\ late[p] = 0
    BY <1>4 DEF ClientInv, ClientFine
  <2>2. ~Loses(p) /\ ~Discards(p)
    BY <1>1, <2>1 DEF Loses, Discards
  <2> QED BY <2>1, <2>2 DEF Alone, Performs, Notified, Requests, Begins, Posts, SameWires, SameLines
<1>5. /\ ClientCode(p)' /\ ClientRead(p)' /\ ClientFine(p)'
      /\ \A a : Told(p, a) /\ phase[p] = "wait" => Told(p, a)'
  BY <1>2, <1>3, <1>4, ClientHolds
<1>6. ASSUME Awaiting(p)' PROVE \E a : LastIs(pdus'[p], a) /\ Told(p, a)'
  <2>1. phase'[p] = "wait" /\ joined'[p] = "up" /\ asked'[p] = << >>
    BY <1>6 DEF Awaiting
  <2>2. ~Requests(p) /\ ~Loses(p)
    <3>1. ASSUME Requests(p) PROVE asked'[p] # << >>
      <4>1. asked'[p] = Append(asked[p], Req(p)) /\ IsSeq(asked[p])
        BY <1>1, <3>1 DEF Requests, WireInv
      <4>2. \A x : Append(asked[p], x) # << >>
        BY <4>1, Appended
      <4> QED BY <4>1, <4>2
    <3> QED BY <2>1, <3>1 DEF Loses
  <2>3. phase[p] = "wait"
    BY <1>2, <2>1, <2>2
  <2>4. CASE Performs(p)
    <3>1. Head(asked[p]) = Req(p) /\ LastIs(pdus'[p], Done1(p))
      BY <1>1, <2>1, <2>3, <2>4, PerformsWires
    <3>2. \A a : a = Done1(p) => Told(p, a)'
      BY <1>4, <2>3, <2>4, <3>1, ClientPerformed DEF ClientInv
    <3> QED BY <3>1, <3>2
  <2>5. CASE Alone(p) \/ Notified(p) \/ Discards(p) \/ Begins(p) \/ Posts(p)
    <3>1. Awaiting(p)
      BY <2>1, <2>3, <2>5 DEF Awaiting, Alone, Notified, Discards, Begins, Posts, SameWires
    <3>2. PICK a : LastIs(pdus[p], a) /\ Told(p, a)
      BY <3>1 DEF ClientInv, ClientTold
    <3>3. Told(p, a)'
      BY <1>5, <2>3, <3>2
    <3>4. LastIs(pdus'[p], a)
      <4>1. CASE Alone(p) \/ Posts(p)
        BY <3>2, <4>1 DEF Alone, Posts, SameWires
      <4>2. CASE Notified(p)
        BY <1>1, <3>1, <3>2, <4>2, NotifiedWires DEF Awaiting
      <4>3. CASE Discards(p) \/ Begins(p)
        BY <1>1, <3>1, <3>2, <4>3, LastKept
      <4> QED BY <2>5, <4>1, <4>2, <4>3
    <3> QED BY <3>3, <3>4
  <2> QED BY <2>2, <2>4, <2>5
<1>7. ClientTold(p)'
  BY <1>6 DEF ClientTold
<1> QED BY <1>5, <1>7 DEF ClientInv

ClientsInv == ScriptsInv /\ \A p \in Procs : cast[p].kind = "client" => ClientInv(p)

LEMMA ClientsInit == ASSUME IedInit PROVE ClientsInv
<1>1. ScriptsInv
  BY ScriptsInit
<1>2. ASSUME NEW p \in Procs, cast[p].kind = "client" PROVE ClientInv(p)
  <2>1. /\ phase[p] = "new" /\ lines[p] = << >> /\ ~failed[p] /\ late[p] = 0 /\ joined[p] = "off"
    BY DEF IedInit, IedServerInit, ProgramInit
  <2>2. ~NotOk(lines[p])
    BY <2>1, NotOkOne
  <2>3. At(p, 1)
    BY <1>1, <1>2, <2>1 DEF ScriptsInv, ScriptInv, ScriptPlace, Placed
  <2>4. ~At(p, 11) /\ ~At(p, 12)
    BY <1>2, <2>3, ClientPlace
  <2>5. ClientTold(p) /\ ClientCode(p)
    BY <2>1, <2>2 DEF ClientTold, ClientCode, Awaiting
  <2>6. ClientRead(p) /\ ClientFine(p)
    BY <2>1, <2>4 DEF ClientRead, ClientFine
  <2> QED BY <2>5, <2>6 DEF ClientInv
<1> QED BY <1>1, <1>2 DEF ClientsInv

LEMMA ClientsStep ==
  ASSUME ClientsInv, [IedNext]_iedVars
  PROVE  ClientsInv'
<1>1. ScriptsInv /\ ScriptsInv' /\ IedTypes /\ cast' = cast /\ lds' = lds /\ Procs' = Procs /\ DataMoves
  BY ScriptsStep, CastKept, DataStep DEF ClientsInv, ScriptsInv, BaseInv
<1>2. Fine' => Fine /\ trouble' = trouble
  BY <1>1, FineBefore
<1>3. ASSUME NEW p \in Procs, cast[p].kind = "client" PROVE ClientInv(p)'
  <2>1. ClientInv(p) /\ Placed(p)
    BY <1>1, <1>3 DEF ClientsInv, ScriptsInv, ScriptInv, ScriptPlace
  <2>2. Alone(p) \/ OwnStep(p) \/ Performs(p) \/ Notified(p) \/ Loses(p)
    BY <1>1, IedMoves DEF ScriptsInv, BaseInv
  <2>3. CASE OwnStep(p)
    <3>1. CASE \E a : Returned(p, a) /\ (ControllerSees(p, a) \/ ClientSees(p, a) \/ ReporterSees(p, a))
      <4>1. PICK a : Returned(p, a) /\ ClientSees(p, a)
        BY <1>3, <3>1 DEF ControllerSees, ReporterSees
      <4> QED BY <1>1, <1>2, <1>3, <2>1, <4>1, ClientAnswered
    <3>2. CASE Associates(p)
      BY <1>1, <1>2, <1>3, <2>1, <3>2, ClientAssociates
    <3>3. CASE Concludes(p)
      BY <1>1, <1>2, <1>3, <2>1, <3>3, ClientConcludes
    <3>4. CASE /\ Requests(p) \/ Discards(p) \/ Begins(p) \/ Posts(p)
               /\ todo'[p] = todo[p] /\ lines'[p] = lines[p] /\ failed'[p] = failed[p] /\ code'[p] = code[p]
               /\ (phase'[p] = phase[p] \/ Requests(p))
      BY <1>1, <1>2, <1>3, <2>1, <3>4, ClientKeeps
    <3> QED BY <1>1, <2>1, <2>3, <3>1, <3>2, <3>3, <3>4, StaysPut
  <2>4. CASE Alone(p) \/ Performs(p) \/ Notified(p) \/ Loses(p)
    BY <1>1, <1>2, <1>3, <2>1, <2>4, ClientKeeps
  <2> QED BY <2>2, <2>3, <2>4
<1> QED BY <1>1, <1>3 DEF ClientsInv

(* The exit code of ied-client tells what its lines say: 3 exactly when a  *)
(* line is not ok; with 0 the data set was read with the value just        *)
(* written, and so it ends when nothing went wrong and the model is there. *)
THEOREM ExitCodesTell == IedSpec => []ExitTells
<1>1. IedInit => ClientsInv
  BY ClientsInit
<1>2. ClientsInv /\ [IedNext]_iedVars => ClientsInv'
  BY ClientsStep
<1>3. ASSUME ClientsInv, NEW p \in Of("client"), Over(p)
      PROVE  /\ code[p] = 3 <=> \E i \in DOMAIN lines[p] : ~lines[p][i].ok
             /\ code[p] = 0 =>
                  \E i \in DOMAIN lines[p] : SaidAt(p, "read-dataset", i) /\ lines[p][i].value[2] = 5
             /\ trouble = 0 /\ ld # NoName => code[p] = 0
  <2>1. p \in Procs /\ ClientInv(p) /\ phase[p] = "exit" /\ code[p] # 2
    BY <1>3 DEF ClientsInv, Of, Over
  <2>2. At(p, 12) /\ code[p] = (IF failed[p] THEN 3 ELSE 0) /\ (failed[p] <=> NotOk(lines[p]))
    BY <2>1 DEF ClientInv, ClientCode
  <2>3. code[p] = 3 <=> NotOk(lines[p])
    BY <2>2
  <2>4. code[p] = 0 => ReadFive(p)
    BY <2>1, <2>2 DEF ClientInv, ClientRead
  <2>5. trouble = 0 /\ ld # NoName => code[p] = 0
    BY <2>1, <2>2 DEF ClientInv, ClientFine, Fine
  <2> QED BY <2>3, <2>4, <2>5 DEF NotOk, ReadFive
<1>4. ClientsInv => ExitTells
  BY <1>3 DEF ExitTells
<1> QED BY <1>1, <1>2, <1>4, PTL DEF IedSpec
=============================================================================
