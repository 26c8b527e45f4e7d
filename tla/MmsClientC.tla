----------------------------- MODULE MmsClientC -----------------------------
(***************************************************************************)
(* The libiec61850 (C) mms-client: four associations one after the other,  *)
(* each with its script of calls, one line on stdout per operation.  The   *)
(* main thread blocks in a call until the connection thread hands it the   *)
(* answer; that thread also runs report_handler.  Lines of mms_client.c    *)
(* are printed without a lock, those of mms_client_services.c, by either   *)
(* thread, under g_out_mu, text and line end apart.                        *)
(*                                                                         *)
(* Values are those of MmsFixtureC.  Waiting is counted in rounds of       *)
(* usleep.                                                                 *)
(***************************************************************************)
EXTENDS MmsAssociation

CONSTANTS
  WaitRounds,   (* Rounds svc_reports waits at most (60).                  *)
  QuietRounds,  (* Rounds without a report that end the wait (6).          *)
  MaxGot        (* Bound: names or bytes of a loop that are remembered.    *)

ASSUME ClientAssumption == {WaitRounds, QuietRounds, MaxGot} \subseteq Nat

VARIABLES
  main,         (* "connect", "call", "wait", "print", "quiet", "close",   *)
                (* "exit".                                                 *)
  conn, pos,    (* Association 1 .. 4, and the place in its script.        *)
  cur,          (* The call being made.                                    *)
  resp,         (* What it returned.                                       *)
  got,          (* Names or bytes collected by the loop of an operation.   *)
  lost,         (* on_connection_lost was called.                          *)
  stale,        (* Answers to come of calls that timed out.                *)
  reporter,     (* Connection thread: "idle", or "mid" between two fputs.  *)
  reported,     (* g_report_count.                                         *)
  before,       (* g_report_count when svc_reports began.                  *)
  waited, quiet, last,  (* The loop of svc_reports.                        *)
  line,         (* The last operation's line: [call, ok, resp, got, link]. *)
  torn,         (* History: a line was printed inside another.             *)
  timedout,     (* History: a call timed out.                              *)
  exit          (* The exit code, or -1.                                   *)

thread == <<reporter, reported>>
waiting == <<before, waited, quiet, last>>
history == <<line, torn, timedout>>
client == <<main, conn, pos, cur, resp, got, lost, stale, thread, waiting, history, exit>>

-----------------------------------------------------------------------------
(* The scripts.                                                            *)

Scalar(type, n) == [type |-> type, elems |-> << >>, v |-> <<n>>]
IntOf(n) == Scalar("integer", n)
BoolOf(n) == Scalar("boolean", n)
IntsOf(s) == [type |-> "array", elems |-> [i \in DOMAIN s |-> "integer"], v |-> s]

Ask(how, on) == Call(how, "plain", on, << >>, << >>)
RawRead(on) == Call("read", "raw", on, << >>, << >>)
Read(on, at) == Call("read", "checked", on, at, << >>)
Write(on, at, x) == Call("write", "write", on, at, <<x>>)

Phase1A ==
  <<Ask("vmd", "identify"), Ask("vmd", "domains"), Ask("domain", "interop"), RawRead("boolean"),
    RawRead("integer"), RawRead("float32"), Write("float32", << >>, Scalar("float32", 99)),
    RawRead("float32"), Write("octet-string", << >>, Scalar("octet-string", 222)),
    RawRead("boolean")>>

(* Step 5; "hello" is text 2.                                              *)
ScalarTypes ==
  <<RawRead("unsigned"), RawRead("visible-string"),
    Write("visible-string", << >>, Scalar("visible-string", 2)), RawRead("visible-string"),
    RawRead("octet-string"), RawRead("bit-string"), RawRead("utc-time"), RawRead("array"),
    RawRead("structure")>>

(* Step 6.                                                                 *)
DataModel ==
  <<Ask("attributes", "boolean"), Ask("read-multiple", "interop"),
    Call("write-multiple", "partial", "interop", << >>, <<BoolOf(0), IntOf(0)>>),
    Ask("define", "interop/testlist"), Ask("read-list", "interop/testlist"),
    Ask("delete", "interop/testlist")>>

(* Step 7.                                                                 *)
NegativeTests ==
  <<Read("unknown-domain/boolean", << >>), Read("nonexistent", << >>),
    Write("integer", << >>, BoolOf(1))>>

svc_status == <<Ask("vmd", "status"), Ask("vmd", "extended")>>

svc_name_lists ==
  <<Ask("domain", "interop"), Ask("vmd", "variables"), Ask("domain", "unknown-domain")>>

svc_type_specs == <<Ask("attributes", "array-rw"), Ask("attributes", "structure-rw")>>

(* Indices count from 1 here; component "count" is the second.             *)
svc_alternate_access ==
  <<Read("array", <<2, 3, 4>>), Read("array", <<3>>), Read("structure-rw", <<2>>),
    Write("array-rw", <<2>>, IntOf(21)), Write("array-rw", <<3, 4>>, IntsOf(<<33, 44>>)),
    Write("structure-rw", <<2>>, IntOf(99)), Read("array-rw", << >>), Read("structure-rw", << >>)>>

(* The calls on one named variable list.                                   *)
Members77 == <<BoolOf(1), IntOf(77)>>
WriteList(on, vals) == Call("write-list", "items", on, << >>, vals)

svc_named_variable_lists ==
  <<Ask("define", "interop/svclist"), Ask("domain", "interop"), Ask("list", "interop/svclist"),
    Ask("read-list", "interop/svclist"), WriteList("interop/svclist", Members77),
    Ask("read-list", "interop/svclist"), Ask("delete", "interop/svclist"),
    Ask("define", "vmd/vmdlist"), Ask("list", "vmd/vmdlist"), Ask("read-list", "vmd/vmdlist"),
    Ask("delete", "vmd/vmdlist"),
    Ask("list", "vmd/interop-report"), Ask("read-list", "vmd/interop-report"),
    Ask("define", "aa/aalist"), Ask("vmd", "aa/nvl"), Ask("list", "aa/aalist"),
    Ask("read-list", "aa/aalist"), WriteList("aa/aalist", <<BoolOf(1), IntOf(-123)>>),
    Ask("delete", "aa/aalist")>>

Open(name, position) == Call("open", "plain", name, <<position>>, << >>)
NewName(how, name, new) == Call(how, "plain", name, <<new>>, << >>)

List(spec) == Call("directory", "plain", EmptyName, <<spec>>, << >>)

svc_files ==
  <<List(EmptyName), List("COMTRADE"), List("COMTRADE\\"),
    Open("REC01.CFG", 0), Open("REC01.DAT", 4),
    Open("LARGE.BIN", 0), Open("NOTIME.TXT", 0), Open("NO-SUCH.FILE", 0), Ask("unlink", "DELETE.ME"),
    NewName("rename", "RENAME.ME", "RENAMED.ME"), NewName("obtain", "REC01.CFG", "OBTAINED.CFG"),
    List(EmptyName)>>

svc_journals ==
  <<Ask("journal", "log1"), Call("journal", "plain", "log1", <<2>>, << >>), Ask("journal", "nolog")>>

svc_reports == <<Write("report-trigger", << >>, IntOf(1)), Read("boolean", << >>)>>

run_services ==
  svc_status \o svc_name_lists \o svc_type_specs \o svc_alternate_access
    \o svc_named_variable_lists \o svc_files \o svc_journals \o svc_reports

OwnCalls == Phase1A \o ScalarTypes \o DataModel \o NegativeTests
Conclude == <<Ask("conclude", EmptyName)>>

run_sequence_full == OwnCalls \o run_services \o Conclude
run_sequence_short == <<RawRead("boolean")>> \o Conclude
run_abort == <<Read("boolean", << >>), Ask("abort", EmptyName)>>
run_server_abort == <<Call("write", "lost", "report-trigger", << >>, <<IntOf(-1)>>)>>

Scripts == <<run_sequence_full, run_sequence_short, run_abort, run_server_abort>>

(* The line is printed with emit_line.                                     *)
Locked(c, p) ==
  \/ c > 2
  \/ c = 1 /\ p > Len(OwnCalls) /\ p <= Len(OwnCalls) + Len(run_services)

-----------------------------------------------------------------------------
(* The rules for the lines.                                                *)

Failing(r) == {i \in DOMAIN r.items : r.items[i] # Success}

(* Mutant: emit_access_results looks at the last item only.                *)
LineOkMutant(say, r, gone) ==
  CASE say \in {"plain", "raw"} -> r.err = "none"
    [] say = "checked" -> r.err = "none" /\ r.items[1] = Success
    [] say = "write" -> r.err = "none" /\ r.items[1] = Success
    [] say \in {"items", "partial"} -> r.err = "none" /\ Len(r.items) \notin Failing(r)
    [] say = "lost" -> gone /\ r.err # "none"

(* jl_ok and jl_fail after each kind of call, check_read_val, emit_read,   *)
(* emit_write(_result), emit_access_results and run_server_abort.          *)
LineOk(say, r, gone) ==
  CASE say \in {"plain", "raw"} -> r.err = "none"
    [] say = "checked" -> r.err = "none" /\ r.items[1] = Success
    [] say = "write" -> r.err = "none" /\ r.items[1] = Success
    [] say \in {"items", "partial"} -> r.err = "none" /\ Failing(r) = {}
    [] say = "lost" -> gone /\ r.err # "none"

NoCall == Ask("none", EmptyName)
NoLine == [call |-> NoCall, ok |-> FALSE, resp |-> Refused("none"), got |-> << >>, link |-> "off"]

ClientInit ==
  /\ main = "connect" /\ conn = 1 /\ pos = 1
  /\ cur = NoCall /\ resp = Refused("none") /\ got = << >>
  /\ lost = FALSE /\ stale = 0
  /\ reporter = "idle" /\ reported = 0
  /\ before = 0 /\ waited = 0 /\ quiet = 0 /\ last = 0
  /\ line = NoLine /\ torn = FALSE /\ timedout = FALSE
  /\ exit = -1

-----------------------------------------------------------------------------
(* The main thread.                                                        *)

(* MmsConnection_connect; up says whether a server listens.                *)
Connect(up) ==
  /\ main = "connect"
  /\ lost' = FALSE
  /\ IF up
       THEN /\ link' = "up"
            /\ main' = "call" /\ cur' = Scripts[conn][1]
            /\ UNCHANGED <<conn, exit>>
       ELSE /\ link' = link
            /\ cur' = cur
            /\ main' = IF conn = 3 THEN "connect" ELSE "exit"
            /\ conn' = IF conn = 3 THEN 4 ELSE conn
            /\ exit' = CASE conn < 3 -> 2 [] conn = 3 -> exit [] OTHER -> 0
  /\ UNCHANGED <<faults, requests, inbox, pos, resp, got, stale, thread, waiting, history>>

(* The write svc_reports begins with.                                      *)
IsTrigger == conn = 1 /\ cur.how = "write" /\ cur.on = "report-trigger"

(* The call goes out; MmsConnection_abort waits for nobody, and a call on  *)
(* a lost connection returns at once.                                      *)
Send ==
  /\ main = "call"
  /\ IF link = "up" /\ cur.how # "abort"
       THEN requests' = Append(requests, cur) /\ main' = "wait" /\ resp' = resp
       ELSE /\ requests' = requests
            /\ main' = "print"
            /\ resp' = IF link = "up" THEN Done(<<Success>>, << >>) ELSE Refused("connection-lost")
  /\ before' = IF IsTrigger THEN reported ELSE before
  /\ UNCHANGED <<faults, link, inbox, conn, pos, cur, got, lost, stale, thread, waited, quiet, last,
                 history, exit>>

(* The connection thread hands over the answer.                            *)
Receive ==
  /\ inbox # << >> /\ Head(inbox).kind = "answer"
  /\ reporter = "idle"
  /\ stale = 0
  /\ main = "wait" /\ main' = "print"
  /\ resp' = Head(inbox).result
  /\ inbox' = Tail(inbox)
  /\ UNCHANGED <<faults, link, requests, conn, pos, cur, got, lost, stale, thread, waiting, history, exit>>

(* It drops a late answer, and a report nobody asked for.                  *)
Drop ==
  /\ inbox # << >> /\ reporter = "idle"
  /\ \/ Head(inbox).kind = "answer" /\ stale > 0 /\ stale' = stale - 1
     \/ Head(inbox).kind = "report" /\ conn # 1 /\ stale' = stale
  /\ inbox' = Tail(inbox)
  /\ UNCHANGED <<faults, link, requests, main, conn, pos, cur, resp, got, lost, thread, waiting, history,
                 exit>>

(* Outstanding calls end when the connection is lost, ...                  *)
CallLost ==
  /\ main = "wait" /\ link = "lost"
  /\ reporter = "idle"
  /\ main' = "print" /\ resp' = Refused("service-timeout")
  /\ UNCHANGED <<faults, association, conn, pos, cur, got, lost, stale, thread, waiting, history, exit>>

(* ... or when the answer is late.                                         *)
Timeout ==
  /\ main = "wait" /\ link = "up"
  /\ Disturb
  /\ timedout' = TRUE
  /\ stale' = stale + 1
  /\ main' = "print" /\ resp' = Refused("service-timeout")
  /\ UNCHANGED <<association, conn, pos, cur, got, lost, thread, waiting, line, torn, exit>>

(* on_connection_lost, on the connection thread.                           *)
ConnectionLost ==
  /\ link = "lost" /\ reporter = "idle" /\ ~lost
  /\ lost' = TRUE
  /\ UNCHANGED <<faults, association, main, conn, pos, cur, resp, got, stale, thread, waiting, history, exit>>

(* dc.last: the last name seen, that of an earlier page (the request's     *)
(* continue-after name) if this one is empty.                              *)
LastName == IF resp.data = << >> THEN cur.on ELSE resp.data[Len(resp.data)]

(* Mutant: no check for progress.                                          *)
GoesOnMutant ==
  /\ resp.err = "none"
  /\ \/ cur.how = "directory" /\ resp.more
     \/ cur.how = "file" /\ resp.more
     \/ cur.how = "open"

(* file_directory and file_read go on: the next request of the loop.  Only *)
(* a repeated last name ends a listing early, and nothing ends a file.     *)
GoesOn ==
  /\ resp.err = "none"
  /\ \/ cur.how = "directory" /\ resp.more /\ LastName # cur.on
     \/ cur.how = "file" /\ resp.more
     \/ cur.how = "open"

(* What the loop has collected so far.                                     *)
Gathered == IF Len(got) + Len(resp.data) <= MaxGot THEN got \o resp.data ELSE got

Continue ==
  /\ main = "print" /\ GoesOn
  /\ main' = "call"
  /\ cur' = CASE cur.how = "directory" -> [cur EXCEPT !.on = LastName]
              [] cur.how = "open" -> [cur EXCEPT !.how = "file"]
              [] cur.how = "file" -> [cur EXCEPT !.at = <<@[1] + Len(resp.data)>>]
  /\ got' = IF cur.how = "open" THEN << >> ELSE Gathered
  /\ UNCHANGED <<faults, association, conn, pos, resp, lost, stale, thread, waiting, history, exit>>

(* Mutant: the last answer only.                                           *)
CollectedMutant == IF resp.err = "none" THEN resp.data ELSE got

(* What the loop has collected when it ends.                               *)
Collected == IF resp.err = "none" THEN Gathered ELSE got

Next1 ==
  IF pos < Len(Scripts[conn])
    THEN pos' = pos + 1 /\ cur' = Scripts[conn][pos + 1] /\ main' = "call"
    ELSE pos' = pos /\ cur' = NoCall /\ main' = "close"

(* The operation's line, then file_close, the wait of svc_reports or the   *)
(* next operation.                                                         *)
PrintLine ==
  /\ main = "print" /\ ~GoesOn
  /\ Locked(conn, pos) => reporter = "idle"
  /\ torn' = (torn \/ reporter = "mid")
  /\ line' = [call |-> cur, ok |-> LineOk(cur.say, resp, lost), resp |-> resp, got |-> Collected,
              link |-> link]
  /\ got' = << >>
  /\ CASE cur.how = "file" ->
            /\ cur' = [cur EXCEPT !.how = "close"]
            /\ main' = "call"
            /\ UNCHANGED <<pos, waiting>>
       [] IsTrigger ->
            /\ main' = "quiet"
            /\ waited' = 0 /\ quiet' = 0 /\ last' = before
            /\ UNCHANGED <<pos, cur, before>>
       [] OTHER -> Next1 /\ UNCHANGED waiting
  /\ UNCHANGED <<faults, association, conn, resp, lost, stale, thread, timedout, exit>>

(* Mutant: quiet rounds count before the first report too.                 *)
QuietAfterMutant(n) == IF n # last THEN 0 ELSE quiet + 1

QuietAfter(n) == IF n # last THEN 0 ELSE IF n > before THEN quiet + 1 ELSE quiet

(* One round of the loop in svc_reports.                                   *)
WaitRound ==
  /\ main = "quiet" /\ waited < WaitRounds /\ quiet < QuietRounds
  /\ waited' = waited + 1
  /\ quiet' = QuietAfter(reported)
  /\ last' = reported
  /\ UNCHANGED <<faults, association, main, conn, pos, cur, resp, got, lost, stale, thread, before,
                 history, exit>>

WaitOver ==
  /\ main = "quiet" /\ ~(waited < WaitRounds /\ quiet < QuietRounds)
  /\ Next1
  /\ UNCHANGED <<faults, association, conn, resp, got, lost, stale, thread, waiting, history, exit>>

(* MmsConnection_destroy ends the connection thread; main goes on to the   *)
(* next association.                                                       *)
Destroy ==
  /\ main = "close" /\ reporter = "idle"
  /\ link' = "off" /\ requests' = << >> /\ inbox' = << >>
  /\ stale' = 0
  /\ pos' = 1
  /\ conn' = IF conn < 4 THEN conn + 1 ELSE conn
  /\ main' = IF conn < 4 THEN "connect" ELSE "exit"
  /\ exit' = IF conn < 4 THEN exit ELSE 0
  /\ UNCHANGED <<faults, cur, resp, got, lost, thread, waiting, history>>

-----------------------------------------------------------------------------
(* The connection thread: report_handler.                                  *)

ReportBegin ==
  /\ inbox # << >> /\ Head(inbox).kind = "report"
  /\ conn = 1 /\ reporter = "idle"
  /\ reporter' = "mid"
  /\ inbox' = Tail(inbox)
  /\ UNCHANGED <<faults, link, requests, main, conn, pos, cur, resp, got, lost, stale, reported, waiting,
                 history, exit>>

ReportEnd ==
  /\ reporter = "mid"
  /\ reporter' = "idle"
  /\ reported' = reported + 1
  /\ UNCHANGED <<faults, association, main, conn, pos, cur, resp, got, lost, stale, waiting, history,
                 exit>>

MainThread == Send \/ Continue \/ PrintLine \/ WaitRound \/ WaitOver \/ Destroy
ConnectionThread == Receive \/ Drop \/ CallLost \/ ConnectionLost \/ ReportBegin \/ ReportEnd
=============================================================================
