---------------------------- MODULE MmsStationC ----------------------------
(***************************************************************************)
(* The C mms-client against a peer:                                        *)
(*                                                                         *)
(*   "c"    the C mms-server of MmsServerC, stopped, killed and started    *)
(*          again at any time;                                             *)
(*   "any"  any server that answers in order: with success, with a data    *)
(*          access error or with a service error.  It sends its reports    *)
(*          after the answer, aborts when -1 is written to report-trigger, *)
(*          and may ignore continueAfter.                                  *)
(***************************************************************************)
EXTENDS MmsServerC, MmsClientC

CONSTANTS
  Reports,      (* Reports of the "any" server.                            *)
  FirstRounds,  (* Rounds within which its first report comes,             *)
  NextRounds,   (* and the others after it.                                *)
  MaxBytes      (* Bound: length of its files.                             *)

VARIABLES
  peer,
  owed,         (* Reports the "any" server has still to send.             *)
  lag,          (* Rounds since the trigger or the last report.            *)
  expect        (* History: what each variable must hold, where known.     *)

station == <<peer, owed, lag, expect>>
mmsVars == <<association, faults, server, client, station>>

MmsInit ==
  /\ link = "off" /\ requests = << >> /\ inbox = << >> /\ faults = 0
  /\ ServerInit
  /\ ClientInit
  /\ peer \in {"c", "any"}
  /\ peer = "any" => argument /\ root = 1
  /\ owed = 0 /\ lag = 0
  /\ expect = << >>

-----------------------------------------------------------------------------

(* What a client may expect to read after the line of the call it made.    *)
Unknown(names) == [n \in DOMAIN expect \ names |-> expect[n]]

Names(q) == IF q.how = "write" THEN <<q.on>> ELSE Members

Learn ==
  IF cur.how \notin {"write", "write-multiple", "write-list"} THEN expect
  ELSE LET ns == Names(cur)
           new(i) == Put([v |-> expect[ns[i]]], cur.at, cur.vals[i]).v
           applied == {i \in DOMAIN ns : resp.items # << >> /\ resp.items[i] = Success}
       IN  IF resp.items = << >> /\ resp.err # "mms-error" THEN Unknown(ToSet(ns))
           ELSE [n \in DOMAIN expect |->
                  IF \E i \in applied : ns[i] = n THEN new(CHOOSE i \in applied : ns[i] = n)
                  ELSE expect[n]]

(* The client connects; the values are those the server has.               *)
Connects ==
  /\ Connect(peer = "any" \/ spc = "serve")
  /\ expect' = IF peer = "c" /\ spc = "serve" THEN [n \in DOMAIN cache |-> cache[n].v] ELSE expect
  /\ owed' = 0 /\ lag' = 0
  /\ UNCHANGED <<server, peer>>

Prints == PrintLine /\ expect' = Learn /\ UNCHANGED <<server, peer, owed, lag>>

(* A report is on its way.                                                 *)
Pending == link = "up" /\ (owed > 0 \/ reporter = "mid" \/ inbox # << >>)

(* A round of waiting: the "any" server is not later than it may be.       *)
Rounds ==
  /\ WaitRound
  /\ Pending => lag + 1 < (IF reported = before /\ owed = Reports THEN FirstRounds ELSE NextRounds)
  /\ lag' = IF Pending THEN lag + 1 ELSE 0
  /\ UNCHANGED <<server, peer, owed, expect>>

ClientStep ==
  \/ Connects \/ Prints \/ Rounds
  \/ (Send \/ Continue \/ WaitOver \/ Destroy) /\ UNCHANGED <<server, station>>

ThreadStep ==
  /\ ConnectionThread
  /\ UNCHANGED <<server, station>>

TimeoutStep == Timeout /\ UNCHANGED <<server, station>>

(* The network drops the connection.                                       *)
Cut ==
  /\ Disturb
  /\ link = "up" /\ Loss
  /\ UNCHANGED <<server, client, station>>

(* The C server; a restart or another client's write makes values unknown. *)
ServerStep == peer = "c" /\ Server /\ UNCHANGED <<client, station>>

(* (which matters to a request under way, and to none otherwise).          *)
EnvironmentStep ==
  /\ peer = "c" /\ Environment
  /\ cache' # cache /\ spc' = spc => requests # << >>
  /\ expect' = IF spc' # "serve" THEN << >>
               ELSE Unknown({n \in DOMAIN expect : cache'[n] # cache[n]})
  /\ UNCHANGED <<client, peer, owed, lag>>

(* What the "any" server may answer to each kind of request.               *)
(* A listing or a file may go on for ever; endless empty answers stand for *)
(* the bytes of a file beyond MaxBytes.                                    *)
AnyListing == {Result("none", << >>, d, m) : d \in {<< >>, <<"A">>, <<"B">>}, m \in BOOLEAN}
AnyBytes(q) ==
  {Result("none", << >>, d, m) :
     d \in {<< >>} \cup (IF q.at[1] < MaxBytes THEN {<<"A">>} ELSE {}), m \in BOOLEAN}
AnyItems == {Done(<<a, b>>, << >>) : a, b \in {Success, "object-access-denied"}}

AnyAnswers(q) ==
  {Refused("mms-error")} \cup
  CASE q.how = "directory" -> AnyListing
    [] q.how = "file" -> AnyBytes(q)
    [] q.how = "read" -> {Done(<<Success>>, << >>), Done(<<"object-non-existent">>, << >>)}
    [] q.how = "write" ->
         {Done(<<Success>>, << >>), Result("mms-error", <<"object-access-denied">>, << >>, FALSE)}
    [] q.how \in {"write-multiple", "write-list"} -> AnyItems
    [] OTHER -> {Done(<<Success>>, << >>)}

AnyServe ==
  /\ peer = "any" /\ link = "up" /\ requests # << >> /\ owed = 0
  /\ LET q == Head(requests)
         aborts == q.say = "lost"
     IN  \E r \in AnyAnswers(q) :
           /\ IF aborts THEN Loss
              ELSE /\ inbox' = Append(inbox, Answer(r))
                   /\ requests' = Tail(requests)
                   /\ link' = link
           /\ owed' = IF q.how = "write" /\ q.on = "report-trigger" /\ Served(r) THEN Reports ELSE owed
  /\ lag' = 0
  /\ UNCHANGED <<faults, server, client, peer, expect>>

AnyReport ==
  /\ owed > 0 /\ link = "up"
  /\ owed' = owed - 1 /\ lag' = 0
  /\ inbox' = Append(inbox, Report)
  /\ UNCHANGED <<link, requests, faults, server, client, peer, expect>>

(* What goes on by itself: the programs and the library, not what          *)
(* interferes with them.                                                   *)
MmsProgress == ClientStep \/ ThreadStep \/ ServerStep \/ AnyServe \/ AnyReport

MmsNext == MmsProgress \/ TimeoutStep \/ Cut \/ EnvironmentStep

MmsSpec == MmsInit /\ [][MmsNext]_mmsVars

-----------------------------------------------------------------------------

(***************************************************************************)
(* "Every operation emits one JSON line" (mms_client_services.c:6), whole: *)
(* the connection thread never stands between the text and the end of a    *)
(* report's line while the main thread prints without g_out_mu             *)
(* (jl_ok("conclude")).  Nothing but the order of the answers sees to      *)
(* that: a report is handled before the answer that follows it is.  A call *)
(* that times out loses this protection.                                   *)
(***************************************************************************)
WholeLines == ~timedout => ~torn

(***************************************************************************)
(* "each line's ok is the result" (docs/contract.md:112): a line says ok   *)
(* exactly if the server performed the service on every item, and the      *)
(* server-abort line only if the connection was really lost.  The reads    *)
(* of Phase 1A and Step 5 are left out here.                               *)
(***************************************************************************)
LineTells ==
  IF line.call.say = "lost" THEN line.ok => line.link = "lost"
  ELSE line.ok <=> line.call.how # "none" /\ Served(line.resp)

CheckedLinesTell ==
  line.call.say = "raw" \/ line.call.how \in {"read-multiple", "read-list"} \/ LineTells

(***************************************************************************)
(* The same of every line that has one item, Phase 1A and Step 5 included. *)
(***************************************************************************)
EveryLineTells == line.call.how \in {"read-multiple", "read-list"} \/ LineTells

(***************************************************************************)
(* The lines show what the server holds.  A read that succeeds shows the   *)
(* fixture's value with every write applied that was reported as a         *)
(* success, and no other: writes refused by write_handler leave the value  *)
(* alone, answers to calls that timed out are not taken for later ones.    *)
(* The loops of file_directory and file_read lose and repeat nothing: the  *)
(* line has every name of the directory, or every byte from the position   *)
(* on, although the server answers with a few at a time.                   *)
(***************************************************************************)
LinesShowServer ==
  peer = "c" /\ line.ok /\ main \in {"call", "wait"} =>
    /\ line.call.how = "read" /\ line.call.at = << >> /\ line.call.on \in DOMAIN expect
         /\ Served(line.resp) => line.resp.data = expect[line.call.on]
    /\ line.call.how = "directory" /\ link = "up" => line.got = Listing(line.call.at[1])
    /\ line.call.how = "file" /\ link = "up" /\ line.call.on \in {"LARGE.BIN", "NOTIME.TXT"} =>
         line.got = Files[line.call.on]

(***************************************************************************)
(* Whatever clients write, and in whatever form, a variable that the       *)
(* fixture does not make writable keeps its value (index ranges excepted,  *)
(* see write_handler), and every value keeps the type and the number of    *)
(* elements that GetVariableAccessAttributes announces.                    *)
(***************************************************************************)
StoreKept ==
  spc = "serve" =>
    \A n \in DOMAIN cache :
      /\ [type |-> cache[n].type, elems |-> cache[n].elems] = Ref(n).spec
      /\ ~Ref(n).writable /\ Ref(n).spec.elems = << >> => cache[n] = Ref(n).value

(***************************************************************************)
(* When svc_reports goes on, every report of a server that is not too slow *)
(* has had its line.                                                       *)
(***************************************************************************)
ReportsInTime ==
  conn = 1 /\ line.call.on = "report-trigger" /\ line.ok /\ main \in {"call", "wait"} /\ link = "up"
    => owed = 0 /\ reported - before = (IF peer = "any" THEN Reports
                                        ELSE Len(send_reports("report-trigger")))

(***************************************************************************)
(* "a fresh directory per run so delete/rename never leak"                 *)
(* (mms_server.c:428), for a server without --filestore: it starts with    *)
(* exactly the fixture's files, whatever an earlier run did or left        *)
(* behind.                                                                 *)
(***************************************************************************)
RunsApart ==
  [][~argument /\ spc = "files" /\ spc' = "serve" => disk'[base'] = fix.files]_<<spc, disk>>
=============================================================================
