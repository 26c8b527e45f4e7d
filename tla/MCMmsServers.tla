---------------------------- MODULE MCMmsServers ----------------------------
(***************************************************************************)
(* Two clients of the Go and of the Rust mms-server: the first state picks *)
(* the program that runs ("go" or "rs"), or the file services of either    *)
(* ("files").  The model has a structure s with components s$x and s$y, a  *)
(* read-only variable, report-trigger, two list names and two files.       *)
(***************************************************************************)
EXTENDS MmsServers, MmsFiles

VARIABLE program

(* File requests: a reader while another client obtains, renames or        *)
(* deletes; positions and names that are not there; two ObtainFile, of one *)
(* association or of two.                                                  *)
FileOp(svc, name, to, pos) == [svc |-> svc, name |-> name, to |-> to, pos |-> pos]
Obtain(name, to) == FileOp("obtain", name, to, 0)
OpenAt(name, pos) == FileOp("open", name, "", pos)
ReadFirst == FileOp("read", "", "", 1)
Both(x, y) == [u1 |-> x, u2 |-> y]

Reading == Both(<<OpenAt("f", 0), ReadFirst, ReadFirst>>, <<Obtain("s1", "f")>>)

MCPlans ==
  {Reading,
   Both(<<OpenAt("f", 0), ReadFirst, ReadFirst>>,
        <<FileOp("rename", "g", "f", 0), FileOp("delete", "f", "", 0)>>),
   Both(<<OpenAt("f", 1), ReadFirst, FileOp("close", "", "", 1)>>,
        <<FileOp("rename", "f", "h", 0), OpenAt("g", 2)>>),
   Both(<<Obtain("s1", "f"), Obtain("s2", "h")>>, << >>),
   Both(<<Obtain("s1", "f")>>, <<Obtain("s2", "f")>>)}

MCStartDir == [f |-> 1, g |-> 2]
MCStartBytes == <<<<1, 2>>, <<3>>>>
MCClientFiles == [s1 |-> <<4, 4>>, s2 |-> <<5>>]

allVars == <<program, vars, fileVars>>

Init ==
  /\ program \in {"go", "rs", "files"}
  /\ ServingInit
  /\ FilesInit /\ (program # "files" => side = "go" /\ plan = Reading)

Only(p, A) == program = p /\ A /\ UNCHANGED <<program, fileVars>>
FilesOnly(A) == program = "files" /\ A /\ UNCHANGED <<program, vars>>

Next == Only("go", GoNext) \/ Only("rs", RsNext) \/ FilesOnly(FilesNext)

Progress ==
  \/ \E a \in Assocs : Only("go", Handle(a)) \/ Only("rs", confirmed(a))
  \/ \E a \in Users : FilesOnly(FileServer(a) \/ ClientAnswers(a))

(* Handlers and tasks run; a call of ObtainFile is answered or times out.  *)
Spec == Init /\ [][Next]_allVars /\ WF_allVars(Progress)

(***************************************************************************)
(* Every request is answered, whatever the other associations ask: every   *)
(* path through a handler, the early returns of write too                  *)
(* (services.go:628), gives the mutex back, and ObtainFile ends, whether   *)
(* or not the client answers its calls, and with which chunks.  In Rust, a *)
(* client has to wait with its next request until ObtainFile is answered.  *)
(***************************************************************************)
AllAnswered == []<>(NoneWaits /\ NoFileWaits)

-----------------------------------------------------------------------------

MCLeaves == {"x", "y", "ro", "trigger"}

MCPath ==
  [i \in {"s", "s$x", "ro", "report-trigger", "none", "s[1]"} |->
     CASE i = "s" -> {"x", "y"}
       [] i = "s$x" -> {"x"}
       [] i = "ro" -> {"ro"}
       [] i = "report-trigger" -> {"trigger"}
       [] OTHER -> {}]

MCFault == [i \in {"none", "s[1]"} |-> IF i = "none" THEN "non-existent" ELSE "invalid-address"]

MCWritable == {"s", "s$x", "report-trigger"}
MCTriggers == {"report-trigger"}
MCReports == <<"s", "none">>
MCNames == 1 .. 2

MCStartValue == [l \in MCLeaves |-> 0]

(* Both VMD-specific lists exist.                                          *)
MCStartLists ==
  {[k \in Keys |-> IF k[1] = "vmd" THEN <<"s$x", "s">> ELSE NoList]}

Plain ==
  [svc |-> "other", byList |-> FALSE, list |-> <<"vmd", 1>>, items |-> << >>, data |-> << >>,
   lists |-> << >>, after |-> NoName]

Call(svc) == [Plain EXCEPT !.svc = svc]

MCRequests ==
  {Plain,
   [Call("read") EXCEPT !.items = <<"s$x", "none", "s">>],
   [Call("read") EXCEPT !.byList = TRUE],
   [Call("write") EXCEPT !.items = <<"s", "ro", "report-trigger">>, !.data = <<1, 1, 1>>],
   [Call("write") EXCEPT !.items = <<"s", "s$x", "s">>, !.data = <<0, 1, Wrong>>],
   [Call("write") EXCEPT !.byList = TRUE, !.data = <<1>>],
   [Call("attributes") EXCEPT !.items = <<"s[1]">>],
   [Call("define") EXCEPT !.items = <<"s", "none">>],
   [Call("define") EXCEPT !.items = <<"s">>, !.list = <<"aa", 1>>],
   [Call("define") EXCEPT !.items = <<"s">>],
   [Call("members") EXCEPT !.list = <<"aa", 1>>],
   [Call("delete") EXCEPT !.lists = <<<<"vmd", 1>>, <<"nowhere", 2>>, <<"vmd", 1>>>>],
   [Call("delete") EXCEPT !.lists = <<<<"vmd", 2>>, <<"malformed", 1>>, <<"vmd", 1>>>>],
   Call("names"),
   [Call("names") EXCEPT !.list = <<"nowhere", 1>>]}
=============================================================================
