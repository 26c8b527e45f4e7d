------------------------------ MODULE MmsFiles ------------------------------
(***************************************************************************)
(* The file services of the Go and of the Rust mms-server: FileOpen,       *)
(* FileRead, FileClose, FileDelete and FileRename, and ObtainFile, for     *)
(* which the server reads a file of the client with calls of its own while *)
(* the client's request waits.  Names are valid paths of the store.        *)
(*                                                                         *)
(* The Go server works on a directory: a name stands for an inode, an open *)
(* file stays with its inode, and WriteFile truncates and writes in place. *)
(* The Rust server keeps files in a map under its mutex, and FileOpen      *)
(* copies; a file that is replaced is a new inode here.                    *)
(***************************************************************************)
EXTENDS Integers, Sequences, Functions

CONSTANTS
  Users,        (* Associations.                                           *)
  StartDir,     (* The fixture's files: name -> inode,                     *)
  StartBytes,   (* and inode -> bytes (sequence).                          *)
  ClientFiles,  (* Files a client has for ObtainFile: name -> bytes.       *)
  Plans,        (* What clients may ask: set of user -> requests.          *)
  Chunk,        (* Bytes in one FileRead.                                  *)
  MaxUpsets     (* Bound: timeouts, failures and lost associations.        *)

Byte == 0 .. 255

(* All the requests of the plans.                                          *)
Ops == UNION {Range(p[a]) : p \in Plans, a \in Users}

ASSUME FilesAssumption ==
  /\ StartBytes \in Seq(Seq(Byte))
  /\ Range(StartDir) \subseteq DOMAIN StartBytes
  /\ ClientFiles \in [DOMAIN ClientFiles -> Seq(Byte)]
  /\ Plans \subseteq [Users -> Seq(Ops)]
  /\ \A op \in Ops :
       /\ op.svc \in {"open", "read", "close", "delete", "rename", "obtain"}
       /\ op.pos \in Nat
       /\ op.svc = "obtain" => op.name \in DOMAIN ClientFiles
  /\ Chunk \in Nat \ {0}
  /\ MaxUpsets \in Nat

VARIABLES
  side, plan,   (* "go" or "rs"; requests [svc, name, to, pos] to come.    *)
  dir, bytes,   (* Name -> inode, inode -> bytes.                          *)
  sent,         (* User -> the requests sent: [op, eager].                 *)
  told,         (* Their answers, or Untold.                               *)
  alive,        (* Association -> whether it is up.                        *)
  inq, asks,    (* PDUs to the server, and its calls to the client.        *)
  lent,         (* User -> files it has opened for the server.             *)
  files,        (* Association -> its open files, by frsmID.               *)
  jobs,         (* ObtainFile under way: <<user, request>> -> job.         *)
  inv,          (* Last invoke ids of the server's calls.                  *)
  torn,         (* History: inodes two wrote at once, or one in part.      *)
  deaf,         (* Users that no longer answer the server's calls.         *)
  upsets        (* Number of things that went wrong.                       *)

disk == <<dir, bytes, torn>>
wire == <<inq, asks, inv, jobs>>
peers == <<plan, sent, alive, lent, deaf, upsets>>
fileVars == <<side, disk, told, wire, files, peers>>

Untold == [code |-> "none", data |-> << >>]
Told(code) == [code |-> code, data |-> << >>]

FilesInit ==
  /\ side \in {"go", "rs"}
  /\ dir = StartDir /\ bytes = StartBytes /\ torn = {}
  /\ plan \in Plans
  /\ sent = [a \in Users |-> << >>] /\ told = sent
  /\ alive = [a \in Users |-> TRUE]
  /\ inq = sent /\ asks = sent /\ lent = sent /\ files = sent
  /\ jobs = << >>
  /\ inv = [a \in Users |-> 0]
  /\ deaf = {} /\ upsets = 0

(* The user and the operation of a request.                                *)
User(k) == k[1]
Req(k) == sent[k[1]][k[2]].op

Upset == upsets < MaxUpsets /\ upsets' = upsets + 1

Set(f, x, y) == [z \in DOMAIN f \cup {x} |-> IF z = x THEN y ELSE f[z]]
Without(f, x) == [z \in DOMAIN f \ {x} |-> f[z]]

-----------------------------------------------------------------------------
(* The clients: they may send requests before the answer to the last one   *)
(* (eager), and answer the server's calls in order, if at all.             *)

SendCall(a) ==
  /\ alive[a] /\ plan[a] # << >>
  /\ plan' = [plan EXCEPT ![a] = Tail(@)]
  /\ sent' = [sent EXCEPT ![a] = Append(@, [op |-> Head(plan[a]), eager |-> Untold \in Range(told[a])])]
  /\ told' = [told EXCEPT ![a] = Append(@, Untold)]
  /\ inq' = [inq EXCEPT ![a] = Append(@, [kind |-> "request", n |-> Len(sent[a]) + 1])]
  /\ UNCHANGED <<side, disk, alive, asks, lent, files, jobs, inv, deaf, upsets>>

(* Good, id, chunk and moreFollows; or a service error.                    *)
Good(id, chunk, more) == [code |-> "ok", id |-> id, chunk |-> chunk, more |-> more]
Failure(code) == [code |-> code, id |-> 0, chunk |-> << >>, more |-> FALSE]
Other == Failure("file-other")

ClientAnswers(a) ==
  LET c == Head(asks[a])
      src == lent[a][c.id].src
      pos == lent[a][c.id].pos
      answer(r) == inq' = [inq EXCEPT ![a] = Append(@, [kind |-> "answer", inv |-> c.inv, res |-> r])]
  IN  /\ alive[a] /\ a \notin deaf /\ asks[a] # << >>
      /\ asks' = [asks EXCEPT ![a] = Tail(@)]
      /\ \/ c.svc = "open" /\ lent' = [lent EXCEPT ![a] = Append(@, [src |-> c.src, pos |-> 0])]
            /\ answer(Good(Len(lent[a]) + 1, << >>, FALSE))
            /\ UNCHANGED upsets
         \/ c.svc = "open" /\ answer(Failure("file-non-existent")) /\ Upset /\ UNCHANGED lent
         \/ /\ c.svc = "read"
            /\ IF c.id \in DOMAIN lent[a]
                 THEN /\ lent' = [lent EXCEPT ![a][c.id].pos = @ + 1]
                      /\ answer(Good(0, IF pos < Len(ClientFiles[src]) THEN <<ClientFiles[src][pos + 1]>> ELSE << >>,
                                     pos + 1 < Len(ClientFiles[src])))
                 ELSE answer(Other) /\ UNCHANGED lent
            /\ UNCHANGED upsets
         \/ c.svc = "read" /\ answer(Good(0, << >>, TRUE)) /\ UNCHANGED <<lent, upsets>>
         \/ c.svc = "close" /\ answer(Good(0, << >>, FALSE)) /\ UNCHANGED <<lent, upsets>>
      /\ UNCHANGED <<side, disk, plan, sent, told, alive, jobs, inv, files, deaf>>

(* The association is lost; its files are closed.                          *)
Lost(a) ==
  /\ alive[a] /\ Upset
  /\ alive' = [alive EXCEPT ![a] = FALSE]
  /\ inq' = [inq EXCEPT ![a] = << >>] /\ asks' = [asks EXCEPT ![a] = << >>]
  /\ files' = [files EXCEPT ![a] = << >>]
  /\ UNCHANGED <<side, disk, plan, sent, told, lent, jobs, inv, deaf>>

(* It has no file store, or no longer answers.                             *)
FallsSilent(a) ==
  /\ alive[a] /\ a \notin deaf /\ Upset
  /\ deaf' = deaf \cup {a}
  /\ UNCHANGED <<side, disk, told, wire, files, plan, sent, alive, lent>>

-----------------------------------------------------------------------------
(* FileOpen and FileRead.  An open file has its inode, the size seen when  *)
(* it was opened, its position and, in Rust, a copy; and for the record    *)
(* what there was to read, what was read, and whether it was written to.   *)

Writing(ino) == {k \in DOMAIN jobs : jobs[k].at = "writing" /\ jobs[k].ino = ino}

Opened(op) ==
  LET data == bytes[dir[op.name]]
  IN  [ino |-> dir[op.name], size |-> Len(data), pos |-> op.pos, data |-> data,
       want |-> SubSeq(data, op.pos + 1, Len(data)), got |-> << >>, over |-> FALSE, closed |-> FALSE,
       disturbed |-> Writing(dir[op.name]) # {}]

file_open(op) ==
  CASE op.name \notin DOMAIN dir -> "file-non-existent"
    [] op.name \in DOMAIN dir /\ op.pos > Len(bytes[dir[op.name]]) -> "position-invalid"
    [] OTHER -> "ok"

Piece(data, pos) == SubSeq(data, pos + 1, IF pos + Chunk < Len(data) THEN pos + Chunk ELSE Len(data))

(* Mutant: off by one at the end.                                          *)
fileReadMutant(f) ==
  LET p == Piece(bytes[f.ino], f.pos)
  IN  [data |-> p, more |-> Len(p) = Chunk /\ f.pos + Len(p) < f.size - 1]

(* Go: bytes of the inode; the end is a short read, or the size at open.   *)
fileRead(f) ==
  LET p == Piece(bytes[f.ino], f.pos)
  IN  [data |-> p, more |-> Len(p) = Chunk /\ f.pos + Len(p) < f.size]

(* Rust: bytes of the copy.                                                *)
file_read(f) ==
  LET p == Piece(f.data, f.pos)
  IN  [data |-> p, more |-> f.pos + Len(p) < Len(f.data)]

ReadPart(f) == IF side = "go" THEN fileRead(f) ELSE file_read(f)

Advanced(f) ==
  LET r == ReadPart(f)
  IN  [f EXCEPT !.pos = @ + Len(r.data), !.got = @ \o r.data, !.over = ~r.more]

(* What one request does, ObtainFile excepted: [code, dir, files].         *)
Done(op, mine) ==
  LET known == op.pos \in DOMAIN mine /\ ~mine[op.pos].closed
      there == op.name \in DOMAIN dir
      as(code, d, fs) == [code |-> code, dir |-> d, files |-> fs]
  IN  CASE op.svc = "open" ->
             IF file_open(op) = "ok" THEN as("ok", dir, Append(mine, Opened(op)))
             ELSE as(file_open(op), dir, mine)
        [] op.svc = "read" ->
             IF known THEN as("ok", dir, [mine EXCEPT ![op.pos] = Advanced(@)])
             ELSE as("file-other", dir, mine)
        [] op.svc = "close" ->
             IF known THEN as("ok", dir, [mine EXCEPT ![op.pos].closed = TRUE]) ELSE as("file-other", dir, mine)
        [] op.svc = "delete" ->
             IF there THEN as("ok", Without(dir, op.name), mine) ELSE as("file-non-existent", dir, mine)
        [] op.svc = "rename" ->
             IF there THEN as("ok", Set(Without(dir, op.name), op.to, dir[op.name]), mine)
             ELSE as("file-non-existent", dir, mine)

-----------------------------------------------------------------------------
(* ObtainFile: fetchFromClient and obtain_file have the same control.      *)

(* The next call of job j, with a new invoke id.                           *)
Asking(k, j, svc) ==
  LET a == User(k)
      next == [j EXCEPT !.at = svc, !.inv = inv[a] + 1]
  IN  /\ inv' = [inv EXCEPT ![a] = @ + 1]
      /\ jobs' = Set(jobs, k, next)
      /\ asks' = IF ~alive[a] THEN asks
                 ELSE [asks EXCEPT ![a] = Append(@, [inv |-> next.inv, svc |-> svc, id |-> j.id,
                                                     src |-> Req(k).name])]

Endless(r) == r.more /\ r.chunk = << >>

(* The call of job k returns r.  FileClose is called after any FileOpen,   *)
(* and its result is not looked at.                                        *)
Resume(k, r) ==
  LET j == jobs[k]
      got == [j EXCEPT !.data = @ \o r.chunk]
      wait(next) == jobs' = Set(jobs, k, next) /\ UNCHANGED <<asks, inv>>
  IN  CASE j.at = "open" ->
             IF r.code = "ok" THEN Asking(k, [j EXCEPT !.id = r.id], "read")
             ELSE wait([j EXCEPT !.at = "done", !.code = r.code])
        [] j.at = "read" ->
             IF r.code # "ok" THEN Asking(k, [j EXCEPT !.code = r.code], "close")
             ELSE IF Endless(r) THEN Asking(k, [got EXCEPT !.code = "file-other"], "close")
             ELSE Asking(k, got, IF r.more THEN "read" ELSE "close")
        [] j.at = "close" -> wait([j EXCEPT !.at = "done"])

Calling(k) == jobs[k].at \in {"open", "read", "close"}

(* Mutant: a call waits until the association is lost.                     *)
GivesUpMutant(k) == ~alive[User(k)] /\ UNCHANGED upsets

(* No answer in five seconds, or no connection.                            *)
GivesUp(k) == IF alive[User(k)] /\ User(k) \notin deaf THEN Upset ELSE UNCHANGED upsets

CallFails(k) ==
  /\ Calling(k) /\ GivesUp(k)
  /\ Resume(k, Other)
  /\ UNCHANGED <<side, disk, told, inq, files, plan, sent, alive, lent, deaf>>

NewJob == [at |-> "open", inv |-> 0, id |-> 0, data |-> << >>, code |-> "ok", ino |-> 0]

Answers(k, answer) == jobs' = Without(jobs, k) /\ told' = [told EXCEPT ![k[1]][k[2]] = answer]

Unfetched(k) ==
  /\ jobs[k].at = "done" /\ jobs[k].code # "ok"
  /\ Answers(k, Told(jobs[k].code))
  /\ UNCHANGED <<side, disk, inq, asks, inv, files, peers>>

(* Rust: the map's entry is replaced.                                      *)
Insert(k) ==
  /\ side = "rs"
  /\ jobs[k].at = "done" /\ jobs[k].code = "ok"
  /\ bytes' = Append(bytes, jobs[k].data)
  /\ dir' = Set(dir, Req(k).to, Len(bytes'))
  /\ Answers(k, [code |-> "ok", data |-> jobs[k].data])
  /\ UNCHANGED <<side, torn, inq, asks, inv, files, peers>>

(* Files open on an inode that is written to.                              *)
Disturbed(ino) ==
  [a \in Users |-> [i \in DOMAIN files[a] |->
     [files[a][i] EXCEPT !.disturbed = @ \/ files[a][i].ino = ino]]]

(* Go: WriteFile creates or truncates, ...                                 *)
Truncate(k) ==
  LET to == Req(k).to
      ino == IF to \in DOMAIN dir THEN dir[to] ELSE Len(bytes) + 1
  IN  /\ side = "go"
      /\ jobs[k].at = "done" /\ jobs[k].code = "ok"
      /\ bytes' = IF to \in DOMAIN dir THEN [bytes EXCEPT ![ino] = << >>] ELSE Append(bytes, << >>)
      /\ dir' = Set(dir, to, ino)
      /\ torn' = IF Writing(ino) = {} THEN torn \ {ino} ELSE torn \cup {ino}
      /\ files' = Disturbed(ino)
      /\ jobs' = [jobs EXCEPT ![k].at = "writing", ![k].ino = ino]
      /\ UNCHANGED <<side, told, inq, asks, inv, peers>>

(* ... and writes from the beginning, ...                                  *)
WriteBytes(k) ==
  LET data == jobs[k].data
      ino == jobs[k].ino
  IN  /\ jobs[k].at = "writing"
      /\ bytes' = [bytes EXCEPT ![ino] = data \o SubSeq(@, Len(data) + 1, Len(@))]
      /\ files' = Disturbed(ino)
      /\ Answers(k, [code |-> "ok", data |-> data])
      /\ UNCHANGED <<side, dir, torn, inq, asks, inv, peers>>

(* ... unless one of the two fails.                                        *)
WriteFails(k) ==
  /\ side = "go" /\ Upset
  /\ jobs[k].at \in {"done", "writing"} /\ jobs[k].code = "ok"
  /\ torn' = IF jobs[k].at = "writing" THEN torn \cup {jobs[k].ino} ELSE torn
  /\ Answers(k, Told("access-denied"))
  /\ UNCHANGED <<side, dir, bytes, inq, asks, inv, files, plan, sent, alive, lent, deaf>>

-----------------------------------------------------------------------------
(* The servers' loops.                                                     *)

Popped(a) == inq' = [inq EXCEPT ![a] = Tail(@)]

JobsOf(a) == {k \in DOMAIN jobs : User(k) = a}

(* A request is served; ObtainFile begins with its first call.             *)
ServeRequest(a) ==
  LET k == <<a, Head(inq[a]).n>>
      op == Req(k)
      d == Done(op, files[a])
  IN  /\ inq[a] # << >> /\ Head(inq[a]).kind = "request"
      /\ Popped(a)
      /\ IF op.svc = "obtain"
           THEN Asking(k, NewJob, "open") /\ UNCHANGED <<told, dir, files>>
           ELSE /\ told' = [told EXCEPT ![a][k[2]] = Told(d.code)]
                /\ dir' = d.dir
                /\ files' = [files EXCEPT ![a] = d.files]
                /\ UNCHANGED <<asks, inv, jobs>>
      /\ UNCHANGED <<side, bytes, torn, peers>>

(* Mutant: the invoke id is not compared.                                  *)
MineMutant(k, p) == Calling(k) /\ p.kind = "answer"

(* The PDU answers the call job k waits for.                               *)
Mine(k, p) == Calling(k) /\ p.kind = "answer" /\ p.inv = jobs[k].inv

(* An answer reaches the job it belongs to, ...                            *)
TakeAnswer(a) ==
  /\ inq[a] # << >> /\ Head(inq[a]).kind = "answer"
  /\ \E k \in JobsOf(a) : Mine(k, Head(inq[a])) /\ Resume(k, Head(inq[a]).res)
  /\ Popped(a)
  /\ UNCHANGED <<side, disk, told, files, peers>>

(* ... or comes too late (the Rust library may also end the association).  *)
DropAnswer(a) ==
  /\ inq[a] # << >> /\ Head(inq[a]).kind = "answer"
  /\ \A k \in JobsOf(a) : ~Mine(k, Head(inq[a]))
  /\ Popped(a)
  /\ UNCHANGED <<side, disk, told, asks, inv, jobs, files, peers>>

(* Rust, while call waits: another PDU is dropped, unless its invoke id,   *)
(* which the client chose, is that of the call.                            *)
DropRequest(a) ==
  /\ inq[a] # << >> /\ Head(inq[a]).kind = "request"
  /\ \E k \in JobsOf(a) : Calling(k) /\ (UNCHANGED <<asks, inv, jobs>> \/ Resume(k, Other))
  /\ Popped(a)
  /\ UNCHANGED <<side, disk, told, files, peers>>

(* Requests of an association one at a time; ObtainFile is deferred.       *)
LoopGo(a) == side = "go" /\ (ServeRequest(a) \/ TakeAnswer(a) \/ DropAnswer(a))

(* One task: it reads for itself, or for the ObtainFile it is at.          *)
LoopRs(a) ==
  /\ side = "rs"
  /\ \/ JobsOf(a) = {} /\ (ServeRequest(a) \/ DropAnswer(a))
     \/ (\E k \in JobsOf(a) : Calling(k)) /\ (TakeAnswer(a) \/ DropAnswer(a) \/ DropRequest(a))

Job(k) ==
  CallFails(k) \/ Unfetched(k) \/ Insert(k) \/ Truncate(k) \/ WriteBytes(k) \/ WriteFails(k)

FileServer(a) == LoopGo(a) \/ LoopRs(a) \/ \E k \in JobsOf(a) : Job(k)

FileClient(a) == SendCall(a) \/ ClientAnswers(a) \/ Lost(a) \/ FallsSilent(a)

FilesNext == \E a \in Users : FileServer(a) \/ FileClient(a)

FilesSpec == FilesInit /\ [][FilesNext]_fileVars

-----------------------------------------------------------------------------

(***************************************************************************)
(* Whole files only.  A client that reads to the end has the file as it    *)
(* was when it opened it, whoever renames, deletes or replaces it          *)
(* meanwhile (in Go, unless ObtainFile wrote into it); every file in the   *)
(* store is one of the fixture's or one of a client's (in Go, unless two   *)
(* wrote it at once, or a write failed); and an ObtainFile that succeeds   *)
(* stored the file it was asked for, whatever calls before it timed out.   *)
(***************************************************************************)
FilesWhole ==
  /\ \A a \in Users : \A i \in DOMAIN files[a] :
       files[a][i].over /\ (side = "go" => ~files[a][i].disturbed) => files[a][i].got = files[a][i].want
  /\ \A n \in DOMAIN dir :
       \/ bytes[dir[n]] \in Range(StartBytes) \cup Range(ClientFiles)
       \/ side = "go" /\ (Writing(dir[n]) # {} \/ dir[n] \in torn)
  /\ \A a \in Users : \A i \in DOMAIN sent[a] :
       sent[a][i].op.svc = "obtain" /\ told[a][i].code = "ok" =>
         told[a][i].data = ClientFiles[sent[a][i].op.name]

(* No file request waits for its answer; in Rust, none that was sent after *)
(* the one before it was answered.                                         *)
NoFileWaits ==
  \A a \in Users : \A i \in DOMAIN sent[a] :
    \/ told[a][i] # Untold \/ ~alive[a]
    \/ side = "rs" /\ sent[a][i].eager
=============================================================================
