----------------------------- MODULE MmsServerC -----------------------------
(***************************************************************************)
(* The libiec61850 (C) mms-server: start-up from a fixture, the file       *)
(* store, and one thread that answers requests.  libiec61850 decodes them  *)
(* and serves names, lists and files by itself; the adapter's              *)
(* write_handler and journal storage are called from there.  Other clients *)
(* may write between the requests of the association.                      *)
(***************************************************************************)
EXTENDS MmsFixtureC, MmsAssociation, TLC

CONSTANTS
  Fixtures,     (* JSON fixtures the server may be started with: sequence. *)
  OtherWrites,  (* Writes that other clients may send.                     *)
  PageSize,     (* File names, or bytes, libiec61850 puts in one answer.   *)
  MaxStarts     (* Bound: starts of the server.                            *)

ASSUME ServerAssumption ==
  /\ PageSize \in Nat \ {0}
  /\ MaxStarts \in Nat
  /\ \A i \in DOMAIN Fixtures : IsFiniteSet(DOMAIN Fixtures[i].reports)

VARIABLES
  spc,          (* "down", "start", "files", "serve" or "cleanup".         *)
  root,         (* The JSON fixture: its place in Fixtures.                *)
  fix,          (* g_fixture, or Null.                                     *)
  cache,        (* The value of each variable, in the server's cache.      *)
  lists,        (* Named variable lists: set of names.                     *)
  argument,     (* Whether --filestore names a directory.                  *)
  base,         (* g_filestore: 0 is the directory of --filestore.         *)
  disk,         (* Every file store on the disk: directory -> files.       *)
  starts        (* Starts so far.                                          *)

server == <<spc, root, fix, cache, lists, argument, base, disk, starts>>

ServerInit ==
  /\ spc = "down"
  /\ root \in DOMAIN Fixtures
  /\ fix = Null
  /\ cache = << >>
  /\ lists = {}
  /\ argument \in BOOLEAN
  /\ base = 0
  /\ disk = << >>
  /\ starts = 0

-----------------------------------------------------------------------------
(* write_handler and what it calls.                                        *)

Ref(name) == fix.vars[name]

(* The cached element or component at a path, or the whole variable.       *)
Part(c, at) ==
  IF at = << >> THEN c
  ELSE [type |-> c.elems[at[1]], elems |-> << >>, v |-> <<c.v[at[1]]>>]

(* libiec61850: copies a value of the same type, and of as many elements.  *)
MmsValue_update(c, x) == c.type = x.type /\ c.elems = x.elems

(* The variable with x put in at the elements at.                          *)
Put(c, at, x) ==
  IF at = << >> THEN [c EXCEPT !.v = x.v]
  ELSE [c EXCEPT !.v = [i \in DOMAIN c.v |->
         IF \E k \in DOMAIN at : at[k] = i
           THEN x.v[CHOOSE k \in DOMAIN at : at[k] = i] ELSE c.v[i]]]

(* Mutant: the access right is not looked at.                              *)
write_handlerMutantOpen(c, name, at, x) ==
  IF name \notin DOMAIN c THEN "object-undefined"
  ELSE IF at # << >> /\ at[1] \notin DOMAIN c[name].v THEN "invalid-address"
  ELSE IF ~MmsValue_update(Part(c[name], at), x) THEN "type-inconsistent"
  ELSE Success

(* The result of one write; only a success changes the cache.              *)
write_handler(c, name, at, x) ==
  IF name \notin DOMAIN c THEN "object-undefined"
  ELSE IF ~Ref(name).writable THEN "object-access-denied"
  ELSE IF at # << >> /\ at[1] \notin DOMAIN c[name].v THEN "invalid-address"
  ELSE IF ~MmsValue_update(Part(c[name], at), x) THEN "type-inconsistent"
  ELSE Success

(* libiec61850 applies the write of a range of elements by itself.         *)
RangeWrite(c, name, at, x) ==
  IF c[name].type # "array" THEN "object-attribute-inconsistent"
  ELSE IF \E k \in DOMAIN at : at[k] \notin DOMAIN c[name].v THEN "invalid-address"
  ELSE IF \E k \in DOMAIN at : c[name].elems[at[k]] # x.elems[k] THEN "type-inconsistent"
  ELSE Success

WriteItem(c, name, at, x) ==
  IF name \notin DOMAIN c THEN "object-non-existent"
  ELSE IF Len(at) > 1 THEN RangeWrite(c, name, at, x) ELSE write_handler(c, name, at, x)

Stored(c, name, at, x) ==
  IF WriteItem(c, name, at, x) = Success THEN [c EXCEPT ![name] = Put(@, at, x)] ELSE c

(* The reports that writing name sends: the listOfVariable form is skipped. *)
send_reports(name) ==
  IF name = "report-trigger"
    THEN [i \in 1 .. Cardinality({i \in DOMAIN fix.reports : fix.reports[i].vmd_list}) |-> Report]
    ELSE << >>

-----------------------------------------------------------------------------
(* The journal storage: entries in a range of times, or after an entry.    *)

Entries(name) == fix.journals[name].entries

mem_get_entries(name, start, end) ==
  SelectSeq(Entries(name), LAMBDA e : e.time_ms >= start /\ e.time_ms <= end)

mem_get_entries_after(name, start, id) ==
  LET es == Entries(name)
      After(e) == \E i, j \in DOMAIN es : i < j /\ es[i].entry_id = id /\ es[j] = e
  IN  SelectSeq(es, LAMBDA e : After(e) /\ e.time_ms >= start)

-----------------------------------------------------------------------------
(* What libiec61850 answers.  The items of a list are boolean and integer. *)

Files == disk[base]
Members == <<"boolean", "integer">>

(* The file names of a directory after a name, in the directory's order.   *)
FileOrder ==
  <<"COMTRADE/REC02.CFG", "DELETE.ME", "LARGE.BIN", "NOTIME.TXT", "OBTAINED.CFG", "REC01.CFG",
    "REC01.DAT", "RENAME.ME", "RENAMED.ME">>

DirectoryOf(name) == IF name = "COMTRADE/REC02.CFG" THEN "COMTRADE" ELSE EmptyName

Listing(dir) == SelectSeq(FileOrder, LAMBDA n : n \in DOMAIN Files /\ DirectoryOf(n) = dir)

FilesAfter(dir, after) ==
  LET here == Listing(dir)
  IN  SelectSeq(here, LAMBDA n :
        after = EmptyName \/ \E i, j \in DOMAIN here : here[i] = after /\ here[j] = n /\ i < j)

ReadItem(name, at) ==
  IF name \notin DOMAIN cache THEN "object-non-existent"
  ELSE IF \E k \in DOMAIN at : at[k] \notin DOMAIN cache[name].v THEN "object-non-existent"
  ELSE Success

ReadData(name, at) ==
  IF ReadItem(name, at) # Success THEN << >>
  ELSE IF at = << >> THEN cache[name].v ELSE [k \in DOMAIN at |-> cache[name].v[at[k]]]

ReadAll(names) ==
  Done([i \in DOMAIN names |-> ReadItem(names[i], << >>)],
       FlattenSeq([i \in DOMAIN names |-> ReadData(names[i], << >>)]))

(* The cache after writing values to names one after the other, and the    *)
(* results.                                                                *)
WriteAll(names, vals) ==
  LET c2 == Stored(cache, names[1], << >>, vals[1])
  IN  [cache |-> Stored(c2, names[2], << >>, vals[2]),
       items |-> <<WriteItem(cache, names[1], << >>, vals[1]),
                   WriteItem(c2, names[2], << >>, vals[2])>>]

(* A single write reports its failure as MmsError too.                     *)
SingleWrite(item) == Result(IF item = Success THEN "none" ELSE "mms-error", <<item>>, << >>, FALSE)

(* The answer to the request q.                                            *)
AnswerTo(q) ==
  CASE q.how \in {"vmd", "conclude", "close"} -> Done(<<Success>>, << >>)
    [] q.how = "domain" ->
         IF q.on = "interop" THEN Done(<<Success>>, << >>) ELSE Refused("mms-error")
    [] q.how = "attributes" ->
         IF q.on \in DOMAIN cache THEN Done(<<Success>>, << >>) ELSE Refused("mms-error")
    [] q.how = "read" -> Done(<<ReadItem(q.on, q.at)>>, ReadData(q.on, q.at))
    [] q.how = "write" -> SingleWrite(WriteItem(cache, q.on, q.at, q.vals[1]))
    [] q.how = "read-multiple" -> ReadAll(Members)
    [] q.how = "write-multiple" -> Done(WriteAll(Members, q.vals).items, << >>)
    [] q.how = "define" -> IF q.on \in lists THEN Refused("mms-error") ELSE Done(<<Success>>, << >>)
    [] q.how \in {"list", "delete"} ->
         IF q.on \in lists THEN Done(<<Success>>, << >>) ELSE Refused("mms-error")
    [] q.how = "read-list" -> IF q.on \in lists THEN ReadAll(Members) ELSE Refused("mms-error")
    [] q.how = "write-list" ->
         IF q.on \in lists THEN Done(WriteAll(Members, q.vals).items, << >>) ELSE Refused("mms-error")
    [] q.how = "directory" ->
         LET rest == FilesAfter(q.at[1], q.on)
         IN  IF Listing(q.at[1]) = << >> THEN Refused("file-non-existent")
             ELSE Result("none", << >>, SubSeq(rest, 1, IF Len(rest) < PageSize THEN Len(rest) ELSE PageSize),
                         Len(rest) > PageSize)
    [] q.how \in {"open", "unlink", "rename", "obtain"} ->
         IF q.on \in DOMAIN Files THEN Done(<<Success>>, << >>) ELSE Refused("file-non-existent")
    [] q.how = "file" ->
         LET data == Files[q.on]
             end == IF Len(data) < q.at[1] + PageSize THEN Len(data) ELSE q.at[1] + PageSize
         IN  IF q.on \notin DOMAIN Files THEN Refused("file-other")
             ELSE Result("none", << >>, SubSeq(data, q.at[1] + 1, end), end < Len(data))
    [] q.how = "journal" ->
         IF q.on \notin DOMAIN fix.journals THEN Refused("mms-error")
         ELSE Done(<<Success>>,
                   LET es == IF q.at = << >> THEN mem_get_entries(q.on, 1, 4)
                             ELSE mem_get_entries_after(q.on, 2, 2)
                   IN  [i \in DOMAIN es |-> Success])

CacheAfter(q) ==
  CASE q.how = "write" -> Stored(cache, q.on, q.at, q.vals[1])
    [] q.how = "write-multiple" \/ (q.how = "write-list" /\ q.on \in lists) ->
         WriteAll(Members, q.vals).cache
    [] OTHER -> cache

ListsAfter(q) ==
  CASE q.how = "define" -> lists \cup {q.on}
    [] q.how = "delete" -> lists \ {q.on}
    [] OTHER -> lists

(* rename and obtain name the new file in op's own way: q.at.              *)
FilesAfterCall(q) ==
  IF q.on \notin DOMAIN Files THEN Files
  ELSE CASE q.how = "unlink" -> [n \in DOMAIN Files \ {q.on} |-> Files[n]]
         [] q.how = "rename" ->
              (q.at[1] :> Files[q.on]) @@ [n \in DOMAIN Files \ {q.on} |-> Files[n]]
         [] q.how = "obtain" -> (q.at[1] :> Files[q.on]) @@ Files
         [] OTHER -> Files

-----------------------------------------------------------------------------
(* The program.                                                            *)

(* fixture_load, build_device and MmsServer_create; a bad fixture is exit  *)
(* code 3.                                                                 *)
Load ==
  /\ spc = "start"
  /\ fix' = fixture_load(Fixtures[root])
  /\ spc' = IF fix' = Null THEN "down" ELSE "files"
  /\ UNCHANGED <<faults, association, root, cache, lists, argument, base, disk, starts>>

(* Mutant: always the same directory.                                      *)
DirectoryMutant == 0

(* The directory of --filestore, kept from run to run, or a new one.       *)
Directory == IF argument THEN 0 ELSE starts

Found == IF Directory \in DOMAIN disk THEN disk[Directory] ELSE << >>

(* The directory with files written into it; nothing is removed.           *)
populate_filestore(files) ==
  [d \in DOMAIN disk \cup {Directory} |->
     IF d # Directory THEN disk[d]
     ELSE [n \in DOMAIN files \cup DOMAIN Found |->
             IF n \in DOMAIN files THEN files[n] ELSE Found[n]]]

(* The file store and the cache; the server listens.                       *)
Populate ==
  /\ spc = "files"
  /\ base' = Directory
  /\ disk' = populate_filestore(fix.files)
  /\ cache' = [n \in DOMAIN fix.vars |-> fix.vars[n].value]
  /\ lists' = {}
  /\ spc' = "serve"
  /\ UNCHANGED <<faults, association, root, fix, argument, starts>>

(* mkdtemp fails, or populate_filestore, or the listening socket: exit     *)
(* code 1, and the directory that was made stays.                          *)
StartFails ==
  /\ Disturb
  /\ spc = "files"
  /\ \/ UNCHANGED disk
     \/ \E written \in {<< >>, fix.files} : disk' = populate_filestore(written)
  /\ spc' = "down"
  /\ UNCHANGED <<association, root, fix, cache, lists, argument, base, starts>>

(* The process is started (again).                                         *)
Start ==
  /\ spc = "down"
  /\ starts < MaxStarts
  /\ starts' = starts + 1
  /\ spc' = "start"
  /\ UNCHANGED <<faults, association, root, fix, cache, lists, argument, base, disk>>

(* Mutant: the handler leaves the reports to the main loop, after the next *)
(* request.                                                                *)
PdusMutant(q) ==
  <<Answer(AnswerTo(q))>> \o (IF q.how = "read" THEN send_reports("report-trigger") ELSE << >>)

(* What a request makes the server send: reports leave before the answer,  *)
(* from within write_handler.                                              *)
Pdus(q) ==
  (IF q.how = "write" /\ Served(AnswerTo(q)) THEN send_reports(q.on) ELSE << >>)
    \o <<Answer(AnswerTo(q))>>

(* A round of the main loop with a request.                                *)
Serve ==
  /\ spc = "serve" /\ link = "up"
  /\ requests # << >>
  /\ LET q == Head(requests)
     IN  /\ inbox' = inbox \o Pdus(q)
         /\ cache' = CacheAfter(q)
         /\ lists' = ListsAfter(q)
         /\ disk' = [disk EXCEPT ![base] = FilesAfterCall(q)]
  /\ requests' = Tail(requests)
  /\ UNCHANGED <<faults, link, spc, root, fix, argument, base, starts>>

(* Another client's write; its reports go to that client only.             *)
OtherWrite ==
  /\ Disturb
  /\ spc = "serve"
  /\ \E x \in OtherWrites : cache' = Stored(cache, x.on, x.at, x.vals[1])
  /\ UNCHANGED <<association, spc, root, fix, lists, argument, base, disk, starts>>

(* What is under way on the connection is lost with it.                    *)
Loss ==
  /\ link' = IF link = "up" THEN "lost" ELSE link
  /\ requests' = << >> /\ inbox' = << >>

(* on_signal: the loop ends, and the connections with it.                  *)
Stop ==
  /\ Disturb
  /\ spc = "serve"
  /\ spc' = "cleanup"
  /\ Loss
  /\ fix' = Null /\ cache' = << >> /\ lists' = {}
  /\ UNCHANGED <<root, argument, base, disk, starts>>

(* nftw removes the program's own directory.                               *)
Cleanup ==
  /\ spc = "cleanup"
  /\ disk' = IF argument THEN disk ELSE [d \in DOMAIN disk \ {base} |-> disk[d]]
  /\ spc' = "down"
  /\ UNCHANGED <<faults, association, root, fix, cache, lists, argument, base, starts>>

(* The process is killed.                                                  *)
Killed ==
  /\ Disturb
  /\ spc # "down"
  /\ spc' = "down"
  /\ Loss
  /\ fix' = Null /\ cache' = << >> /\ lists' = {}
  /\ UNCHANGED <<root, argument, base, disk, starts>>

Server == Load \/ Populate \/ Serve \/ Cleanup
Environment == Start \/ StartFails \/ OtherWrite \/ Stop \/ Killed
=============================================================================
