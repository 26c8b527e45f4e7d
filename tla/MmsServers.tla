----------------------------- MODULE MmsServers -----------------------------
(***************************************************************************)
(* The two mms-servers that share a model between their associations.      *)
(*                                                                         *)
(* dscsystems (Go): a goroutine per association, whose handler takes       *)
(* server.mu for each service that touches the model.                      *)
(*                                                                         *)
(* iec61850-rust: a task per association, each service of which locks the  *)
(* Mutex<Model> it shares with the others.                                 *)
(*                                                                         *)
(* First the parts they share: one handler per association that takes its  *)
(* requests one at a time, the mutex around the model, and the loops over  *)
(* the items of a request.  The loops that read or change the model go one *)
(* item at a time, so that the mutex is what makes them atomic.            *)
(*                                                                         *)
(* The PDUs of one request are one observation: its answer with the        *)
(* InformationReports it caused (the Go library sends these after the      *)
(* response, the Rust adapter before it).                                  *)
(***************************************************************************)
EXTENDS MmsModel

CONSTANT
  MaxRequests   (* Bound: requests of all clients.                         *)

ASSUME MaxRequestsAssumption == MaxRequests \in Nat

VARIABLES
  mu,           (* The association that holds the mutex, or NoList.        *)
  value,        (* Value of each leaf.                                     *)
  lists,        (* The maps of named variable lists.                       *)
  pc,           (* Where each handler is.                                  *)
  req,          (* Its request.                                            *)
  specs,        (* What parseVariableAccess returned.                      *)
  res,          (* Results of the items handled so far.                    *)
  resp,         (* Its answer; Nothing until it is ready.                  *)
  listening,    (* The listener is open.                                   *)
  up,           (* The process runs.                                       *)
  asked,        (* Requests received.                                      *)
  before,       (* History: the model when the mutex was taken, if it is.  *)
  walk          (* The client's walk through the pages of a name list.     *)

store == <<value, lists>>
local == <<specs, res>>
process == <<listening, up>>
vars == <<mu, store, pc, req, local, resp, process, asked, before, walk>>

(* A client's walk: the names it has seen, and the names that have been    *)
(* there all the time.  It goes on after cursor, and is over at NoName.    *)
NoWalk == [owner |-> "vmd", cursor |-> NoName, seen |-> {}, standing |-> {}]

Results == [code : {"ok", "denied", "type-inconsistent", "non-existent", "invalid-address",
                    "unsupported"},
            val : UNION {[s -> Vals] : s \in SUBSET Leaves}]

TypeOK ==
  /\ mu \in Assocs \cup {NoList}
  /\ value \in [Leaves -> Vals]
  /\ lists \in [Keys -> Seq(Items) \cup {NoList}]
  /\ pc \in [Assocs -> {"off", "idle", "wait", "loop", "report", "answered"}]
  /\ \A a \in Assocs : req[a] \in RequestType \cup {NoList}
  /\ specs \in [Assocs -> Seq(Items) \cup {NoList}]
  /\ res \in [Assocs -> Seq(Results)]
  /\ \A a \in Assocs : pc[a] \in {"loop", "report"} => mu = a
  /\ \A k \in Keys : lists[k] # NoList => \A i \in 1 .. Len(lists[k]) : Path[lists[k][i]] # {}
  /\ listening \in BOOLEAN /\ up \in BOOLEAN
  /\ asked \in 0 .. MaxRequests

ServingInit ==
  /\ mu = NoList
  /\ value = StartValue
  /\ lists \in StartLists
  /\ pc = [a \in Assocs |-> "off"]
  /\ req = [a \in Assocs |-> NoList]
  /\ specs = [a \in Assocs |-> << >>]
  /\ res = [a \in Assocs |-> << >>]
  /\ resp = [a \in Assocs |-> Nothing]
  /\ listening = TRUE /\ up = TRUE
  /\ asked = 0
  /\ before = << >>
  /\ walk = [a \in Assocs |-> NoWalk]

-----------------------------------------------------------------------------

At(a, place, svc) == up /\ pc[a] = place /\ req[a].svc = svc

(* An association is accepted.                                             *)
Connect(a) ==
  /\ up /\ listening
  /\ pc[a] = "off"
  /\ pc' = [pc EXCEPT ![a] = "idle"]
  /\ UNCHANGED <<mu, store, req, local, resp, process, asked, before, walk>>

(* A request arrives.  A client that got a page with moreFollows asks for  *)
(* the next one of that list.                                              *)
Receive(a) ==
  /\ up
  /\ pc[a] = "idle"
  /\ asked < MaxRequests
  /\ asked' = asked + 1
  /\ \E r \in Requests :
       LET on == r.svc = "names" /\ Key(a, r.list)[1] = walk[a].owner
       IN req' = [req EXCEPT ![a] = [r EXCEPT !.after = IF on THEN walk[a].cursor ELSE NoName]]
  /\ pc' = [pc EXCEPT ![a] = "wait"]
  /\ resp' = [resp EXCEPT ![a] = Nothing]
  /\ UNCHANGED <<mu, store, local, process, before, walk>>

(* A request that is answered without the model.                           *)
Unserved(a) ==
  /\ At(a, "wait", "other")
  /\ resp' = [resp EXCEPT ![a] = Error("refused")]
  /\ pc' = [pc EXCEPT ![a] = "answered"]
  /\ UNCHANGED <<mu, store, req, local, process, asked, before, walk>>

(* The answer is sent; the handler waits for the next request.             *)
Reply(a) ==
  /\ up
  /\ pc[a] = "answered"
  /\ pc' = [pc EXCEPT ![a] = "idle"]
  /\ UNCHANGED <<mu, store, req, local, resp, process, asked, before, walk>>

(* The client concludes, or the connection is lost.                        *)
End(a) ==
  /\ up
  /\ pc[a] \in {"idle", "answered"}
  /\ pc' = [pc EXCEPT ![a] = "off"]
  /\ lists' = [k \in Keys |-> IF k[1] = a THEN NoList ELSE lists[k]]
  /\ req' = [req EXCEPT ![a] = NoList]
  /\ resp' = [resp EXCEPT ![a] = Nothing]
  /\ walk' = [walk EXCEPT ![a] = NoWalk]
  /\ UNCHANGED <<mu, value, local, process, asked, before>>

-----------------------------------------------------------------------------

(* The items of a listOfVariable, or the members of the list named.        *)
parseVariableAccess(a) ==
  IF ~req[a].byList THEN req[a].items
  ELSE IF Has(lists, Key(a, req[a].list)) THEN lists[Key(a, req[a].list)] ELSE NoList

(* Mutant: the mutex is not waited for.                                    *)
LockMutant(a) == mu' = a

Lock(a) == mu = NoList /\ mu' = a

(* The handler gets the mutex.                                             *)
Enter(a, svc) ==
  /\ At(a, "wait", svc)
  /\ Lock(a)
  /\ pc' = [pc EXCEPT ![a] = "loop"]
  /\ specs' = [specs EXCEPT ![a] =
                 IF svc \in {"read", "write"} THEN parseVariableAccess(a) ELSE << >>]
  /\ before' = store
  /\ UNCHANGED <<store, req, res, resp, process, asked, walk>>

(* The mutex is given back and the request answered.                       *)
Answer(a, x) ==
  /\ mu' = NoList
  /\ pc' = [pc EXCEPT ![a] = "answered"]
  /\ resp' = [resp EXCEPT ![a] = x]
  /\ specs' = [specs EXCEPT ![a] = << >>]
  /\ res' = [res EXCEPT ![a] = << >>]
  /\ before' = << >>
  /\ UNCHANGED <<req, process, asked>>

(* The next item of a read.                                                *)
ReadNext(a) ==
  /\ At(a, "loop", "read")
  /\ specs[a] # NoList
  /\ Len(res[a]) < Len(specs[a])
  /\ res' = [res EXCEPT ![a] = Append(@, ReadResult(value, specs[a][Len(@) + 1]))]
  /\ UNCHANGED <<mu, store, pc, req, specs, resp, process, asked, before, walk>>

ReadDone(a) ==
  /\ At(a, "loop", "read")
  /\ IF specs[a] = NoList THEN Answer(a, Error("non-existent"))
     ELSE /\ Len(res[a]) = Len(specs[a])
          /\ Answer(a, [Success EXCEPT !.results = res[a]])
  /\ UNCHANGED <<store, walk>>

(* Mutant: a write that does not fit leaves without giving the mutex back. *)
WriteRefusedMutant(a) ==
  /\ At(a, "loop", "write")
  /\ \/ specs[a] = NoList /\ Answer(a, Error("non-existent"))
     \/ /\ specs[a] # NoList
        /\ Len(specs[a]) # Len(req[a].data)
        /\ pc' = [pc EXCEPT ![a] = "answered"]
        /\ resp' = [resp EXCEPT ![a] = Error("invalid")]
        /\ specs' = [specs EXCEPT ![a] = << >>]
        /\ before' = << >>
        /\ UNCHANGED <<mu, req, res, process, asked>>
  /\ UNCHANGED <<store, walk>>

(* A write of an unknown list, or with too few or too many data.           *)
WriteRefused(a) ==
  /\ At(a, "loop", "write")
  /\ \/ specs[a] = NoList /\ Answer(a, Error("non-existent"))
     \/ /\ specs[a] # NoList
        /\ Len(specs[a]) # Len(req[a].data)
        /\ Answer(a, Error("invalid"))
  /\ UNCHANGED <<store, walk>>

(* writeOne: the next item of a write.                                     *)
writeOne(a) ==
  LET n == Len(res[a]) + 1
      i == specs[a][n]
      d == req[a].data[n]
      code == WriteCode(i, d)
  IN
  /\ At(a, "loop", "write")
  /\ specs[a] # NoList
  /\ Len(specs[a]) = Len(req[a].data)
  /\ n <= Len(specs[a])
  /\ res' = [res EXCEPT ![a] = Append(@, Result(code, Empty))]
  /\ value' = IF code = "ok" THEN Stored(value, i, d) ELSE value
  /\ UNCHANGED <<mu, lists, pc, req, specs, resp, process, asked, before, walk>>

(* report-trigger was written.                                             *)
Trigger(a) == \E i \in 1 .. Len(res[a]) : res[a][i].code = "ok" /\ specs[a][i] \in Triggers

(* The loop of a write is over: reports, or the answer.                    *)
WriteDone(a) ==
  /\ At(a, "loop", "write")
  /\ specs[a] # NoList
  /\ Len(specs[a]) = Len(req[a].data)
  /\ Len(res[a]) = Len(specs[a])
  /\ IF Trigger(a)
       THEN /\ pc' = [pc EXCEPT ![a] = "report"]
            /\ UNCHANGED <<mu, req, local, resp, process, asked, before>>
       ELSE Answer(a, [Success EXCEPT !.results = res[a]])
  /\ UNCHANGED <<store, walk>>

(* sendReports.                                                            *)
sendReports(a) ==
  /\ up
  /\ pc[a] = "report"
  /\ Answer(a, [Success EXCEPT !.results = res[a], !.reports = ReportResults(value)])
  /\ UNCHANGED <<store, walk>>

(* GetVariableAccessAttributes.                                            *)
AttributesDone(a) ==
  /\ At(a, "loop", "attributes")
  /\ Answer(a, IF Path[req[a].items[1]] = {} THEN Error("non-existent") ELSE Success)
  /\ UNCHANGED <<store, walk>>

(* GetNamedVariableListAttributes.                                         *)
MembersDone(a) ==
  LET k == Key(a, req[a].list) IN
  /\ At(a, "loop", "members")
  /\ Answer(a, IF Has(lists, k) THEN [Success EXCEPT !.items = lists[k]]
               ELSE Error("non-existent"))
  /\ UNCHANGED <<store, walk>>

(* A member that names nothing.                                            *)
BadMember(a) == \E i \in 1 .. Len(req[a].items) : Path[req[a].items[i]] = {}

(* A new list, or the error the adapter found first.                       *)
Defined(a, error) ==
  /\ Answer(a, IF error = "none" THEN Success ELSE Error(error))
  /\ lists' = IF error = "none" THEN [lists EXCEPT ![Key(a, req[a].list)] = req[a].items]
              ELSE lists
  /\ UNCHANGED <<value, walk>>

(* The next list of a delete; every list is deletable.                     *)
DeleteNext(a) ==
  LET n == Len(res[a]) + 1
      k == Key(a, req[a].lists[n])
  IN
  /\ At(a, "loop", "delete")
  /\ n <= Len(req[a].lists)
  /\ k[1] # "malformed"
  /\ IF Has(lists, k)
       THEN /\ lists' = [lists EXCEPT ![k] = NoList]
            /\ res' = [res EXCEPT ![a] = Append(@, Result("ok", Empty))]
            /\ walk' = [b \in Assocs |-> IF walk[b].owner = k[1]
                                         THEN [walk[b] EXCEPT !.standing = @ \ {k[2]}]
                                         ELSE walk[b]]
       ELSE /\ res' = [res EXCEPT ![a] = Append(@, Result("non-existent", Empty))]
            /\ UNCHANGED <<lists, walk>>
  /\ UNCHANGED <<mu, value, pc, req, specs, resp, process, asked, before>>

(* A name that cannot be decoded ends the loop; what was deleted is gone.  *)
DeleteRefused(a) ==
  /\ At(a, "loop", "delete")
  /\ Len(res[a]) < Len(req[a].lists)
  /\ req[a].lists[Len(res[a]) + 1][1] = "malformed"
  /\ Answer(a, Error("invalid"))
  /\ UNCHANGED <<store, walk>>

DeleteDone(a) ==
  /\ At(a, "loop", "delete")
  /\ Len(res[a]) = Len(req[a].lists)
  /\ Answer(a, [Success EXCEPT !.count =
                  Cardinality({i \in 1 .. Len(res[a]) : res[a][i].code = "ok"})])
  /\ UNCHANGED <<store, walk>>

(* One page of the names, and what the client makes of it.                 *)
NamesDone(a) ==
  LET k == Key(a, req[a].list)
      all == ListNames(lists, k[1])
      page == Page(all, req[a].after)
      old == walk[a]
      first == req[a].after = NoName
      cursor == IF page.more THEN Max(page.names) ELSE NoName
  IN
  /\ At(a, "loop", "names")
  /\ IF k \notin Keys
       THEN Answer(a, Error("non-existent")) /\ UNCHANGED walk
       ELSE /\ Answer(a, page)
            /\ walk' = [walk EXCEPT ![a] =
                          [owner |-> k[1], cursor |-> cursor,
                           seen |-> page.names \cup IF first THEN {} ELSE old.seen,
                           standing |-> IF first THEN all ELSE old.standing]]
  /\ UNCHANGED store

-----------------------------------------------------------------------------

(***************************************************************************)
(* A client that walks through the pages of a name list sees every list    *)
(* that exists all the time, also if others define and delete lists        *)
(* between its pages, the one it is to continue after included.            *)
(***************************************************************************)
WalkComplete == \A a \in Assocs : walk[a].cursor = NoName => walk[a].standing \subseteq walk[a].seen

(* No request waits for its answer.                                        *)
NoneWaits == \A a \in Assocs : pc[a] \in {"off", "idle", "answered"} \/ ~up

(* The model as the other associations may see it: a request that holds    *)
(* the mutex has not happened yet, then it has happened altogether.  The   *)
(* lists of an association are its handler's own.                          *)
SeenValue == IF mu = NoList THEN value ELSE before[1]
SeenLists ==
  [k \in Keys |-> IF mu # NoList /\ k[1] \in {mu, "vmd", "domain"} THEN before[2][k] ELSE lists[k]]

Store == INSTANCE MmsStore WITH value <- SeenValue, lists <- SeenLists, answer <- resp

(***************************************************************************)
(* The server implements MmsStore: each request takes effect in one step,  *)
(* however its items interleave with the requests of others.  "mu guards   *)
(* the variable values and the domain and VMD named variable lists"        *)
(* (services.go:102).                                                      *)
(***************************************************************************)
StoreSpec == Store!Spec

-----------------------------------------------------------------------------
(* The Go mms-server.                                                      *)

GoInit == ServingInit

read(a) == Enter(a, "read") \/ ReadNext(a) \/ ReadDone(a)

write(a) ==
  \/ Enter(a, "write")
  \/ WriteRefused(a)
  \/ writeOne(a)
  \/ WriteDone(a)
  \/ sendReports(a)

getVariableAccessAttributes(a) == Enter(a, "attributes") \/ AttributesDone(a)

getNVLAttributes(a) == Enter(a, "members") \/ MembersDone(a)

(* The error defineNVL finds first: no such domain, a list of that name, a *)
(* member that does not exist.                                             *)
GoDefineError(a) ==
  LET k == Key(a, req[a].list)
  IN IF k \notin Keys THEN "non-existent"
     ELSE IF Has(lists, k) THEN "exists"
     ELSE IF BadMember(a) THEN "undefined" ELSE "none"

defineNVL(a) ==
  \/ Enter(a, "define")
  \/ At(a, "loop", "define") /\ Defined(a, GoDefineError(a))

deleteNVL(a) ==
  Enter(a, "delete") \/ DeleteNext(a) \/ DeleteRefused(a) \/ DeleteDone(a)

getNameList(a) == Enter(a, "names") \/ NamesDone(a)

(* SIGTERM or SIGINT closes the listener.                                  *)
GoSignal ==
  /\ up
  /\ listening
  /\ listening' = FALSE
  /\ UNCHANGED <<mu, store, pc, req, local, resp, up, asked, before, walk>>

(* Accept returned: close aborts the associations and main returns, in the *)
(* middle of whatever the handlers do.                                     *)
GoExit ==
  /\ up
  /\ ~listening
  /\ up' = FALSE
  /\ UNCHANGED <<mu, store, pc, req, local, resp, listening, asked, before, walk>>

(* Handle.                                                                 *)
Handle(a) ==
  \/ read(a)
  \/ write(a)
  \/ getVariableAccessAttributes(a)
  \/ getNVLAttributes(a)
  \/ defineNVL(a)
  \/ deleteNVL(a)
  \/ getNameList(a)
  \/ Unserved(a)
  \/ Reply(a)

GoNext ==
  \/ \E a \in Assocs : Connect(a) \/ Receive(a) \/ Handle(a) \/ End(a)
  \/ GoSignal
  \/ GoExit

(* Every handler goes on; clients need not ask and signals need not come.  *)
GoSpec == GoInit /\ [][GoNext]_vars /\ \A a \in Assocs : WF_vars(Handle(a))

-----------------------------------------------------------------------------
(* The Rust mms-server.                                                    *)

RsInit == ServingInit

assoc_read(a) == Enter(a, "read") \/ ReadNext(a) \/ ReadDone(a)

assoc_write(a) ==
  \/ Enter(a, "write")
  \/ WriteRefused(a)
  \/ writeOne(a)
  \/ WriteDone(a)
  \/ sendReports(a)

gvaa(a) == Enter(a, "attributes") \/ AttributesDone(a)

nvl_attrs(a) == Enter(a, "members") \/ MembersDone(a)

(* The error define_nvl finds first: a member that does not exist, no such *)
(* domain, a list of that name.                                            *)
RsDefineError(a) ==
  LET k == Key(a, req[a].list)
  IN IF BadMember(a) THEN "undefined"
     ELSE IF k \notin Keys THEN "non-existent"
     ELSE IF Has(lists, k) THEN "exists" ELSE "none"

define_nvl(a) ==
  \/ Enter(a, "define")
  \/ At(a, "loop", "define") /\ Defined(a, RsDefineError(a))

delete_nvl(a) ==
  Enter(a, "delete") \/ DeleteNext(a) \/ DeleteRefused(a) \/ DeleteDone(a)

get_name_list(a) == Enter(a, "names") \/ NamesDone(a)

(* exit_on_signals.                                                        *)
RsSignal ==
  /\ up
  /\ up' = FALSE
  /\ listening' = FALSE
  /\ UNCHANGED <<mu, store, pc, req, local, resp, asked, before, walk>>

(* Assoc::confirmed.                                                       *)
confirmed(a) ==
  \/ assoc_read(a)
  \/ assoc_write(a)
  \/ gvaa(a)
  \/ nvl_attrs(a)
  \/ define_nvl(a)
  \/ delete_nvl(a)
  \/ get_name_list(a)
  \/ Unserved(a)
  \/ Reply(a)

RsNext ==
  \/ \E a \in Assocs : Connect(a) \/ Receive(a) \/ confirmed(a) \/ End(a)
  \/ RsSignal

(* Every task goes on; clients need not ask and signals need not come.     *)
RsSpec == RsInit /\ [][RsNext]_vars /\ \A a \in Assocs : WF_vars(confirmed(a))
=============================================================================
