------------------------------ MODULE MmsStore ------------------------------
(***************************************************************************)
(* What an MMS server promises its associations: each request takes effect *)
(* at one moment between its arrival and its answer, on all its items at   *)
(* once, whatever the other associations do.                               *)
(***************************************************************************)
EXTENDS MmsModel

VARIABLES
  value,        (* Value of each leaf.                                     *)
  lists,        (* Members of each named variable list.                    *)
  req,          (* Last request of each association.                       *)
  answer        (* Its answer; Nothing while it waits.                     *)

vars == <<value, lists, req, answer>>

Init ==
  /\ value = StartValue
  /\ lists \in StartLists
  /\ req = [a \in Assocs |-> NoList]
  /\ answer = [a \in Assocs |-> Nothing]

-----------------------------------------------------------------------------

(* A request arrives; its answer is not there yet.                         *)
Ask(a) ==
  /\ answer' = [answer EXCEPT ![a] = Nothing]
  /\ UNCHANGED <<value, lists>>
  /\ \E r \in Requests, n \in Names \cup {NoName} :
       req' = [req EXCEPT ![a] = [r EXCEPT !.after = n]]

Waiting(a, svc) == req[a] # NoList /\ answer[a] = Nothing /\ req[a].svc = svc

Say(a, x) == answer' = [answer EXCEPT ![a] = x] /\ UNCHANGED req

(* The items a read or write is about; NoList if its list does not exist.  *)
Members(a) ==
  IF ~req[a].byList THEN req[a].items
  ELSE IF Has(lists, Key(a, req[a].list)) THEN lists[Key(a, req[a].list)] ELSE NoList

(* All items as they are at one moment.                                    *)
Read(a) ==
  /\ Waiting(a, "read")
  /\ Say(a, IF Members(a) = NoList THEN Error("non-existent")
            ELSE [Success EXCEPT !.results =
                    [i \in 1 .. Len(Members(a)) |-> ReadResult(value, Members(a)[i])]])
  /\ UNCHANGED <<value, lists>>

(* A write that is refused as a whole changes nothing.                     *)
WriteRefused(a) ==
  /\ Waiting(a, "write")
  /\ \/ Members(a) = NoList /\ Say(a, Error("non-existent"))
     \/ /\ Members(a) # NoList
        /\ Len(Members(a)) # Len(req[a].data)
        /\ Say(a, Error("invalid"))
  /\ UNCHANGED <<value, lists>>

(* A write: an item is written just if its result is ok, a leaf keeps the  *)
(* last of its writes, and reports show the store after the whole write.   *)
Write(a) ==
  LET ms == Members(a)
      d == req[a].data
      codes == [i \in 1 .. Len(ms) |-> WriteCode(ms[i], d[i])]
      writes(l) == {i \in 1 .. Len(ms) : codes[i] = "ok" /\ l \in Path[ms[i]]}
      new == [l \in Leaves |-> IF writes(l) = {} THEN value[l] ELSE d[Max(writes(l))]]
      fired == \E i \in 1 .. Len(ms) : codes[i] = "ok" /\ ms[i] \in Triggers
  IN
  /\ Waiting(a, "write")
  /\ ms # NoList
  /\ Len(ms) = Len(d)
  /\ value' = new
  /\ Say(a, [Success EXCEPT !.results = [i \in 1 .. Len(ms) |-> Result(codes[i], Empty)],
                            !.reports = IF fired THEN ReportResults(new) ELSE << >>])
  /\ UNCHANGED lists

(* GetVariableAccessAttributes of an item, and of a list.                  *)
Attributes(a) ==
  /\ Waiting(a, "attributes")
  /\ Say(a, IF Path[req[a].items[1]] = {} THEN Error("non-existent") ELSE Success)
  /\ UNCHANGED <<value, lists>>

MembersOf(a) ==
  LET k == Key(a, req[a].list) IN
  /\ Waiting(a, "members")
  /\ Say(a, IF Has(lists, k) THEN [Success EXCEPT !.items = lists[k]] ELSE Error("non-existent"))
  /\ UNCHANGED <<value, lists>>

(* A list comes into being with all its members, each of which exists, and *)
(* never replaces another.                                                 *)
Define(a) ==
  LET k == Key(a, req[a].list)
      ms == req[a].items
      errors == (IF k \in Keys THEN {} ELSE {"non-existent"})
                  \cup (IF Has(lists, k) THEN {"exists"} ELSE {})
                  \cup (IF \E i \in 1 .. Len(ms) : Path[ms[i]] = {} THEN {"undefined"} ELSE {})
  IN
  /\ Waiting(a, "define")
  /\ IF errors = {}
       THEN Say(a, Success) /\ lists' = [lists EXCEPT ![k] = ms]
       ELSE (\E e \in errors : Say(a, Error(e))) /\ UNCHANGED lists
  /\ UNCHANGED value

(* The lists named are gone; each is counted once.  A name that cannot be  *)
(* decoded is refused, and only the lists before it are gone.              *)
Delete(a) ==
  LET named == req[a].lists
      bad == {i \in 1 .. Len(named) : named[i][1] = "malformed"}
      read == 1 .. IF bad = {} THEN Len(named) ELSE Min(bad) - 1
      gone == {k \in Keys : lists[k] # NoList /\ \E i \in read : Key(a, named[i]) = k}
  IN
  /\ Waiting(a, "delete")
  /\ lists' = [k \in Keys |-> IF k \in gone THEN NoList ELSE lists[k]]
  /\ Say(a, IF bad = {} THEN [Success EXCEPT !.count = Cardinality(gone)] ELSE Error("invalid"))
  /\ UNCHANGED value

(* One page of the names of the lists of a scope.                          *)
ListPage(a) ==
  LET k == Key(a, req[a].list) IN
  /\ Waiting(a, "names")
  /\ Say(a, IF k \in Keys THEN Page(ListNames(lists, k[1]), req[a].after)
            ELSE Error("non-existent"))
  /\ UNCHANGED <<value, lists>>

(* A request that cannot be decoded or is not served.                      *)
Refuse(a) ==
  /\ Waiting(a, "other")
  /\ Say(a, Error("refused"))
  /\ UNCHANGED <<value, lists>>

(* The association ends and takes its own lists with it.                   *)
End(a) ==
  /\ lists' = [k \in Keys |-> IF k[1] = a THEN NoList ELSE lists[k]]
  /\ req' = [req EXCEPT ![a] = NoList]
  /\ answer' = [answer EXCEPT ![a] = Nothing]
  /\ UNCHANGED value

Next ==
  \E a \in Assocs :
    \/ Ask(a)
    \/ Read(a)
    \/ WriteRefused(a)
    \/ Write(a)
    \/ Attributes(a)
    \/ MembersOf(a)
    \/ Define(a)
    \/ Delete(a)
    \/ ListPage(a)
    \/ Refuse(a)
    \/ End(a)

Spec == Init /\ [][Next]_vars
=============================================================================
