------------------------------ MODULE MmsModel ------------------------------
(***************************************************************************)
(* What the MMS servers serve: variables, named variable lists and         *)
(* requests.  A variable is the set of its leaves; an item is one access   *)
(* path (a variable, "name$component" or an alternate access) and stands   *)
(* for the leaves it selects.                                              *)
(***************************************************************************)
EXTENDS Integers, Sequences, FiniteSets, FiniteSetsExt

CONSTANTS
  Assocs,       (* Associations.                                           *)
  Leaves,       (* Leaves of the fixture's variables.                      *)
  Vals,         (* Values of a leaf.                                       *)
  Wrong,        (* Data of a type no item has.                             *)
  Path,         (* The leaves each item selects; {} if it names nothing.   *)
  Fault,        (* The DataAccessError of each item that names nothing.    *)
  Writable,     (* Items of writable variables.                            *)
  Triggers,     (* Items of the variable report-trigger.                   *)
  Reports,      (* Items of the fixture's InformationReports, in order.    *)
  Names,        (* Names of named variable lists, as numbers that sort as  *)
                (* the names do.                                           *)
  NoList,       (* No such list.                                           *)
  StartValue,   (* The fixture's values.                                   *)
  StartLists,   (* Lists that earlier associations may have left.          *)
  Requests,     (* Requests a client may send.                             *)
  PageMax       (* List names that fit one response.                       *)

Items == DOMAIN Path

(* The maps of lists: VMD scope, the domain's, and one per association.    *)
Owners == Assocs \cup {"vmd", "domain"}
Keys == Owners \X Names

NoName == 0     (* No continueAfter.                                       *)

(* A request; each service uses some of the fields.                        *)
RequestType ==
  [svc : {"read", "write", "attributes", "define", "members", "delete", "names", "other"},
   byList : BOOLEAN,                          (* By variableListName.      *)
   list : {"vmd", "domain", "aa", "nowhere"} \X Names,
   items : Seq(Items),                        (* listOfVariable.           *)
   data : Seq(Vals \cup {Wrong}),             (* listOfData.               *)
   lists : Seq({"vmd", "domain", "aa", "nowhere", "malformed"} \X Names),
   after : Names \cup {NoName}]

ASSUME ModelAssumption ==
  /\ Names \subseteq Nat \ {NoName} /\ IsFiniteSet(Names)
  /\ NoList \notin Assocs \cup RequestType
  /\ Assocs \cap {"vmd", "domain", "aa", "nowhere", "malformed"} = {}
  /\ Wrong \notin Vals
  /\ \A i \in Items : Path[i] \subseteq Leaves
  /\ Fault \in [{i \in Items : Path[i] = {}} -> {"non-existent", "invalid-address", "unsupported"}]
  /\ Writable \subseteq Items /\ Triggers \subseteq Items
  /\ Reports \in Seq(Items)
  /\ StartValue \in [Leaves -> Vals]
  /\ StartLists \subseteq [Keys -> Seq(Items) \cup {NoList}]
  /\ \A ls \in StartLists, k \in Keys :
       ls[k] # NoList => \A i \in 1 .. Len(ls[k]) : Path[ls[k][i]] # {}
  /\ \A r \in Requests : r \in RequestType
  /\ PageMax \in Nat \ {0}

-----------------------------------------------------------------------------

(* nvlScope: the key of a list name in the maps association a sees.        *)
Key(a, n) == <<IF n[1] = "aa" THEN a ELSE n[1], n[2]>>

(* The list is in its map; an unknown domain has none.                     *)
Has(ls, k) == k \in Keys /\ ls[k] # NoList

(* No value.                                                               *)
Empty == [l \in {} |-> Wrong]

(* The result of one item of a request.                                    *)
Result(code, val) == [code |-> code, val |-> val]

(* resolve and get.                                                        *)
ReadResult(v, i) ==
  IF Path[i] = {} THEN Result(Fault[i], Empty)
  ELSE Result("ok", [l \in Path[i] |-> v[l]])

(* resolve, the test of writable and conform.                              *)
WriteCode(i, d) ==
  CASE Path[i] = {} -> Fault[i]
    [] Path[i] # {} /\ i \notin Writable -> "denied"
    [] Path[i] # {} /\ i \in Writable -> IF d = Wrong THEN "type-inconsistent" ELSE "ok"

(* set.                                                                    *)
Stored(v, i, d) == [l \in Leaves |-> IF l \in Path[i] THEN d ELSE v[l]]

(* The values of the fixture's InformationReports.                         *)
ReportResults(v) == [i \in 1 .. Len(Reports) |-> ReadResult(v, Reports[i])]

(* Names of the lists in a map; a sorted list of names is the set of them. *)
ListNames(ls, owner) == {n \in Names : ls[<<owner, n>>] # NoList}

(* Mutant: nothing follows a name that is no longer there.                 *)
RestMutant(all, after) ==
  IF after = NoName THEN all ELSE {n \in all : after \in all /\ n > after}

(* The names after the given one, all of them if it is not there.          *)
Rest(all, after) == IF after \in all THEN {n \in all : n > after} ELSE all

(* A request that waits for its answer, and an answer.                     *)
Nothing ==
  [code |-> "none", results |-> << >>, items |-> << >>, names |-> {}, more |-> FALSE,
   count |-> 0, reports |-> << >>]

Error(code) == [Nothing EXCEPT !.code = code]
Success == Error("ok")

(* One page of names: the first PageMax of those that are left.            *)
Page(all, after) ==
  LET rest == Rest(all, after)
  IN [Success EXCEPT !.names = {n \in rest : Cardinality({m \in rest : m < n}) < PageMax},
                     !.more = Cardinality(rest) > PageMax]
=============================================================================
