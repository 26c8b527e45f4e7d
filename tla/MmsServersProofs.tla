-------------------------- MODULE MmsServersProofs --------------------------
(***************************************************************************)
(* Proofs about the Go and the Rust mms-server, for any associations,      *)
(* model, lists and requests: that each request takes effect in one step   *)
(* of MmsStore, although its handler works item by item, that a walk       *)
(* through the pages of a name list misses nothing, and that files are     *)
(* whole, whoever opens, reads, renames, deletes and obtains them at the   *)
(* same time, and whatever call of an ObtainFile times out.                *)
(***************************************************************************)
EXTENDS MmsServers, MmsFiles, FiniteSetTheorems, SequenceTheorems,
        WellFoundedInduction, TLAPS

(* MmsStore talks about the same model.                                    *)
LEMMA SameModel ==
  /\ Store!Keys = Keys
  /\ \A a, n : Store!Key(a, n) = Key(a, n)
  /\ \A ls, k : Store!Has(ls, k) = Has(ls, k)
  /\ Store!Empty = Empty
  /\ \A c, v : Store!Result(c, v) = Result(c, v)
  /\ \A v, i : Store!ReadResult(v, i) = ReadResult(v, i)
  /\ \A i, d : Store!WriteCode(i, d) = WriteCode(i, d)
  /\ \A v : Store!ReportResults(v) = ReportResults(v)
<1>1. Store!Keys = Keys
  BY DEF Store!Keys, Keys, Store!Owners, Owners
<1>2. \A a, n : Store!Key(a, n) = Key(a, n)
  BY DEF Store!Key, Key
<1>3. \A ls, k : Store!Has(ls, k) = Has(ls, k)
  BY <1>1 DEF Store!Has, Has
<1>4. Store!Empty = Empty
  BY DEF Store!Empty, Empty
<1>5. \A c, v : Store!Result(c, v) = Result(c, v)
  BY DEF Store!Result, Result
<1>6. \A v, i : Store!ReadResult(v, i) = ReadResult(v, i)
  BY DEF Store!ReadResult, ReadResult, Store!Result, Result, Store!Empty, Empty
<1>7. \A i, d : Store!WriteCode(i, d) = WriteCode(i, d)
  BY DEF Store!WriteCode, WriteCode
<1>8. \A v : Store!ReportResults(v) = ReportResults(v)
  BY <1>6 DEF Store!ReportResults, ReportResults
<1> QED BY <1>1, <1>2, <1>3, <1>4, <1>5, <1>6, <1>7, <1>8

(* Its answers are the same.                                               *)
LEMMA SameAnswers ==
  /\ Store!Nothing = Nothing
  /\ \A c : Store!Error(c) = Error(c)
  /\ Store!Success = Success
  /\ \A S : Store!Max(S) = Max(S)
  /\ \A S : Store!Min(S) = Min(S)
  /\ \A S : Store!Cardinality(S) = Cardinality(S)
  /\ \A ls, o, x : Store!Page(Store!ListNames(ls, o), x) = Page(ListNames(ls, o), x)
<1>1. Store!Nothing = Nothing
  BY DEF Store!Nothing, Nothing
<1>2. \A c : Store!Error(c) = Error(c)
  BY <1>1 DEF Store!Error, Error
<1>3. Store!Success = Success
  BY <1>2 DEF Store!Success, Success
<1>4. \A S : Store!Max(S) = Max(S)
  BY DEF Store!Max, Max
<1>5. \A S : Store!Min(S) = Min(S)
  BY DEF Store!Min, Min
<1>6. \A S : Store!Cardinality(S) = Cardinality(S)
  BY DEF Store!Cardinality, Cardinality
<1>7. \A all, x : Store!Rest(all, x) = Rest(all, x)
  BY DEF Store!Rest, Rest
<1>8. \A ls, o : Store!ListNames(ls, o) = ListNames(ls, o)
  BY DEF Store!ListNames, ListNames
<1>9. \A all, x : Store!Page(all, x) = Page(all, x)
  BY <1>3, <1>6, <1>7 DEF Store!Page, Page
<1> QED BY <1>1, <1>2, <1>3, <1>4, <1>5, <1>6, <1>8, <1>9

-----------------------------------------------------------------------------
(* The owners of the maps a request of a can be about.                     *)
MapsOf(a) == {a, "vmd", "domain"}

ListName == {"vmd", "domain", "aa", "nowhere", "malformed"} \X Names

LEMMA KeyInMaps ==
  ASSUME NEW a \in Assocs, NEW n \in ListName
  PROVE  /\ Key(a, n) \in Keys => Key(a, n)[1] \in MapsOf(a)
         /\ Key(a, n)[1] = "malformed" <=> n[1] = "malformed"
<1>1. Assocs \cap {"vmd", "domain", "aa", "nowhere", "malformed"} = {}
  BY ModelAssumption
<1>2. n[1] \in {"vmd", "domain", "aa", "nowhere", "malformed"} /\ n[2] \in Names
  BY DEF ListName
<1>3. Key(a, n)[1] = IF n[1] = "aa" THEN a ELSE n[1]
  BY DEF Key
<1>4. Key(a, n) \in Keys => Key(a, n)[1] \in Assocs \cup {"vmd", "domain"}
  BY DEF Keys, Owners
<1> QED BY <1>1, <1>2, <1>3, <1>4 DEF MapsOf

(* What Append makes of a sequence.                                        *)
LEMMA AppendIs ==
  ASSUME NEW S, NEW s \in Seq(S), NEW e \in S
  PROVE  /\ Append(s, e) \in Seq(S)
         /\ Len(s) \in Nat /\ Len(Append(s, e)) = Len(s) + 1
         /\ \A i \in 1 .. Len(s) : Append(s, e)[i] = s[i]
         /\ Append(s, e)[Len(s) + 1] = e
         /\ Append(s, e) = [i \in 1 .. Len(s) + 1 |-> Append(s, e)[i]]
<1>1. /\ Append(s, e) \in Seq(S)
      /\ Len(s) \in Nat /\ Len(Append(s, e)) = Len(s) + 1
      /\ \A i \in 1 .. Len(s) : Append(s, e)[i] = s[i]
      /\ Append(s, e)[Len(s) + 1] = e
  OBVIOUS
<1>2. Append(s, e) = [i \in 1 .. Len(Append(s, e)) |-> Append(s, e)[i]]
  BY <1>1, LenProperties
<1> QED BY <1>1, <1>2

(* A sequence that so far is what f gives grows by what f gives next.      *)
LEMMA GrowsBy ==
  ASSUME NEW S, NEW f, NEW s \in Seq(S),
         s = [i \in 1 .. Len(s) |-> f[i]], f[Len(s) + 1] \in S
  PROVE  LET t == Append(s, f[Len(s) + 1])
         IN  t \in Seq(S) /\ Len(t) = Len(s) + 1 /\ t = [i \in 1 .. Len(t) |-> f[i]]
<1> DEFINE t == Append(s, f[Len(s) + 1])
<1>1. /\ t \in Seq(S)
      /\ Len(s) \in Nat /\ Len(t) = Len(s) + 1
      /\ \A i \in 1 .. Len(s) : t[i] = s[i]
      /\ t[Len(s) + 1] = f[Len(s) + 1]
      /\ t = [i \in 1 .. Len(s) + 1 |-> t[i]]
  BY AppendIs
<1> HIDE DEF t
<1>2. \A i \in 1 .. Len(s) + 1 : t[i] = f[i]
  <2> TAKE i \in 1 .. Len(s) + 1
  <2>1. CASE i \in 1 .. Len(s)
    BY <1>1, <2>1
  <2>2. CASE i = Len(s) + 1
    BY <1>1, <2>2
  <2> QED BY <1>1, <2>1, <2>2
<1>3. t = [i \in 1 .. Len(t) |-> f[i]]
  BY <1>1, <1>2
<1> QED BY <1>1, <1>3 DEF t

(* The largest of the numbers up to n + 1, if n + 1 is one of them.        *)
LEMMA MaxIsLast ==
  ASSUME NEW n \in Nat, NEW W \in SUBSET (1 .. n + 1), n + 1 \in W
  PROVE  Max(W) = n + 1
<1>1. \A y \in W : n + 1 >= y
  OBVIOUS
<1>2. \E x \in W : \A y \in W : x >= y
  BY <1>1
<1>3. Max(W) \in W /\ \A y \in W : Max(W) >= y
  BY <1>2, Zenon DEF Max
<1>4. Max(W) \in 1 .. n + 1 /\ Max(W) >= n + 1
  BY <1>3
<1> QED BY <1>4

-----------------------------------------------------------------------------
(* The work of a request so far, of which the store shows nothing yet.     *)

(* The items the request was about when it got the mutex.                  *)
Start(a) ==
  IF ~req[a].byList THEN req[a].items
  ELSE IF Has(before[2], Key(a, req[a].list)) THEN before[2][Key(a, req[a].list)] ELSE NoList

SameValue == value = before[1]
SameLists(a) == \A k \in Keys : k[1] \in MapsOf(a) => lists[k] = before[2][k]

ReadSoFar(a) ==
  /\ specs[a] = Start(a)
  /\ SameValue /\ SameLists(a)
  /\ res[a] = [i \in 1 .. Len(res[a]) |-> ReadResult(before[1], specs[a][i])]

(* The first n items of a write that write leaf l, and what they leave.    *)
Writes(ms, d, n, l) == {i \in 1 .. n : WriteCode(ms[i], d[i]) = "ok" /\ l \in Path[ms[i]]}
Written(v, ms, d, n) ==
  [l \in Leaves |-> IF Writes(ms, d, n, l) = {} THEN v[l] ELSE d[Max(Writes(ms, d, n, l))]]

WrittenSoFar(a) ==
  /\ specs[a] = Start(a)
  /\ SameLists(a)
  /\ specs[a] = NoList \/ Len(specs[a]) # Len(req[a].data) => res[a] = << >>
  /\ res[a] = [i \in 1 .. Len(res[a]) |-> Result(WriteCode(specs[a][i], req[a].data[i]), Empty)]
  /\ value = Written(before[1], specs[a], req[a].data, Len(res[a]))

(* The lists of ls the first n names of a delete are about, and the        *)
(* results that count.                                                     *)
Gone(a, ls, named, n) == {k \in Keys : ls[k] # NoList /\ \E i \in 1 .. n : Key(a, named[i]) = k}
Counted(rs) == {i \in 1 .. Len(rs) : rs[i].code = "ok"}

DeletedSoFar(a) ==
  LET gone == Gone(a, before[2], req[a].lists, Len(res[a])) IN
  /\ SameValue
  /\ Len(res[a]) <= Len(req[a].lists)
  /\ \A i \in 1 .. Len(res[a]) : req[a].lists[i][1] # "malformed"
  /\ \A k \in Keys : k[1] \in MapsOf(a) => lists[k] = IF k \in gone THEN NoList ELSE before[2][k]
  /\ IsFiniteSet(gone) /\ IsFiniteSet(Counted(res[a]))
  /\ Cardinality(gone) = Cardinality(Counted(res[a]))

(* The loop of a write is over, and it wrote report-trigger.               *)
Reporting(a) ==
  /\ req[a].svc = "write" /\ specs[a] # NoList
  /\ Len(res[a]) = Len(specs[a]) /\ Len(specs[a]) = Len(req[a].data)
  /\ Trigger(a)

SoFar(a) ==
  /\ before[1] \in [Leaves -> Vals]
  /\ before[2] \in [Keys -> Seq(Items) \cup {NoList}]
  /\ req[a].svc = "read" => ReadSoFar(a)
  /\ req[a].svc = "write" => WrittenSoFar(a)
  /\ req[a].svc = "delete" => DeletedSoFar(a)
  /\ req[a].svc \notin {"read", "write", "delete"} => SameValue /\ SameLists(a) /\ res[a] = << >>
  /\ pc[a] = "report" => Reporting(a)

Typed ==
  /\ mu \in Assocs \cup {NoList}
  /\ value \in [Leaves -> Vals]
  /\ lists \in [Keys -> Seq(Items) \cup {NoList}]
  /\ pc \in [Assocs -> {"off", "idle", "wait", "loop", "report", "answered"}]
  /\ req \in [Assocs -> RequestType \cup {NoList}]
  /\ specs \in [Assocs -> Seq(Items) \cup {NoList}]
  /\ res \in [Assocs -> Seq(Results)]
  /\ resp = [a \in Assocs |-> resp[a]]

(* The handler of a has a request under way.                               *)
Busy(a) == pc[a] \in {"wait", "loop", "report"}

(* A request under way has no answer, and who works on the model holds the *)
(* mutex.                                                                  *)
HandlerOk(a) ==
  /\ Busy(a) => req[a] \in RequestType /\ resp[a] = Nothing
  /\ pc[a] \in {"loop", "report"} <=> mu = a
  /\ mu # a => res[a] = << >>

(* The inductive invariant of the refinement.                              *)
ServingInv ==
  /\ Typed
  /\ \A a \in Assocs : HandlerOk(a)
  /\ \A a \in Assocs : mu = a => SoFar(a)

LEMMA ServingInitOk == ServingInit => ServingInv /\ Store!Init
<1> SUFFICES ASSUME ServingInit PROVE ServingInv /\ Store!Init
  OBVIOUS
<1> USE ModelAssumption DEF ServingInit
<1>1. Typed
  BY DEF Typed
<1>2. ASSUME NEW a \in Assocs PROVE HandlerOk(a) /\ mu # a
  BY DEF HandlerOk, Busy
<1>3. SeenValue = value /\ SeenLists = lists
  BY DEF SeenValue, SeenLists
<1>4. Store!Init
  BY <1>3, SameAnswers DEF Store!Init
<1> QED BY <1>1, <1>2, <1>4 DEF ServingInv

-----------------------------------------------------------------------------
(* Steps of one association that leave the model to the others.            *)

(* What a request has done so far stands as long as nobody touches it.     *)
LEMMA Undisturbed ==
  ASSUME Typed, NEW b \in Assocs, SoFar(b),
         value' = value, before' = before, req'[b] = req[b], specs'[b] = specs[b],
         res'[b] = res[b], pc'[b] = pc[b],
         \A k \in Keys : k[1] \in MapsOf(b) => lists'[k] = lists[k]
  PROVE  SoFar(b)'
<1>1. SameValue' <=> SameValue
  BY DEF SameValue
<1>2. SameLists(b)' <=> SameLists(b)
  BY DEF SameLists
<1>3. ReadSoFar(b)' <=> ReadSoFar(b)
  BY <1>1, <1>2 DEF ReadSoFar, Start
<1>4. WrittenSoFar(b)' <=> WrittenSoFar(b)
  BY <1>2 DEF WrittenSoFar, Start
<1>5. DeletedSoFar(b)' <=> DeletedSoFar(b)
  BY <1>1 DEF DeletedSoFar
<1>6. Reporting(b)' <=> Reporting(b)
  BY DEF Reporting, Trigger
<1> QED BY <1>1, <1>2, <1>3, <1>4, <1>5, <1>6 DEF SoFar

(* Only the handler of a acts; who else works on the model is undisturbed. *)
LEMMA OneActs ==
  ASSUME ServingInv, NEW a \in Assocs, Typed', HandlerOk(a)',
         \/ mu' = mu
         \/ mu \in {a, NoList} /\ mu' \in {a, NoList},
         \A b \in Assocs \ {a} :
           /\ pc'[b] = pc[b] /\ req'[b] = req[b] /\ resp'[b] = resp[b]
           /\ res'[b] = res[b] /\ specs'[b] = specs[b],
         \A b \in Assocs \ {a} : mu = b =>
           /\ value' = value /\ before' = before
           /\ \A k \in Keys : k[1] \in MapsOf(b) => lists'[k] = lists[k],
         mu' = a => SoFar(a)'
  PROVE  ServingInv'
<1>0. NoList \notin Assocs
  BY ModelAssumption
<1>1. ASSUME NEW b \in Assocs PROVE HandlerOk(b)'
  <2>1. CASE b = a
    BY <2>1
  <2>2. CASE b # a
    <3>1. HandlerOk(b)
      BY DEF ServingInv
    <3>2. mu' = b <=> mu = b
      BY <1>0, <2>2
    <3> QED BY <2>2, <3>1, <3>2 DEF HandlerOk, Busy
  <2> QED BY <2>1, <2>2
<1>2. ASSUME NEW b \in Assocs, mu' = b PROVE SoFar(b)'
  <2>1. CASE b = a
    BY <1>2, <2>1
  <2>2. CASE b # a
    <3>1. mu = b
      BY <1>0, <1>2, <2>2
    <3>2. SoFar(b) /\ Typed
      BY <3>1 DEF ServingInv
    <3> QED BY <2>2, <3>1, <3>2, Undisturbed
  <2> QED BY <2>1, <2>2
<1> QED BY <1>1, <1>2 DEF ServingInv

(* What the store shows does not change while the mutex is held.           *)
LEMMA SeenSame ==
  ASSUME mu' = mu, before' = before, mu = NoList => value' = value,
         \A k \in Keys : mu = NoList \/ k[1] \notin {mu, "vmd", "domain"} => lists'[k] = lists[k]
  PROVE  SeenValue' = SeenValue /\ SeenLists' = SeenLists
BY DEF SeenValue, SeenLists

LEMMA ConnectStep ==
  ASSUME ServingInv, NEW a \in Assocs, Connect(a) \/ Reply(a)
  PROVE  ServingInv' /\ UNCHANGED Store!vars
<1> USE DEF Connect, Reply, store, local, process
<1>0. NoList \notin Assocs /\ Typed /\ HandlerOk(a)
  BY ModelAssumption DEF ServingInv
<1>1. Typed'
  BY <1>0 DEF Typed
<1>2. HandlerOk(a)' /\ mu' # a
  BY <1>0 DEF Typed, HandlerOk, Busy
<1>3. ServingInv'
  BY <1>0, <1>1, <1>2, OneActs DEF Typed
<1>4. SeenValue' = SeenValue /\ SeenLists' = SeenLists
  BY SeenSame
<1> QED BY <1>3, <1>4 DEF Store!vars

LEMMA ReceiveStep ==
  ASSUME ServingInv, NEW a \in Assocs, Receive(a), walk[a].cursor \in Names \cup {NoName}
  PROVE  ServingInv' /\ Store!Next
<1> USE DEF store, local, process
<1>0. NoList \notin Assocs /\ Typed /\ HandlerOk(a)
  BY ModelAssumption DEF ServingInv
<1>1. PICK r \in Requests, n \in Names \cup {NoName} :
         req' = [req EXCEPT ![a] = [r EXCEPT !.after = n]]
  BY DEF Receive
<1>2. [r EXCEPT !.after = n] \in RequestType
  <2>1. r \in RequestType
    BY ModelAssumption
  <2> QED BY <2>1 DEF RequestType
<1>3. /\ UNCHANGED <<mu, value, lists, specs, res, before>>
      /\ pc[a] = "idle"
      /\ pc' = [pc EXCEPT ![a] = "wait"]
      /\ resp' = [resp EXCEPT ![a] = Nothing]
  BY DEF Receive
<1>4. Typed'
  BY <1>0, <1>1, <1>2, <1>3 DEF Typed
<1>5. HandlerOk(a)' /\ mu' # a
  BY <1>0, <1>1, <1>2, <1>3 DEF Typed, HandlerOk, Busy
<1>6. ServingInv'
  BY <1>0, <1>1, <1>3, <1>4, <1>5, OneActs DEF Typed
<1>7. SeenValue' = SeenValue /\ SeenLists' = SeenLists
  BY <1>3, SeenSame
<1>8. Store!Ask(a)
  BY <1>1, <1>3, <1>7, SameAnswers DEF Store!Ask, Store!NoName, NoName
<1> QED BY <1>6, <1>8 DEF Store!Next

LEMMA UnservedStep ==
  ASSUME ServingInv, NEW a \in Assocs, Unserved(a)
  PROVE  ServingInv' /\ Store!Next
<1> USE DEF store, local, process
<1>0. NoList \notin Assocs /\ NoList \notin RequestType /\ Typed /\ HandlerOk(a)
  BY ModelAssumption DEF ServingInv
<1>1. /\ UNCHANGED <<mu, value, lists, req, specs, res, before>>
      /\ pc[a] = "wait" /\ req[a].svc = "other"
      /\ pc' = [pc EXCEPT ![a] = "answered"]
      /\ resp' = [resp EXCEPT ![a] = Error("refused")]
  BY DEF Unserved, At
<1>2. Typed'
  BY <1>0, <1>1 DEF Typed
<1>3. HandlerOk(a)' /\ mu' # a
  BY <1>0, <1>1 DEF Typed, HandlerOk, Busy
<1>4. ServingInv'
  BY <1>0, <1>1, <1>2, <1>3, OneActs DEF Typed
<1>5. SeenValue' = SeenValue /\ SeenLists' = SeenLists
  BY <1>1, SeenSame
<1>6. req[a] # NoList /\ resp[a] = Nothing
  BY <1>0, <1>1 DEF HandlerOk, Busy
<1>7. Store!Refuse(a)
  BY <1>1, <1>5, <1>6, SameAnswers DEF Store!Refuse, Store!Waiting, Store!Say
<1> QED BY <1>4, <1>7 DEF Store!Next

LEMMA EndStep ==
  ASSUME ServingInv, NEW a \in Assocs, End(a)
  PROVE  ServingInv' /\ Store!Next
<1> USE DEF local, process
<1>0. /\ NoList \notin Assocs /\ "vmd" \notin Assocs /\ "domain" \notin Assocs
      /\ Typed /\ HandlerOk(a)
  BY ModelAssumption DEF ServingInv
<1>1. /\ UNCHANGED <<mu, value, specs, res, before>>
      /\ pc[a] \in {"idle", "answered"}
      /\ pc' = [pc EXCEPT ![a] = "off"]
      /\ lists' = [k \in Keys |-> IF k[1] = a THEN NoList ELSE lists[k]]
      /\ req' = [req EXCEPT ![a] = NoList]
      /\ resp' = [resp EXCEPT ![a] = Nothing]
  BY DEF End
<1>2. Typed'
  BY <1>0, <1>1 DEF Typed
<1>3. HandlerOk(a)' /\ mu' # a /\ mu # a
  BY <1>0, <1>1 DEF Typed, HandlerOk, Busy
<1>4. ASSUME NEW b \in Assocs \ {a}, NEW k \in Keys, k[1] \in MapsOf(b)
      PROVE  lists'[k] = lists[k]
  BY <1>0, <1>1, <1>4 DEF MapsOf
<1>5. ServingInv'
  BY <1>0, <1>1, <1>2, <1>3, <1>4, OneActs DEF Typed
<1>6. SeenValue' = SeenValue
  BY <1>1 DEF SeenValue
<1>7. SeenLists' = [k \in Keys |-> IF k[1] = a THEN NoList ELSE SeenLists[k]]
  BY <1>0, <1>1, <1>3 DEF SeenLists
<1>8. Store!End(a)
  BY <1>1, <1>6, <1>7, SameModel, SameAnswers DEF Store!End
<1> QED BY <1>5, <1>8 DEF Store!Next

-----------------------------------------------------------------------------
(* A request gets the mutex, works, and gives it back.                     *)

LEMMA EnterStep ==
  ASSUME ServingInv, NEW a \in Assocs, NEW svc, Enter(a, svc)
  PROVE  ServingInv' /\ UNCHANGED Store!vars
<1> USE DEF store, local, process
<1>0. NoList \notin Assocs /\ Typed /\ HandlerOk(a)
  BY ModelAssumption DEF ServingInv
<1>1. /\ UNCHANGED <<value, lists, req, res, resp>>
      /\ pc[a] = "wait" /\ req[a].svc = svc
      /\ mu = NoList /\ mu' = a
      /\ pc' = [pc EXCEPT ![a] = "loop"]
      /\ specs' = [specs EXCEPT ![a] =
                     IF svc \in {"read", "write"} THEN parseVariableAccess(a) ELSE << >>]
      /\ before' = <<value, lists>>
  BY DEF Enter, At, Lock
<1>2. req[a] \in RequestType /\ resp[a] = Nothing /\ res[a] = << >>
  BY <1>0, <1>1 DEF HandlerOk, Busy
<1>3. parseVariableAccess(a) \in Seq(Items) \cup {NoList}
  <2>1. req[a].items \in Seq(Items)
    BY <1>2 DEF RequestType
  <2> QED BY <1>0, <2>1 DEF parseVariableAccess, Typed, Has
<1>4. Typed'
  BY <1>0, <1>1, <1>3 DEF Typed
<1>5. HandlerOk(a)'
  BY <1>0, <1>1, <1>2 DEF Typed, HandlerOk, Busy
<1>6. SoFar(a)'
  <2>1. res'[a] = << >> /\ Len(res'[a]) = 0 /\ req'[a] = req[a] /\ pc'[a] = "loop"
    BY <1>0, <1>1, <1>2 DEF Typed
  <2>2. SameValue' /\ SameLists(a)'
    BY <1>1 DEF SameValue, SameLists
  <2>3. svc \in {"read", "write"} => specs'[a] = Start(a)'
    BY <1>0, <1>1 DEF Typed, Start, parseVariableAccess
  <2>4. svc = "read" => ReadSoFar(a)'
    <3>1. res'[a] = [i \in 1 .. Len(res'[a]) |-> ReadResult(before'[1], specs'[a][i])]
      BY <2>1
    <3> QED BY <2>2, <2>3, <3>1 DEF ReadSoFar
  <2>5. svc = "write" => WrittenSoFar(a)'
    <3>1. res'[a] = [i \in 1 .. Len(res'[a]) |->
                       Result(WriteCode(specs'[a][i], req'[a].data[i]), Empty)]
      BY <2>1
    <3>2. ASSUME NEW v \in [Leaves -> Vals], NEW ms, NEW d PROVE v = Written(v, ms, d, 0)
      <4>1. \A l \in Leaves : Writes(ms, d, 0, l) = {}
        BY DEF Writes
      <4> QED BY <4>1 DEF Written
    <3>3. value' = Written(before'[1], specs'[a], req'[a].data, Len(res'[a]))
      BY <1>0, <1>1, <2>1, <3>2 DEF Typed
    <3> QED BY <2>1, <2>2, <2>3, <3>1, <3>3 DEF WrittenSoFar
  <2>6. svc = "delete" => DeletedSoFar(a)'
    <3>1. Gone(a, before'[2], req'[a].lists, Len(res'[a])) = {} /\ Counted(res'[a]) = {}
      BY <2>1 DEF Gone, Counted
    <3>2. Len(req'[a].lists) \in Nat
      BY <1>2, <2>1 DEF RequestType
    <3>3. IsFiniteSet({}) /\ \A i \in 1 .. 0 : FALSE
      BY FS_EmptySet
    <3>4. \A i \in 1 .. Len(res'[a]) : req'[a].lists[i][1] # "malformed"
      BY <2>1, <3>3
    <3>5. \A k \in Keys : k[1] \in MapsOf(a) => lists'[k] = IF k \in {} THEN NoList ELSE before'[2][k]
      BY <2>2 DEF SameLists
    <3>6. Len(res'[a]) <= Len(req'[a].lists)
      BY <2>1, <3>2
    <3> QED BY <2>2, <3>1, <3>3, <3>4, <3>5, <3>6 DEF DeletedSoFar
  <2> QED BY <1>0, <1>1, <2>1, <2>2, <2>4, <2>5, <2>6 DEF SoFar, Typed
<1>7. ServingInv'
  <2>1. \A b \in Assocs \ {a} :
          /\ pc'[b] = pc[b] /\ req'[b] = req[b] /\ resp'[b] = resp[b]
          /\ res'[b] = res[b] /\ specs'[b] = specs[b]
    BY <1>0, <1>1 DEF Typed
  <2>2. (mu \in {a, NoList} /\ mu' \in {a, NoList}) /\ \A b \in Assocs : mu # b
    BY <1>0, <1>1
  <2> QED
    BY <1>4, <1>5, <1>6, <2>1, <2>2, OneActs
<1>8. SeenValue' = SeenValue /\ SeenLists' = SeenLists
  BY <1>0, <1>1 DEF SeenValue, SeenLists
<1> QED BY <1>1, <1>7, <1>8 DEF Store!vars

(* The loops only work on their own results and the model.                 *)
LEMMA LoopActs ==
  ASSUME ServingInv, NEW a \in Assocs, pc[a] = "loop",
         UNCHANGED <<mu, pc, req, specs, resp, before>>,
         value' \in [Leaves -> Vals], lists' \in [Keys -> Seq(Items) \cup {NoList}],
         NEW s \in Seq(Results), res' = [res EXCEPT ![a] = s],
         \A k \in Keys : k[1] \notin MapsOf(a) => lists'[k] = lists[k],
         SoFar(a)'
  PROVE  ServingInv' /\ UNCHANGED Store!vars
<1>0. NoList \notin Assocs /\ Typed /\ HandlerOk(a)
  BY ModelAssumption DEF ServingInv
<1>1. mu = a
  BY <1>0 DEF HandlerOk
<1>2. Typed'
  BY <1>0 DEF Typed
<1>3. HandlerOk(a)'
  BY <1>0, <1>1 DEF Typed, HandlerOk, Busy
<1>4. ServingInv'
  BY <1>0, <1>1, <1>2, <1>3, OneActs DEF Typed
<1>5. SeenValue' = SeenValue /\ SeenLists' = SeenLists
  BY <1>0, <1>1, SeenSame DEF MapsOf
<1> QED BY <1>4, <1>5 DEF Store!vars

LEMMA ResultTypes ==
  /\ \A v \in [Leaves -> Vals], i \in Items : ReadResult(v, i) \in Results
  /\ \A i \in Items : \A d : Result(WriteCode(i, d), Empty) \in Results
  /\ Result("ok", Empty) \in Results /\ Result("non-existent", Empty) \in Results
<1>0. Empty \in UNION {[s -> Vals] : s \in SUBSET Leaves}
  <2>1. Empty \in [{} -> Vals]
    BY DEF Empty
  <2> QED BY <2>1
<1>1. \A i \in Items : Path[i] = {} => Fault[i] \in {"non-existent", "invalid-address", "unsupported"}
  BY ModelAssumption
<1>2. ASSUME NEW v \in [Leaves -> Vals], NEW i \in Items PROVE ReadResult(v, i) \in Results
  <2>1. CASE Path[i] = {}
    BY <1>0, <1>1, <2>1 DEF ReadResult, Result, Results
  <2>2. CASE Path[i] # {}
    <3>1. Path[i] \in SUBSET Leaves
      BY ModelAssumption
    <3>2. [l \in Path[i] |-> v[l]] \in [Path[i] -> Vals]
      BY <3>1
    <3>3. [l \in Path[i] |-> v[l]] \in UNION {[s -> Vals] : s \in SUBSET Leaves}
      BY <3>1, <3>2
    <3> QED BY <2>2, <3>3 DEF ReadResult, Result, Results
  <2> QED BY <2>1, <2>2
<1>3. ASSUME NEW i \in Items, NEW d PROVE Result(WriteCode(i, d), Empty) \in Results
  <2>1. WriteCode(i, d) \in {"ok", "denied", "type-inconsistent", "non-existent", "invalid-address",
                             "unsupported"}
    BY <1>1 DEF WriteCode
  <2> QED BY <1>0, <2>1 DEF Result, Results
<1> QED BY <1>0, <1>2, <1>3 DEF Result, Results

LEMMA ReadNextStep ==
  ASSUME ServingInv, NEW a \in Assocs, ReadNext(a)
  PROVE  ServingInv' /\ UNCHANGED Store!vars
<1> USE DEF store, local, process
<1>0. NoList \notin Assocs /\ Typed /\ HandlerOk(a)
  BY ModelAssumption DEF ServingInv
<1> DEFINE n == Len(res[a]) + 1
<1>1. /\ UNCHANGED <<mu, pc, req, specs, resp, before, value, lists>>
      /\ pc[a] = "loop" /\ req[a].svc = "read" /\ specs[a] # NoList
      /\ Len(res[a]) < Len(specs[a])
      /\ res' = [res EXCEPT ![a] = Append(res[a], ReadResult(value, specs[a][n]))]
  BY DEF ReadNext, At
<1>2. mu = a /\ SoFar(a)
  BY <1>0, <1>1 DEF HandlerOk, ServingInv
<1>3. ReadSoFar(a) /\ before[1] \in [Leaves -> Vals]
  BY <1>1, <1>2 DEF SoFar
<1>4. specs[a] \in Seq(Items) /\ res[a] \in Seq(Results) /\ specs[a][n] \in Items
  BY <1>0, <1>1 DEF Typed
<1> DEFINE f == [i \in Nat |-> ReadResult(before[1], specs[a][i])]
           s == Append(res[a], f[n])
<1>5. Len(res[a]) \in Nat /\ n \in Nat
  BY <1>4
<1>6. f[n] \in Results
  BY <1>3, <1>4, <1>5, ResultTypes
<1>e. \A i \in Nat : f[i] = ReadResult(before[1], specs[a][i])
  OBVIOUS
<1>7. res[a] = [i \in 1 .. Len(res[a]) |-> f[i]]
  <2> HIDE DEF f
  <2> QED BY <1>3, <1>5, <1>e DEF ReadSoFar
<1>8. s \in Seq(Results) /\ Len(s) = n /\ s = [i \in 1 .. Len(s) |-> f[i]]
  <2> HIDE DEF f
  <2> QED BY <1>4, <1>6, <1>7, GrowsBy
<1>9. res' = [res EXCEPT ![a] = s] /\ res'[a] = s
  BY <1>0, <1>1, <1>3, <1>5 DEF ReadSoFar, SameValue, Typed
<1> HIDE DEF s, f
<1>10. s = [i \in 1 .. Len(s) |-> ReadResult(before[1], specs[a][i])]
  BY <1>5, <1>8, <1>e
<1>11. ReadSoFar(a)'
  BY <1>1, <1>3, <1>9, <1>10 DEF ReadSoFar, SameValue, SameLists, Start
<1>12. SoFar(a)'
  BY <1>1, <1>2, <1>11 DEF SoFar
<1> QED BY <1>0, <1>1, <1>8, <1>9, <1>12, LoopActs DEF Typed

(* A write of one more item is a write on top of the others.               *)
LEMMA WriteGrows ==
  ASSUME NEW v, NEW ms, NEW d, NEW m \in Nat
  PROVE  Written(v, ms, d, m + 1) =
           IF WriteCode(ms[m + 1], d[m + 1]) = "ok"
           THEN Stored(Written(v, ms, d, m), ms[m + 1], d[m + 1])
           ELSE Written(v, ms, d, m)
<1> DEFINE c == WriteCode(ms[m + 1], d[m + 1]) = "ok"
<1>1. ASSUME NEW l \in Leaves, c /\ l \in Path[ms[m + 1]]
      PROVE  Written(v, ms, d, m + 1)[l] = d[m + 1]
  <2>1. m + 1 \in Writes(ms, d, m + 1, l) /\ Writes(ms, d, m + 1, l) \in SUBSET (1 .. m + 1)
    BY <1>1 DEF Writes
  <2>2. Max(Writes(ms, d, m + 1, l)) = m + 1
    BY <2>1, MaxIsLast
  <2> QED BY <2>1, <2>2 DEF Written
<1>2. ASSUME NEW l \in Leaves, ~(c /\ l \in Path[ms[m + 1]])
      PROVE  Written(v, ms, d, m + 1)[l] = Written(v, ms, d, m)[l]
  <2>1. Writes(ms, d, m + 1, l) = Writes(ms, d, m, l)
    BY <1>2 DEF Writes
  <2> QED BY <2>1 DEF Written
<1>3. \A n : Written(v, ms, d, n) = [l \in Leaves |-> Written(v, ms, d, n)[l]]
  BY DEF Written
<1> HIDE DEF c
<1>4. CASE c
  <2>1. \A l \in Leaves : Written(v, ms, d, m + 1)[l] =
          IF l \in Path[ms[m + 1]] THEN d[m + 1] ELSE Written(v, ms, d, m)[l]
    BY <1>1, <1>2, <1>4
  <2> QED BY <1>3, <1>4, <2>1 DEF c, Stored
<1>5. CASE ~c
  <2>1. \A l \in Leaves : Written(v, ms, d, m + 1)[l] = Written(v, ms, d, m)[l]
    BY <1>2, <1>5
  <2>2. Written(v, ms, d, m + 1) = Written(v, ms, d, m)
    BY <1>3, <2>1
  <2> QED BY <1>5, <2>2 DEF c
<1> QED BY <1>4, <1>5

LEMMA writeOneStep ==
  ASSUME ServingInv, NEW a \in Assocs, writeOne(a)
  PROVE  ServingInv' /\ UNCHANGED Store!vars
<1> USE DEF store, local, process
<1>0. NoList \notin Assocs /\ Typed /\ HandlerOk(a)
  BY ModelAssumption DEF ServingInv
<1> DEFINE n == Len(res[a]) + 1
           ms == specs[a]
           d == req[a].data
           code == WriteCode(ms[n], d[n])
<1>1. /\ UNCHANGED <<mu, pc, req, specs, resp, before, lists>>
      /\ pc[a] = "loop" /\ req[a].svc = "write" /\ specs[a] # NoList
      /\ Len(ms) = Len(d) /\ n <= Len(ms)
      /\ res' = [res EXCEPT ![a] = Append(res[a], Result(code, Empty))]
      /\ value' = IF code = "ok" THEN Stored(value, ms[n], d[n]) ELSE value
  BY DEF writeOne, At
<1>2. mu = a /\ SoFar(a) /\ req[a] \in RequestType
  BY <1>0, <1>1 DEF HandlerOk, Busy, ServingInv
<1>3. WrittenSoFar(a) /\ before[1] \in [Leaves -> Vals]
  BY <1>1, <1>2 DEF SoFar
<1>4. /\ ms \in Seq(Items) /\ res[a] \in Seq(Results)
      /\ d \in Seq(Vals \cup {Wrong})
  BY <1>0, <1>1, <1>2 DEF Typed, RequestType
<1>5. Len(res[a]) \in Nat /\ n \in Nat /\ ms[n] \in Items /\ d[n] \in Vals \cup {Wrong}
  BY <1>1, <1>4
<1> DEFINE f == [i \in Nat |-> Result(WriteCode(ms[i], d[i]), Empty)]
           s == Append(res[a], f[n])
<1>e. \A i \in Nat : f[i] = Result(WriteCode(ms[i], d[i]), Empty)
  OBVIOUS
<1>6. f[n] \in Results
  BY <1>5, ResultTypes
<1>7. res[a] = [i \in 1 .. Len(res[a]) |-> f[i]]
  <2> HIDE DEF f
  <2> QED BY <1>3, <1>5, <1>e DEF WrittenSoFar
<1>8. s \in Seq(Results) /\ Len(s) = n /\ s = [i \in 1 .. Len(s) |-> f[i]]
  <2> HIDE DEF f
  <2> QED BY <1>4, <1>6, <1>7, GrowsBy
<1>9. res' = [res EXCEPT ![a] = s] /\ res'[a] = s
  BY <1>0, <1>1, <1>5 DEF Typed
<1> HIDE DEF s, f
<1>10. s = [i \in 1 .. Len(s) |-> Result(WriteCode(ms[i], d[i]), Empty)]
  BY <1>5, <1>8, <1>e
<1>11. value' \in [Leaves -> Vals]
  <2>1. code = "ok" => d[n] \in Vals
    <3>1. CASE d[n] = Wrong
      <4>1. code # "ok"
        <5>1. Path[ms[n]] = {} => Fault[ms[n]] \in {"non-existent", "invalid-address", "unsupported"}
          BY <1>5, ModelAssumption
        <5> QED BY <3>1, <5>1 DEF WriteCode
      <4> QED BY <4>1
    <3>2. CASE d[n] \in Vals
      BY <3>2
    <3> QED BY <1>5, <3>1, <3>2
  <2> HIDE DEF code
  <2> QED BY <1>0, <1>1, <2>1 DEF Typed, Stored
<1>12. value' = Written(before[1], ms, d, n)
  <2>1. value = Written(before[1], ms, d, Len(res[a]))
    BY <1>3 DEF WrittenSoFar
  <2>2. Written(before[1], ms, d, n) =
          IF code = "ok" THEN Stored(Written(before[1], ms, d, Len(res[a])), ms[n], d[n])
          ELSE Written(before[1], ms, d, Len(res[a]))
    BY <1>5, WriteGrows
  <2> QED BY <1>1, <2>1, <2>2
<1>13. WrittenSoFar(a)'
  <2> HIDE DEF code
  <2>1. specs'[a] = Start(a)' /\ SameLists(a)'
    BY <1>1, <1>3 DEF WrittenSoFar, SameLists, Start
  <2> QED BY <1>1, <1>8, <1>9, <1>10, <1>12, <2>1 DEF WrittenSoFar
<1>14. SoFar(a)'
  BY <1>1, <1>2, <1>13 DEF SoFar
<1> QED BY <1>0, <1>1, <1>8, <1>9, <1>11, <1>14, LoopActs DEF Typed

LEMMA DeleteNextStep ==
  ASSUME ServingInv, NEW a \in Assocs, DeleteNext(a)
  PROVE  ServingInv' /\ UNCHANGED Store!vars
<1> USE DEF store, local, process
<1>0. NoList \notin Assocs /\ Typed /\ HandlerOk(a)
  BY ModelAssumption DEF ServingInv
<1> DEFINE m == Len(res[a])
           n == m + 1
           k == Key(a, req[a].lists[n])
           found == Has(lists, k)
           x == Result(IF found THEN "ok" ELSE "non-existent", Empty)
           s == Append(res[a], x)
<1>1. /\ UNCHANGED <<mu, pc, req, specs, resp, before, value>>
      /\ pc[a] = "loop" /\ req[a].svc = "delete"
      /\ n <= Len(req[a].lists) /\ k[1] # "malformed"
      /\ res' = [res EXCEPT ![a] = s]
      /\ lists' = IF found THEN [lists EXCEPT ![k] = NoList] ELSE lists
  BY DEF DeleteNext, At
<1>2. mu = a /\ SoFar(a) /\ req[a] \in RequestType
  BY <1>0, <1>1 DEF HandlerOk, Busy, ServingInv
<1>3. DeletedSoFar(a) /\ before[2] \in [Keys -> Seq(Items) \cup {NoList}]
  BY <1>1, <1>2 DEF SoFar
<1>4. res[a] \in Seq(Results) /\ req[a].lists \in Seq(ListName)
  BY <1>0, <1>1, <1>2 DEF Typed, RequestType, ListName
<1>5. m \in Nat /\ n \in Nat /\ req[a].lists[n] \in ListName
  BY <1>1, <1>4
<1>6. req[a].lists[n][1] # "malformed" /\ (k \in Keys => k[1] \in MapsOf(a))
  BY <1>1, <1>5, KeyInMaps
<1>7. x \in Results
  BY ResultTypes
<1>8. /\ s \in Seq(Results) /\ Len(s) = n
      /\ \A i \in 1 .. m : s[i] = res[a][i]
      /\ s[n] = x
  BY <1>4, <1>7, AppendIs
<1>9. res'[a] = s /\ Len(res'[a]) = n /\ req' = req /\ before' = before
  BY <1>0, <1>1, <1>8 DEF Typed
<1>10. x.code = "ok" <=> found
  BY DEF Result
<1> HIDE DEF x, s, k, found
<1>11. lists' \in [Keys -> Seq(Items) \cup {NoList}]
  BY <1>0, <1>1 DEF Typed
<1>12. \A j \in Keys : j[1] \notin MapsOf(a) => lists'[j] = lists[j]
  BY <1>0, <1>1, <1>6 DEF Typed, found, Has
<1>a. \A i \in 1 .. n : req[a].lists[i][1] # "malformed"
  <2> TAKE i \in 1 .. n
  <2>1. i \in 1 .. m \/ i = n
    BY <1>5
  <2> QED BY <1>3, <1>6, <2>1 DEF DeletedSoFar
<1>v. SameValue'
  BY <1>1, <1>3 DEF DeletedSoFar, SameValue
<1> DEFINE G == Gone(a, before[2], req[a].lists, m)
           H == Gone(a, before[2], req[a].lists, n)
           D == Counted(res[a])
           E == Counted(s)
<1>13. /\ \A j \in Keys : j[1] \in MapsOf(a) => lists[j] = IF j \in G THEN NoList ELSE before[2][j]
       /\ IsFiniteSet(G) /\ IsFiniteSet(D) /\ Cardinality(G) = Cardinality(D)
  BY <1>3 DEF DeletedSoFar
<1>14. \A j \in Keys : j \in H <=> j \in G \/ (before[2][j] # NoList /\ j = k)
  BY <1>5 DEF Gone, k
<1>15. D \subseteq 1 .. m /\ E = D \cup (IF found THEN {n} ELSE {})
  BY <1>5, <1>8, <1>10 DEF Counted
<1>16. H \subseteq Keys /\ G \subseteq Keys
  BY DEF Gone
<1> HIDE DEF G, H, D, E
<1>17. ASSUME IsFiniteSet(H) /\ IsFiniteSet(E) /\ Cardinality(H) = Cardinality(E),
              \A j \in Keys : j[1] \in MapsOf(a) => lists'[j] = IF j \in H THEN NoList ELSE before[2][j]
       PROVE  ServingInv' /\ UNCHANGED Store!vars
  <2>1. DeletedSoFar(a)'
    BY <1>1, <1>9, <1>17, <1>a, <1>v DEF DeletedSoFar, H, E
  <2>2. SoFar(a)'
    BY <1>1, <1>2, <2>1 DEF SoFar
  <2> QED BY <1>0, <1>1, <1>8, <1>11, <1>12, <2>2, LoopActs DEF Typed
<1>18. CASE found
  <2>1. k \in Keys /\ lists[k] # NoList /\ before[2][k] # NoList /\ k \notin G
    BY <1>6, <1>13, <1>18 DEF found, Has
  <2>2. H = G \cup {k}
    BY <1>14, <1>16, <2>1
  <2>3. n \notin D /\ E = D \cup {n}
    BY <1>5, <1>15, <1>18
  <2>4. /\ IsFiniteSet(G \cup {k}) /\ Cardinality(G \cup {k}) = Cardinality(G) + 1
        /\ IsFiniteSet(D \cup {n}) /\ Cardinality(D \cup {n}) = Cardinality(D) + 1
    BY <1>13, <2>1, <2>3, FS_AddElement
  <2>5. \A j \in Keys : j[1] \in MapsOf(a) => lists'[j] = IF j \in H THEN NoList ELSE before[2][j]
    BY <1>0, <1>1, <1>13, <1>18, <2>1, <2>2 DEF Typed
  <2> QED BY <1>13, <1>17, <2>2, <2>3, <2>4, <2>5
<1>19. CASE ~found
  <2>1. k \in Keys => before[2][k] = NoList \/ k \in G
    BY <1>6, <1>13, <1>19 DEF found, Has
  <2>2. H = G /\ E = D
    BY <1>14, <1>15, <1>16, <1>19, <2>1
  <2> QED BY <1>1, <1>13, <1>17, <1>19, <2>2
<1> QED BY <1>18, <1>19

(* The mutex is given back, and the store shows what was done.             *)
LEMMA AnswerActs ==
  ASSUME ServingInv, NEW a \in Assocs, pc[a] \in {"loop", "report"}, NEW x, Answer(a, x),
         value' \in [Leaves -> Vals], lists' \in [Keys -> Seq(Items) \cup {NoList}],
         \A k \in Keys : k[1] \notin MapsOf(a) => lists'[k] = lists[k]
  PROVE  /\ ServingInv'
         /\ SeenValue' = value' /\ SeenLists' = lists'
         /\ req[a] # NoList /\ resp[a] = Store!Nothing
         /\ Store!Say(a, x)
<1>0. NoList \notin Assocs /\ NoList \notin RequestType /\ Typed /\ HandlerOk(a)
  BY ModelAssumption DEF ServingInv
<1>1. mu = a /\ req[a] \in RequestType /\ resp[a] = Nothing
  BY <1>0 DEF HandlerOk, Busy
<1>2. /\ mu' = NoList /\ UNCHANGED req
      /\ pc' = [pc EXCEPT ![a] = "answered"]
      /\ resp' = [resp EXCEPT ![a] = x]
      /\ specs' = [specs EXCEPT ![a] = << >>]
      /\ res' = [res EXCEPT ![a] = << >>]
  BY DEF Answer
<1>3. Typed'
  <2>1. << >> \in Seq(Items) /\ << >> \in Seq(Results)
    OBVIOUS
  <2>2. specs' \in [Assocs -> Seq(Items) \cup {NoList}] /\ res' \in [Assocs -> Seq(Results)]
    BY <1>0, <1>2, <2>1 DEF Typed
  <2>3. /\ pc' \in [Assocs -> {"off", "idle", "wait", "loop", "report", "answered"}]
        /\ resp' = [b \in Assocs |-> resp'[b]]
    BY <1>0, <1>2 DEF Typed
  <2> QED BY <1>0, <1>2, <2>2, <2>3 DEF Typed
<1>4. HandlerOk(a)' /\ mu' # a
  BY <1>0, <1>2 DEF Typed, HandlerOk, Busy
<1>5. ServingInv'
  BY <1>0, <1>1, <1>2, <1>3, <1>4, OneActs DEF Typed
<1>6. SeenValue' = value' /\ SeenLists' = lists'
  BY <1>2 DEF SeenValue, SeenLists
<1>7. Store!Say(a, x)
  BY <1>2 DEF Store!Say
<1> QED BY <1>0, <1>1, <1>5, <1>6, <1>7, SameAnswers

(* What the store shows while a works, and the items a is about.           *)
LEMMA WorkSeen ==
  ASSUME ServingInv, NEW a \in Assocs, pc[a] \in {"loop", "report"}
  PROVE  /\ mu = a /\ SoFar(a) /\ req[a] \in RequestType /\ NoList \notin Assocs
         /\ SeenValue = before[1]
         /\ SeenLists = [k \in Keys |-> IF k[1] \in MapsOf(a) THEN before[2][k] ELSE lists[k]]
         /\ Store!Members(a) = Start(a)
<1>0. NoList \notin Assocs /\ Typed /\ HandlerOk(a)
  BY ModelAssumption DEF ServingInv
<1>1. mu = a /\ SoFar(a) /\ req[a] \in RequestType
  BY <1>0 DEF HandlerOk, Busy, ServingInv
<1>2. SeenValue = before[1]
  BY <1>0, <1>1 DEF SeenValue
<1>3. SeenLists = [k \in Keys |-> IF k[1] \in MapsOf(a) THEN before[2][k] ELSE lists[k]]
  BY <1>0, <1>1 DEF SeenLists, MapsOf
<1>4. req[a].list \in ListName
  BY <1>1 DEF RequestType, ListName
<1>5. Key(a, req[a].list) \in Keys => Key(a, req[a].list)[1] \in MapsOf(a)
  BY <1>4, KeyInMaps
<1>6. Key(a, req[a].list) \in Keys => SeenLists[Key(a, req[a].list)] = before[2][Key(a, req[a].list)]
  BY <1>3, <1>5
<1>7. Store!Members(a) = Start(a)
  BY <1>6, SameModel DEF Store!Members, Start, Has
<1> QED BY <1>0, <1>1, <1>2, <1>3, <1>7

(* The store is as before when the model is.                               *)
LEMMA SameSeen ==
  ASSUME ServingInv, NEW a \in Assocs, pc[a] \in {"loop", "report"}, SameLists(a)
  PROVE  SeenLists = lists /\ (SameValue => SeenValue = value)
<1>1. /\ SeenValue = before[1] /\ Typed
      /\ SeenLists = [k \in Keys |-> IF k[1] \in MapsOf(a) THEN before[2][k] ELSE lists[k]]
  BY WorkSeen DEF ServingInv
<1> QED BY <1>1 DEF SameLists, SameValue, Typed

LEMMA ReadDoneStep ==
  ASSUME ServingInv, NEW a \in Assocs, ReadDone(a)
  PROVE  ServingInv' /\ Store!Next
<1> DEFINE x == IF specs[a] = NoList THEN Error("non-existent")
                ELSE [Success EXCEPT !.results = res[a]]
<1>1. /\ pc[a] = "loop" /\ req[a].svc = "read"
      /\ Answer(a, x) /\ UNCHANGED <<value, lists>>
      /\ specs[a] # NoList => Len(res[a]) = Len(specs[a])
  BY DEF ReadDone, At, store
<1>2. ReadSoFar(a) /\ Typed /\ Store!Members(a) = Start(a)
  BY <1>1, WorkSeen DEF SoFar, ServingInv
<1>3. SeenLists = lists /\ SeenValue = value /\ SeenValue = before[1]
  BY <1>1, <1>2, SameSeen, WorkSeen DEF ReadSoFar
<1>4. /\ ServingInv'
      /\ SeenValue' = value' /\ SeenLists' = lists'
      /\ req[a] # NoList /\ resp[a] = Store!Nothing
      /\ Store!Say(a, x)
  <2> HIDE DEF x
  <2> QED BY <1>1, <1>2, AnswerActs DEF Typed
<1>5. specs[a] = Store!Members(a)
  BY <1>2 DEF ReadSoFar
<1> DEFINE ms == Store!Members(a)
<1>6. ms # NoList => res[a] = [i \in 1 .. Len(ms) |-> Store!ReadResult(SeenValue, ms[i])]
  <2>1. \A v, i : Store!ReadResult(v, i) = ReadResult(v, i)
    BY SameModel
  <2> HIDE DEF ms
  <2> QED BY <1>1, <1>2, <1>3, <1>5, <2>1 DEF ReadSoFar, ms
<1>7. x = IF ms = NoList THEN Store!Error("non-existent")
          ELSE [Store!Success EXCEPT !.results =
                  [i \in 1 .. Len(ms) |-> Store!ReadResult(SeenValue, ms[i])]]
  BY <1>5, <1>6, SameAnswers
<1>8. Store!Read(a)
  <2> HIDE DEF x
  <2> QED BY <1>1, <1>3, <1>4, <1>7 DEF Store!Read, Store!Waiting
<1> QED BY <1>4, <1>8 DEF Store!Next

LEMMA WriteRefusedStep ==
  ASSUME ServingInv, NEW a \in Assocs, WriteRefused(a)
  PROVE  ServingInv' /\ Store!Next
<1>1. /\ pc[a] = "loop" /\ req[a].svc = "write" /\ UNCHANGED <<value, lists>>
      /\ \/ specs[a] = NoList /\ Answer(a, Error("non-existent"))
         \/ /\ specs[a] # NoList /\ Len(specs[a]) # Len(req[a].data)
            /\ Answer(a, Error("invalid"))
  BY DEF WriteRefused, At, store
<1>2. /\ WrittenSoFar(a) /\ Typed /\ specs[a] = Store!Members(a)
      /\ before[1] \in [Leaves -> Vals]
  BY <1>1, WorkSeen DEF SoFar, WrittenSoFar, ServingInv
<1>3. SameValue
  <2>1. res[a] = << >> /\ Len(res[a]) = 0
    BY <1>1, <1>2 DEF WrittenSoFar
  <2>2. \A l \in Leaves : Writes(specs[a], req[a].data, 0, l) = {}
    BY DEF Writes
  <2>3. value = Written(before[1], specs[a], req[a].data, 0)
    BY <1>2, <2>1 DEF WrittenSoFar
  <2> QED BY <1>2, <2>2, <2>3 DEF Written, SameValue
<1>4. SeenLists = lists /\ SeenValue = value
  BY <1>1, <1>2, <1>3, SameSeen DEF WrittenSoFar
<1>5. PICK x \in {Error("non-existent"), Error("invalid")} :
        /\ Answer(a, x)
        /\ \/ specs[a] = NoList /\ x = Error("non-existent")
           \/ specs[a] # NoList /\ Len(specs[a]) # Len(req[a].data) /\ x = Error("invalid")
  BY <1>1
<1>6. /\ ServingInv'
      /\ SeenValue' = value' /\ SeenLists' = lists'
      /\ req[a] # NoList /\ resp[a] = Store!Nothing
      /\ Store!Say(a, x)
  BY <1>1, <1>2, <1>5, AnswerActs DEF Typed
<1>7. Store!WriteRefused(a)
  <2>1. \/ specs[a] = NoList /\ x = Store!Error("non-existent")
        \/ specs[a] # NoList /\ Len(specs[a]) # Len(req[a].data) /\ x = Store!Error("invalid")
    BY <1>5, SameAnswers
  <2> QED BY <1>1, <1>2, <1>4, <1>6, <2>1 DEF Store!WriteRefused, Store!Waiting
<1> QED BY <1>6, <1>7 DEF Store!Next

(* Some item of a write fires the reports.                                 *)
Fired(ms, d) == \E i \in 1 .. Len(ms) : WriteCode(ms[i], d[i]) = "ok" /\ ms[i] \in Triggers

(* A step of the store that writes ms.                                     *)
LEMMA StoreWrite ==
  ASSUME NEW a \in Assocs, NEW ms, ms = Store!Members(a), NEW d, d = req[a].data,
         Store!Waiting(a, "write"), ms # NoList, Len(ms) = Len(d),
         SeenValue' = Written(SeenValue, ms, d, Len(ms)), SeenLists' = SeenLists,
         Store!Say(a, [Success EXCEPT
                         !.results = [i \in 1 .. Len(ms) |-> Result(WriteCode(ms[i], d[i]), Empty)],
                         !.reports = IF Fired(ms, d) THEN ReportResults(SeenValue') ELSE << >>])
  PROVE  Store!Write(a)
<1> DEFINE codes == [i \in 1 .. Len(ms) |-> Store!WriteCode(ms[i], d[i])]
           writes(l) == {i \in 1 .. Len(ms) : codes[i] = "ok" /\ l \in Path[ms[i]]}
           new == [l \in Leaves |-> IF writes(l) = {} THEN SeenValue[l] ELSE d[Store!Max(writes(l))]]
           fired == \E i \in 1 .. Len(ms) : codes[i] = "ok" /\ ms[i] \in Triggers
<1>1. \A i \in 1 .. Len(ms) : codes[i] = WriteCode(ms[i], d[i])
  BY SameModel
<1>2. \A l : writes(l) = Writes(ms, d, Len(ms), l)
  <2> HIDE DEF codes
  <2> QED BY <1>1 DEF Writes
<1>3. new = SeenValue'
  <2> HIDE DEF codes, writes
  <2> QED BY <1>2, SameAnswers DEF Written
<1>4. fired <=> Fired(ms, d)
  <2> HIDE DEF codes
  <2> QED BY <1>1 DEF Fired
<1>5. [i \in 1 .. Len(ms) |-> Store!Result(codes[i], Store!Empty)]
        = [i \in 1 .. Len(ms) |-> Result(WriteCode(ms[i], d[i]), Empty)]
  <2> HIDE DEF codes
  <2> QED BY <1>1, SameModel
<1>6. Store!ReportResults(new) = ReportResults(SeenValue')
  BY <1>3, SameModel
<1>7. Store!Say(a, [Store!Success EXCEPT
                      !.results = [i \in 1 .. Len(ms) |-> Store!Result(codes[i], Store!Empty)],
                      !.reports = IF fired THEN Store!ReportResults(new) ELSE << >>])
  <2> HIDE DEF codes, writes, new, fired
  <2> QED BY <1>4, <1>5, <1>6, SameAnswers
<1> QED BY <1>3, <1>7 DEF Store!Write

(* The end of a write that fires no reports, and of one that does.         *)
LEMMA WriteAnswered ==
  ASSUME ServingInv, NEW a \in Assocs, pc[a] \in {"loop", "report"},
         req[a].svc = "write", specs[a] # NoList, Len(specs[a]) = Len(req[a].data),
         Len(res[a]) = Len(specs[a]), UNCHANGED <<value, lists>>,
         Answer(a, [Success EXCEPT !.results = res[a],
                                   !.reports = IF Trigger(a) THEN ReportResults(value) ELSE << >>])
  PROVE  ServingInv' /\ Store!Next
<1> DEFINE ms == specs[a]
           d == req[a].data
           x == [Success EXCEPT !.results = res[a],
                                !.reports = IF Trigger(a) THEN ReportResults(value) ELSE << >>]
<1>2. WrittenSoFar(a) /\ Typed /\ ms = Store!Members(a) /\ SeenValue = before[1]
  BY WorkSeen DEF SoFar, WrittenSoFar, ServingInv
<1>3. SeenLists = lists
  BY <1>2, SameSeen DEF WrittenSoFar
<1>4. /\ ServingInv'
      /\ SeenValue' = value' /\ SeenLists' = lists'
      /\ req[a] # NoList /\ resp[a] = Store!Nothing
      /\ Store!Say(a, x)
  <2> HIDE DEF x
  <2>1. Answer(a, x)
    BY DEF x
  <2> QED BY <1>2, <2>1, AnswerActs DEF Typed
<1>5. Store!Waiting(a, "write")
  BY <1>4 DEF Store!Waiting
<1>6. SeenValue' = Written(SeenValue, ms, d, Len(ms))
  BY <1>2, <1>4 DEF WrittenSoFar
<1>7. res[a] = [i \in 1 .. Len(ms) |-> Result(WriteCode(ms[i], d[i]), Empty)]
  BY <1>2 DEF WrittenSoFar
<1>8. Trigger(a) <=> Fired(ms, d)
  <2>1. \A i \in 1 .. Len(ms) : res[a][i].code = WriteCode(ms[i], d[i])
    BY <1>7 DEF Result
  <2> QED BY <2>1 DEF Trigger, Fired
<1>9. Store!Say(a, [Success EXCEPT
                      !.results = [i \in 1 .. Len(ms) |-> Result(WriteCode(ms[i], d[i]), Empty)],
                      !.reports = IF Fired(ms, d) THEN ReportResults(SeenValue') ELSE << >>])
  BY <1>4, <1>7, <1>8
<1>10. Store!Write(a)
  <2> HIDE DEF ms, d
  <2>1. ms # NoList /\ Len(ms) = Len(d) /\ d = req[a].data
    BY DEF ms, d
  <2> QED BY <1>2, <1>3, <1>4, <1>5, <1>6, <1>9, <2>1, StoreWrite
<1> QED BY <1>4, <1>10 DEF Store!Next

(* An answer that says nothing of reports has none.                        *)
LEMMA NoReports ==
  ASSUME NEW r
  PROVE  [Success EXCEPT !.results = r] = [Success EXCEPT !.results = r, !.reports = << >>]
<1> DEFINE f == [Success EXCEPT !.results = r]
<1>1. f.reports = << >>
  BY DEF Success, Error, Nothing
<1>2. f = [x \in DOMAIN f |-> f[x]] /\ "reports" \in DOMAIN f
  BY DEF Success, Error, Nothing
<1> HIDE DEF f
<1>3. [f EXCEPT !.reports = << >>] = f
  BY <1>1, <1>2
<1> QED BY <1>3 DEF f

LEMMA WriteDoneStep ==
  ASSUME ServingInv, NEW a \in Assocs, WriteDone(a)
  PROVE  ServingInv' /\ (Store!Next \/ UNCHANGED Store!vars)
<1>1. /\ pc[a] = "loop" /\ req[a].svc = "write" /\ specs[a] # NoList
      /\ Len(specs[a]) = Len(req[a].data) /\ Len(res[a]) = Len(specs[a])
      /\ UNCHANGED <<value, lists>>
  BY DEF WriteDone, At, store
<1>2. CASE ~Trigger(a)
  <2>1. Answer(a, [Success EXCEPT !.results = res[a]])
    BY <1>2 DEF WriteDone
  <2>2. [Success EXCEPT !.results = res[a]]
          = [Success EXCEPT !.results = res[a],
                            !.reports = IF Trigger(a) THEN ReportResults(value) ELSE << >>]
    BY <1>2, NoReports
  <2> QED BY <1>1, <2>1, <2>2, WriteAnswered
<1>3. CASE Trigger(a)
  <2>1. /\ pc' = [pc EXCEPT ![a] = "report"]
        /\ UNCHANGED <<mu, req, specs, res, resp, before>>
    BY <1>3 DEF WriteDone, local
  <2>2. /\ Typed /\ HandlerOk(a) /\ SoFar(a) /\ mu = a
    BY <1>1, WorkSeen DEF ServingInv
  <2>3. Typed'
    BY <1>1, <2>1, <2>2 DEF Typed
  <2>4. HandlerOk(a)'
    BY <1>1, <2>1, <2>2 DEF Typed, HandlerOk, Busy
  <2>5. SoFar(a)'
    <3>1. WrittenSoFar(a)'
      BY <1>1, <2>1, <2>2 DEF SoFar, WrittenSoFar, SameLists, Start
    <3>2. Reporting(a)'
      BY <1>1, <1>3, <2>1 DEF Reporting, Trigger
    <3> QED BY <1>1, <2>1, <2>2, <3>1, <3>2 DEF SoFar
  <2>6. ServingInv'
    BY <1>1, <2>1, <2>2, <2>3, <2>4, <2>5, OneActs DEF Typed
  <2>7. SeenValue' = SeenValue /\ SeenLists' = SeenLists
    BY <1>1, <2>1, SeenSame
  <2> QED BY <2>1, <2>6, <2>7 DEF Store!vars
<1> QED BY <1>2, <1>3

LEMMA sendReportsStep ==
  ASSUME ServingInv, NEW a \in Assocs, sendReports(a)
  PROVE  ServingInv' /\ Store!Next
<1>1. /\ pc[a] = "report" /\ UNCHANGED <<value, lists>>
      /\ Answer(a, [Success EXCEPT !.results = res[a], !.reports = ReportResults(value)])
  BY DEF sendReports, store
<1>2. Reporting(a)
  BY <1>1, WorkSeen DEF SoFar
<1>3. Answer(a, [Success EXCEPT !.results = res[a],
                                !.reports = IF Trigger(a) THEN ReportResults(value) ELSE << >>])
  BY <1>1, <1>2 DEF Reporting
<1> QED BY <1>1, <1>2, <1>3, WriteAnswered DEF Reporting

(* The services that change nothing.                                       *)
LEMMA LookupActs ==
  ASSUME ServingInv, NEW a \in Assocs, pc[a] = "loop",
         req[a].svc \in {"attributes", "members", "define", "names"}, NEW x, Answer(a, x)
  PROVE  /\ Store!Say(a, x) /\ req[a] # NoList /\ resp[a] = Store!Nothing
         /\ SeenValue = value /\ SeenLists = lists /\ Typed /\ req[a].list \in ListName
         /\ UNCHANGED <<value, lists>> =>
              ServingInv' /\ SeenValue' = SeenValue /\ SeenLists' = SeenLists
<1>0. Typed
  BY DEF ServingInv
<1>1. SameValue /\ SameLists(a) /\ req[a] \in RequestType
  BY WorkSeen DEF SoFar
<1>2. SeenValue = value /\ SeenLists = lists
  BY <1>1, SameSeen
<1>3. req[a].list \in ListName
  BY <1>1 DEF RequestType, ListName
<1>4. NoList \notin RequestType /\ HandlerOk(a)
  BY ModelAssumption DEF ServingInv
<1>5. req[a] # NoList /\ resp[a] = Store!Nothing /\ Store!Say(a, x)
  BY <1>1, <1>4, SameAnswers DEF HandlerOk, Busy, Answer, Store!Say
<1>6. ASSUME UNCHANGED <<value, lists>>
      PROVE  ServingInv' /\ SeenValue' = SeenValue /\ SeenLists' = SeenLists
  <2>1. ServingInv' /\ SeenValue' = value' /\ SeenLists' = lists'
    BY <1>0, <1>6, AnswerActs DEF Typed
  <2> QED BY <1>2, <1>6, <2>1
<1> QED BY <1>0, <1>2, <1>3, <1>5, <1>6

LEMMA AttributesDoneStep ==
  ASSUME ServingInv, NEW a \in Assocs, AttributesDone(a)
  PROVE  ServingInv' /\ Store!Next
<1> DEFINE x == IF Path[req[a].items[1]] = {} THEN Error("non-existent") ELSE Success
<1>1. /\ pc[a] = "loop" /\ req[a].svc = "attributes" /\ Answer(a, x)
      /\ UNCHANGED <<value, lists>>
  BY DEF AttributesDone, At, store
<1>2. x = IF Path[req[a].items[1]] = {} THEN Store!Error("non-existent") ELSE Store!Success
  BY SameAnswers
<1> HIDE DEF x
<1>3. /\ Store!Say(a, x) /\ req[a] # NoList /\ resp[a] = Store!Nothing
      /\ ServingInv' /\ SeenValue' = SeenValue /\ SeenLists' = SeenLists
  BY <1>1, LookupActs
<1>4. Store!Attributes(a)
  BY <1>1, <1>2, <1>3 DEF Store!Attributes, Store!Waiting
<1> QED BY <1>3, <1>4 DEF Store!Next

LEMMA MembersDoneStep ==
  ASSUME ServingInv, NEW a \in Assocs, MembersDone(a)
  PROVE  ServingInv' /\ Store!Next
<1> DEFINE k == Key(a, req[a].list)
           x == IF Has(lists, k) THEN [Success EXCEPT !.items = lists[k]] ELSE Error("non-existent")
<1>1. /\ pc[a] = "loop" /\ req[a].svc = "members" /\ Answer(a, x)
      /\ UNCHANGED <<value, lists>>
  BY DEF MembersDone, At, store
<1>2. /\ Store!Say(a, x) /\ req[a] # NoList /\ resp[a] = Store!Nothing
      /\ SeenLists = lists
      /\ ServingInv' /\ SeenValue' = SeenValue /\ SeenLists' = SeenLists
  <2> HIDE DEF x
  <2> QED BY <1>1, LookupActs
<1>3. x = IF Store!Has(SeenLists, Store!Key(a, req[a].list))
          THEN [Store!Success EXCEPT !.items = SeenLists[Store!Key(a, req[a].list)]]
          ELSE Store!Error("non-existent")
  BY <1>2, SameModel, SameAnswers
<1> HIDE DEF x
<1>4. Store!MembersOf(a)
  BY <1>1, <1>2, <1>3 DEF Store!MembersOf, Store!Waiting
<1> QED BY <1>2, <1>4 DEF Store!Next

LEMMA NamesDoneStep ==
  ASSUME ServingInv, NEW a \in Assocs, NamesDone(a)
  PROVE  ServingInv' /\ Store!Next
<1> DEFINE k == Key(a, req[a].list)
           x == IF k \in Keys THEN Page(ListNames(lists, k[1]), req[a].after)
                ELSE Error("non-existent")
<1>1. /\ pc[a] = "loop" /\ req[a].svc = "names" /\ Answer(a, x)
      /\ UNCHANGED <<value, lists>>
  BY DEF NamesDone, At, store
<1>2. /\ Store!Say(a, x) /\ req[a] # NoList /\ resp[a] = Store!Nothing
      /\ SeenLists = lists
      /\ ServingInv' /\ SeenValue' = SeenValue /\ SeenLists' = SeenLists
  <2> HIDE DEF x
  <2> QED BY <1>1, LookupActs
<1>3. x = IF Store!Key(a, req[a].list) \in Store!Keys
          THEN Store!Page(Store!ListNames(SeenLists, Store!Key(a, req[a].list)[1]), req[a].after)
          ELSE Store!Error("non-existent")
  BY <1>2, SameModel, SameAnswers
<1> HIDE DEF x
<1>4. Store!ListPage(a)
  BY <1>1, <1>2, <1>3 DEF Store!ListPage, Store!Waiting
<1> QED BY <1>2, <1>4 DEF Store!Next

(* The errors a definition may be refused with.                            *)
DefineErrors(a) ==
  (IF Key(a, req[a].list) \in Keys THEN {} ELSE {"non-existent"})
    \cup (IF Has(lists, Key(a, req[a].list)) THEN {"exists"} ELSE {})
    \cup (IF BadMember(a) THEN {"undefined"} ELSE {})

(* Either program finds one of them if there is one.                       *)
LEMMA ErrorFound ==
  ASSUME NEW a, NEW error \in {GoDefineError(a), RsDefineError(a)}
  PROVE  IF DefineErrors(a) = {} THEN error = "none" ELSE error \in DefineErrors(a)
BY DEF GoDefineError, RsDefineError, DefineErrors, Has

LEMMA DefinedStep ==
  ASSUME ServingInv, NEW a \in Assocs, At(a, "loop", "define"),
         NEW error \in {GoDefineError(a), RsDefineError(a)}, Defined(a, error)
  PROVE  ServingInv' /\ Store!Next
<1> DEFINE k == Key(a, req[a].list)
           ms == req[a].items
           x == IF error = "none" THEN Success ELSE Error(error)
<1>1. /\ pc[a] = "loop" /\ req[a].svc = "define" /\ Answer(a, x) /\ UNCHANGED value
      /\ lists' = IF error = "none" THEN [lists EXCEPT ![k] = ms] ELSE lists
  BY DEF At, Defined
<1>2. /\ Store!Say(a, x) /\ req[a] # NoList /\ resp[a] = Store!Nothing
      /\ SeenValue = value /\ SeenLists = lists /\ Typed /\ req[a].list \in ListName
  <2> HIDE DEF x
  <2> QED BY <1>1, LookupActs
<1>3. IF DefineErrors(a) = {} THEN error = "none" ELSE error \in DefineErrors(a) /\ error # "none"
  BY ErrorFound DEF DefineErrors
<1>4. ms \in Seq(Items)
  BY <1>1, WorkSeen DEF RequestType
<1>5. error = "none" => k \in Keys /\ k[1] \in MapsOf(a)
  BY <1>2, <1>3, KeyInMaps DEF DefineErrors
<1>6. lists' \in [Keys -> Seq(Items) \cup {NoList}]
  BY <1>1, <1>2, <1>4 DEF Typed
<1>7. \A j \in Keys : j[1] \notin MapsOf(a) => lists'[j] = lists[j]
  BY <1>1, <1>2, <1>5 DEF Typed
<1>8. ServingInv' /\ SeenValue' = value' /\ SeenLists' = lists'
  <2> HIDE DEF x
  <2>1. value' \in [Leaves -> Vals]
    BY <1>1, <1>2 DEF Typed
  <2> QED BY <1>1, <1>6, <1>7, <2>1, AnswerActs
<1> DEFINE errors == (IF Store!Key(a, req[a].list) \in Store!Keys THEN {} ELSE {"non-existent"})
                       \cup (IF Store!Has(SeenLists, Store!Key(a, req[a].list)) THEN {"exists"} ELSE {})
                       \cup (IF \E i \in 1 .. Len(ms) : Path[ms[i]] = {} THEN {"undefined"} ELSE {})
<1>9. errors = DefineErrors(a)
  BY <1>2, SameModel DEF DefineErrors, BadMember
<1>10. IF errors = {} THEN Store!Say(a, Store!Success)
                             /\ SeenLists' = [SeenLists EXCEPT ![Store!Key(a, req[a].list)] = ms]
       ELSE (\E e \in errors : Store!Say(a, Store!Error(e))) /\ SeenLists' = SeenLists
  <2>1. CASE errors = {}
    <3>1. x = Store!Success /\ error = "none"
      BY <1>3, <1>9, <2>1, SameAnswers
    <3> HIDE DEF errors, x
    <3> QED BY <1>1, <1>2, <1>8, <2>1, <3>1, SameModel
  <2>2. CASE errors # {}
    <3>1. x = Store!Error(error) /\ error \in errors /\ error # "none"
      BY <1>3, <1>9, <2>2, SameAnswers
    <3> HIDE DEF errors, x
    <3> QED BY <1>1, <1>2, <1>8, <2>2, <3>1
  <2> QED BY <2>1, <2>2
<1>11. Store!Define(a)
  <2>1. SeenValue' = SeenValue /\ Store!Waiting(a, "define")
    BY <1>1, <1>2, <1>8 DEF Store!Waiting
  <2> QED BY <1>10, <2>1 DEF Store!Define
<1> QED BY <1>8, <1>11 DEF Store!Next

(* The first of the names that cannot be decoded.                          *)
LEMMA MinIsFirst ==
  ASSUME NEW n \in Nat, NEW W \in SUBSET Nat, n \in W, \A i \in W : i >= n
  PROVE  Min(W) = n
<1>1. \E x \in W : \A y \in W : x =< y
  OBVIOUS
<1>2. Min(W) \in W /\ \A y \in W : Min(W) =< y
  BY <1>1, Zenon DEF Min
<1>3. Min(W) \in Nat /\ Min(W) =< n /\ Min(W) >= n
  BY <1>2
<1> QED BY <1>3

(* The end of a delete, also of one that is refused half-way.              *)
LEMMA DeleteAnswered ==
  ASSUME ServingInv, NEW a \in Assocs, pc[a] = "loop", req[a].svc = "delete",
         UNCHANGED <<value, lists>>, NEW x, Answer(a, x),
         \/ /\ Len(res[a]) = Len(req[a].lists)
            /\ x = [Success EXCEPT !.count = Cardinality(Counted(res[a]))]
         \/ /\ Len(res[a]) < Len(req[a].lists)
            /\ req[a].lists[Len(res[a]) + 1][1] = "malformed"
            /\ x = Error("invalid")
  PROVE  ServingInv' /\ Store!Next
<1> DEFINE named == req[a].lists
           n == Len(res[a])
           bad == {i \in 1 .. Len(named) : named[i][1] = "malformed"}
           parsed == 1 .. IF bad = {} THEN Len(named) ELSE Store!Min(bad) - 1
           gone == {k \in Store!Keys : SeenLists[k] # NoList
                                         /\ \E i \in parsed : Store!Key(a, named[i]) = k}
           G == Gone(a, before[2], named, n)
<1>1. /\ Typed /\ DeletedSoFar(a) /\ req[a] \in RequestType /\ SeenValue = before[1]
      /\ SeenLists = [k \in Keys |-> IF k[1] \in MapsOf(a) THEN before[2][k] ELSE lists[k]]
  BY WorkSeen DEF SoFar, ServingInv
<1>2. named \in Seq(ListName) /\ res[a] \in Seq(Results)
  BY <1>1 DEF RequestType, ListName, Typed
<1>3. n \in Nat /\ Len(named) \in Nat
  BY <1>2
<1>4. /\ ServingInv'
      /\ SeenValue' = value' /\ SeenLists' = lists'
      /\ req[a] # NoList /\ resp[a] = Store!Nothing
      /\ Store!Say(a, x)
  BY <1>1, AnswerActs DEF Typed
<1>5. \A i \in 1 .. n : named[i][1] # "malformed"
  BY <1>1 DEF DeletedSoFar
<1>6. /\ n = Len(named) => bad = {}
      /\ n # Len(named) => bad # {} /\ Min(bad) = n + 1
  <2>1. n = Len(named) => bad = {}
    BY <1>5
  <2>2. ASSUME n # Len(named) PROVE bad # {} /\ Min(bad) = n + 1
    <3>1. n < Len(named) /\ named[n + 1][1] = "malformed"
      BY <2>2
    <3>2. n + 1 \in bad /\ bad \in SUBSET Nat
      BY <1>3, <3>1
    <3>3. \A i \in bad : i >= n + 1
      BY <1>3, <1>5
    <3> HIDE DEF bad
    <3> QED BY <1>3, <3>2, <3>3, MinIsFirst
  <2> QED BY <2>1, <2>2
<1>7. parsed = 1 .. n
  <2> HIDE DEF bad
  <2> QED BY <1>3, <1>6, SameAnswers
<1>8. gone = G
  <2>1. \A i \in 1 .. n : named[i] \in ListName
    BY <1>1, <1>2, <1>3 DEF DeletedSoFar
  <2>2. ASSUME NEW k \in Keys, NEW i \in 1 .. n, Key(a, named[i]) = k
        PROVE  SeenLists[k] = before[2][k]
    BY <1>1, <2>1, <2>2, KeyInMaps
  <2> HIDE DEF parsed, named
  <2> QED BY <1>7, <2>2, SameModel DEF Gone
<1> HIDE DEF gone, G, bad, parsed
<1>9. lists' = [k \in Store!Keys |-> IF k \in gone THEN NoList ELSE SeenLists[k]]
  <2>1. G \subseteq {k \in Keys : k[1] \in MapsOf(a)}
    <3>1. \A i \in 1 .. n : named[i] \in ListName
      BY <1>1, <1>2, <1>3 DEF DeletedSoFar
    <3> HIDE DEF named
    <3> QED BY <3>1, KeyInMaps DEF Gone, G
  <2>2. \A k \in Keys : k[1] \in MapsOf(a) => lists[k] = IF k \in G THEN NoList ELSE before[2][k]
    BY <1>1 DEF DeletedSoFar, G
  <2>3. \A k \in Keys : lists[k] = IF k \in G THEN NoList ELSE SeenLists[k]
    BY <1>1, <2>1, <2>2
  <2>4. lists' = [k \in Keys |-> lists[k]]
    BY <1>1 DEF Typed
  <2> QED BY <1>8, <2>3, <2>4, SameModel
<1>10. x = IF bad = {} THEN [Store!Success EXCEPT !.count = Store!Cardinality(gone)]
           ELSE Store!Error("invalid")
  <2>1. Cardinality(G) = Cardinality(Counted(res[a]))
    BY <1>1 DEF DeletedSoFar, G
  <2>2. CASE n = Len(named)
    <3>1. x = [Success EXCEPT !.count = Cardinality(Counted(res[a]))]
      BY <1>3, <2>2
    <3> QED BY <1>6, <1>8, <2>1, <2>2, <3>1, SameAnswers
  <2>3. CASE n # Len(named)
    BY <1>6, <2>3, SameAnswers
  <2> QED BY <2>2, <2>3
<1>11. Store!Delete(a)
  <2>1. Store!Waiting(a, "delete")
    BY <1>4 DEF Store!Waiting
  <2>2. SeenValue' = SeenValue
    BY <1>1, <1>4 DEF DeletedSoFar, SameValue
  <2> QED BY <1>4, <1>9, <1>10, <2>1, <2>2 DEF Store!Delete, gone, bad, parsed
<1> QED BY <1>4, <1>11 DEF Store!Next

LEMMA DeleteEndStep ==
  ASSUME ServingInv, NEW a \in Assocs, DeleteRefused(a) \/ DeleteDone(a)
  PROVE  ServingInv' /\ Store!Next
<1>1. CASE DeleteRefused(a)
  BY <1>1, DeleteAnswered DEF DeleteRefused, At, store
<1>2. CASE DeleteDone(a)
  <2>1. /\ pc[a] = "loop" /\ req[a].svc = "delete" /\ UNCHANGED <<value, lists>>
        /\ Len(res[a]) = Len(req[a].lists)
        /\ Answer(a, [Success EXCEPT !.count = Cardinality(Counted(res[a]))])
    BY <1>2 DEF DeleteDone, At, store, Counted
  <2> QED BY <2>1, DeleteAnswered
<1> QED BY <1>1, <1>2

-----------------------------------------------------------------------------
(* The pages of a name list.                                               *)

LEMMA Least ==
  ASSUME NEW T \in SUBSET Nat, T # {}
  PROVE  \E x \in T : \A y \in T : x <= y
<1> DEFINE R == {ss \in Nat \X Nat : ss[1] < ss[2]}
<1>1. IsWellFoundedOn(R, Nat)
  BY NatLessThanWellFounded DEF OpToRel
<1>2. ASSUME NEW x \in Nat, NEW y \in Nat, y < x PROVE <<y, x>> \in R
  BY <1>2
<1> HIDE DEF R
<1>3. PICK x \in T : \A y \in T : ~(<<y, x>> \in R)
  BY <1>1, WFMin
<1>4. \A y \in T : x \in Nat /\ y \in Nat /\ ~(y < x)
  BY <1>2, <1>3
<1> QED BY <1>4

(* The names below n.                                                      *)
Below(rest, n) == {m \in rest : m < n}

LEMMA BelowGrows ==
  ASSUME NEW rest \in SUBSET Names, NEW n \in rest
  PROVE  /\ IsFiniteSet(Below(rest, n)) /\ Cardinality(Below(rest, n)) \in Nat
         /\ Cardinality(Below(rest, n)) < Cardinality(rest)
         /\ \A m \in rest : m <= n => Cardinality(Below(rest, m)) <= Cardinality(Below(rest, n))
         /\ \A m \in rest : m < n => Cardinality(Below(rest, m)) < Cardinality(Below(rest, n))
<1>1. Names \subseteq Nat /\ IsFiniteSet(Names)
  BY ModelAssumption
<1>2. IsFiniteSet(rest)
  BY <1>1, FS_Subset
<1>3. ASSUME NEW m \in rest
      PROVE  /\ IsFiniteSet(Below(rest, m)) /\ Cardinality(Below(rest, m)) \in Nat
             /\ m \notin Below(rest, m) /\ Below(rest, m) \subseteq rest
  <2>1. Below(rest, m) \in SUBSET rest /\ m \notin Below(rest, m)
    BY <1>1 DEF Below
  <2> QED BY <1>2, <2>1, FS_Subset, FS_CardinalityType
<1>4. Cardinality(Below(rest, n)) < Cardinality(rest)
  <2>1. Cardinality(Below(rest, n)) <= Cardinality(rest) /\ Cardinality(Below(rest, n)) # Cardinality(rest)
    BY <1>2, <1>3, FS_Subset
  <2> QED BY <1>2, <1>3, <2>1, FS_CardinalityType
<1>5. ASSUME NEW m \in rest, m <= n
      PROVE  Below(rest, m) \in SUBSET Below(rest, n)
  <2>1. \A i \in rest : i \in Nat
    BY <1>1
  <2>2. \A i \in rest : i < m => i < n
    BY <1>5, <2>1
  <2> QED BY <2>2 DEF Below
<1>6. ASSUME NEW m \in rest, m <= n
      PROVE  Cardinality(Below(rest, m)) <= Cardinality(Below(rest, n))
  BY <1>3, <1>5, <1>6, FS_Subset
<1>7. ASSUME NEW m \in rest, m < n
      PROVE  Cardinality(Below(rest, m)) < Cardinality(Below(rest, n))
  <2>1. m \in Below(rest, n) /\ m \notin Below(rest, m) /\ m <= n
    BY <1>1, <1>3, <1>7 DEF Below
  <2>2. Cardinality(Below(rest, m)) # Cardinality(Below(rest, n))
    BY <1>3, <1>5, <2>1, FS_Subset
  <2> QED BY <1>3, <1>6, <2>1, <2>2
<1> QED BY <1>3, <1>4, <1>6, <1>7

(* A page has all the names that are left, or more follow, and all of them *)
(* after its last.                                                         *)
LEMMA PageTells ==
  ASSUME NEW all \in SUBSET Names, NEW after
  PROVE  LET p == Page(all, after)
             rest == Rest(all, after)
         IN  /\ p.more \in BOOLEAN
             /\ ~p.more => p.names = rest
             /\ p.more => /\ Max(p.names) \in Names
                          /\ \A n \in rest : n \in p.names \/ n > Max(p.names)
<1> DEFINE p == Page(all, after)
           rest == Rest(all, after)
           names == {n \in rest : Cardinality(Below(rest, n)) < PageMax}
<1>1. p.names = names /\ p.more \in BOOLEAN /\ (p.more <=> Cardinality(rest) > PageMax)
  <2>1. p.names = names /\ p.more = (Cardinality(rest) > PageMax)
    BY DEF Page, Below, Success, Error, Nothing
  <2>2. (Cardinality(rest) > PageMax) \in BOOLEAN
    OBVIOUS
  <2> HIDE DEF p, names, rest
  <2> QED BY <2>1, <2>2, Zenon
<1>2. Names \subseteq Nat /\ IsFiniteSet(Names) /\ PageMax \in Nat \ {0}
  BY ModelAssumption
<1>3. rest \in SUBSET Names
  BY DEF Rest
<1> HIDE DEF p, rest
<1>4. IsFiniteSet(rest) /\ Cardinality(rest) \in Nat
  BY <1>2, <1>3, FS_Subset, FS_CardinalityType
<1>5. ASSUME ~p.more PROVE names = rest
  <2>1. Cardinality(rest) <= PageMax
    <3>1. ~(Cardinality(rest) > PageMax)
      BY <1>1, <1>5
    <3> QED BY <1>2, <1>4, <3>1
  <2>2. \A n \in rest : Cardinality(Below(rest, n)) < PageMax
    BY <1>2, <1>3, <1>4, <2>1, BelowGrows
  <2> QED BY <2>2
<1>6. ASSUME p.more
      PROVE  Max(names) \in Names /\ \A n \in rest : n \in names \/ n > Max(names)
  <2>1. rest # {}
    <3>1. Cardinality(rest) > PageMax
      BY <1>1, <1>6
    <3>2. Cardinality(rest) # 0
      BY <1>2, <1>4, <3>1
    <3> QED BY <3>2, FS_EmptySet
  <2>2. PICK x \in rest : \A y \in rest : x <= y
    BY <1>2, <1>3, <2>1, Least
  <2>3. x \in names
    <3>1. Below(rest, x) = {}
      <4>1. \A i \in rest : i \in Nat /\ x \in Nat
        BY <1>2, <1>3
      <4>2. \A i \in rest : ~(i < x)
        BY <2>2, <4>1
      <4> QED BY <4>2 DEF Below
    <3>2. Cardinality(Below(rest, x)) < PageMax
      BY <1>2, <3>1, FS_EmptySet
    <3> QED BY <3>2
  <2> DEFINE T == {PageMax - Cardinality(Below(rest, n)) : n \in names}
  <2>4. T \in SUBSET Nat /\ T # {}
    <3>1. \A n \in names : PageMax - Cardinality(Below(rest, n)) \in Nat
      BY <1>2, <1>3, BelowGrows
    <3> QED BY <2>3, <3>1
  <2>5. PICK t \in T : \A u \in T : t <= u
    <3> HIDE DEF T
    <3> QED BY <2>4, Least
  <2>6. PICK z \in names : t = PageMax - Cardinality(Below(rest, z))
    BY <2>5
  <2>7. \A n \in names : Cardinality(Below(rest, n)) <= Cardinality(Below(rest, z))
    <3> TAKE n \in names
    <3>1. PageMax - Cardinality(Below(rest, z)) <= PageMax - Cardinality(Below(rest, n))
      BY <2>5, <2>6
    <3>2. n \in rest /\ z \in rest
      OBVIOUS
    <3>3. Cardinality(Below(rest, n)) \in Nat /\ Cardinality(Below(rest, z)) \in Nat
      BY <1>3, <3>2, BelowGrows
    <3> QED BY <1>2, <3>1, <3>3
  <2>8. \A n \in names : z >= n
    <3> TAKE n \in names
    <3>1. n \in rest /\ z \in rest /\ n \in Nat /\ z \in Nat
      BY <1>2, <1>3
    <3>2. Cardinality(Below(rest, n)) \in Nat /\ Cardinality(Below(rest, z)) \in Nat
      BY <1>3, <3>1, BelowGrows
    <3>3. z < n => Cardinality(Below(rest, z)) < Cardinality(Below(rest, n))
      BY <1>3, <3>1, BelowGrows
    <3>4. ~(z < n)
      BY <2>7, <3>2, <3>3
    <3> QED BY <3>1, <3>4
  <2> HIDE DEF names
  <2>9. Max(names) \in names /\ \A y \in names : Max(names) >= y
    BY <2>8, Zenon DEF Max
  <2>10. Max(names) \in rest /\ Max(names) \in Names /\ Max(names) \in Nat
    BY <1>2, <1>3, <2>9 DEF names
  <2>11. ASSUME NEW n \in rest, n <= Max(names) PROVE n \in names
    <3>1. Cardinality(Below(rest, Max(names))) < PageMax
      BY <2>9 DEF names
    <3>2. /\ Cardinality(Below(rest, n)) \in Nat /\ Cardinality(Below(rest, Max(names))) \in Nat
          /\ Cardinality(Below(rest, n)) <= Cardinality(Below(rest, Max(names)))
      BY <1>3, <2>10, <2>11, BelowGrows
    <3>3. Cardinality(Below(rest, n)) < PageMax
      BY <1>2, <3>1, <3>2
    <3> QED BY <3>3 DEF names
  <2> QED BY <1>2, <1>3, <2>10, <2>11
<1> QED BY <1>1, <1>5, <1>6 DEF p, rest

-----------------------------------------------------------------------------
(***************************************************************************)
(* A walk: every name that has been there all the time has been seen, or   *)
(* is still to come after the cursor; the next page is asked for there.    *)
(***************************************************************************)
WalkOf(a) ==
  /\ walk[a] = [owner |-> walk[a].owner, cursor |-> walk[a].cursor,
                seen |-> walk[a].seen, standing |-> walk[a].standing]
  /\ walk[a].owner \in MapsOf(a)
  /\ walk[a].cursor \in Names \cup {NoName}
  /\ walk[a].standing \subseteq ListNames(lists, walk[a].owner)
  /\ \A n \in walk[a].standing :
       n \in walk[a].seen \/ (walk[a].cursor # NoName /\ n > walk[a].cursor)

(* The page a asks for.                                                    *)
AskedOf(a) ==
  Busy(a) /\ req[a].svc = "names" =>
    req[a].after = IF Key(a, req[a].list)[1] = walk[a].owner THEN walk[a].cursor ELSE NoName

Walks ==
  /\ walk = [a \in Assocs |-> walk[a]]
  /\ \A a \in Assocs : WalkOf(a) /\ AskedOf(a)

LEMMA WalksInitOk == ServingInit => Walks
<1> SUFFICES ASSUME ServingInit PROVE Walks
  OBVIOUS
<1>1. walk = [a \in Assocs |-> NoWalk] /\ pc = [a \in Assocs |-> "off"]
  BY DEF ServingInit
<1>2. ASSUME NEW a \in Assocs PROVE WalkOf(a) /\ AskedOf(a)
  <2>1. walk[a] = NoWalk /\ pc[a] = "off"
    BY <1>1
  <2>2. WalkOf(a)
    BY <2>1 DEF WalkOf, NoWalk, MapsOf
  <2> QED BY <2>1, <2>2 DEF AskedOf, Busy
<1> QED BY <1>1, <1>2 DEF Walks

(* No list a walk is about goes, and no request comes.                     *)
LEMMA WalksGoOn ==
  ASSUME Walks, UNCHANGED walk,
         \A a \in Assocs : Busy(a)' => Busy(a) /\ req'[a] = req[a],
         \A o \in Owners : ListNames(lists, o) \subseteq ListNames(lists', o)
  PROVE  Walks'
<1>1. ASSUME NEW a \in Assocs PROVE WalkOf(a)' /\ AskedOf(a)'
  <2>1. WalkOf(a) /\ AskedOf(a)
    BY DEF Walks
  <2>2. walk[a].owner \in Owners
    BY <2>1 DEF WalkOf, MapsOf, Owners
  <2>3. WalkOf(a)'
    BY <2>1, <2>2 DEF WalkOf
  <2>4. AskedOf(a)'
    BY <2>1 DEF AskedOf
  <2> QED BY <2>3, <2>4
<1> QED BY <1>1 DEF Walks

LEMMA QuietWalks ==
  ASSUME ServingInv, Walks, NEW a \in Assocs,
         \/ Connect(a) \/ Reply(a) \/ Unserved(a) \/ \E svc : Enter(a, svc)
         \/ ReadNext(a) \/ ReadDone(a) \/ WriteRefused(a) \/ writeOne(a) \/ WriteDone(a)
         \/ sendReports(a) \/ AttributesDone(a) \/ MembersDone(a) \/ DeleteRefused(a) \/ DeleteDone(a)
  PROVE  Walks'
<1>0. Typed
  BY DEF ServingInv
<1>1. UNCHANGED <<walk, lists, req>>
  BY DEF Connect, Reply, Unserved, Enter, ReadNext, ReadDone, WriteRefused, writeOne, WriteDone,
         sendReports, AttributesDone, MembersDone, DeleteRefused, DeleteDone, Answer, store, local
<1>2. \A b \in Assocs : Busy(b)' => Busy(b)
  BY <1>0 DEF Connect, Reply, Unserved, Enter, ReadNext, ReadDone, WriteRefused, writeOne, WriteDone,
         sendReports, AttributesDone, MembersDone, DeleteRefused, DeleteDone, Answer, At, Busy, Typed
<1> QED BY <1>1, <1>2, WalksGoOn

(* The next page is asked for after the last.                              *)
LEMMA ReceiveWalks ==
  ASSUME ServingInv, Walks, NEW a \in Assocs, Receive(a)
  PROVE  Walks'
<1>0. Typed
  BY DEF ServingInv
<1>1. PICK r \in Requests :
        req' = [req EXCEPT ![a] = [r EXCEPT !.after =
                  IF r.svc = "names" /\ Key(a, r.list)[1] = walk[a].owner
                  THEN walk[a].cursor ELSE NoName]]
  BY DEF Receive
<1>2. UNCHANGED <<walk, lists>> /\ pc' = [pc EXCEPT ![a] = "wait"]
  BY DEF Receive, store
<1>3. r \in RequestType
  BY ModelAssumption
<1>4. req'[a].svc = "names" =>
        req'[a].after = IF Key(a, req'[a].list)[1] = walk[a].owner THEN walk[a].cursor ELSE NoName
  BY <1>0, <1>1, <1>3 DEF RequestType, Typed
<1>5. ASSUME NEW b \in Assocs PROVE WalkOf(b)' /\ AskedOf(b)'
  <2>1. WalkOf(b) /\ AskedOf(b)
    BY DEF Walks
  <2>2. WalkOf(b)'
    BY <1>2, <2>1 DEF WalkOf
  <2>3. AskedOf(b)'
    <3>1. CASE b = a
      BY <1>2, <1>4, <3>1 DEF AskedOf
    <3>2. CASE b # a
      BY <1>0, <1>1, <1>2, <2>1, <3>2 DEF AskedOf, Busy, Typed
    <3> QED BY <3>1, <3>2
  <2> QED BY <2>2, <2>3
<1> QED BY <1>2, <1>5 DEF Walks

(* The lists of an association are in nobody else's walk.                  *)
LEMMA EndWalks ==
  ASSUME ServingInv, Walks, NEW a \in Assocs, End(a)
  PROVE  Walks'
<1>0. Typed /\ "vmd" \notin Assocs /\ "domain" \notin Assocs
  BY ModelAssumption DEF ServingInv
<1>1. /\ pc' = [pc EXCEPT ![a] = "off"]
      /\ lists' = [k \in Keys |-> IF k[1] = a THEN NoList ELSE lists[k]]
      /\ req' = [req EXCEPT ![a] = NoList]
      /\ walk' = [walk EXCEPT ![a] = NoWalk]
  BY DEF End
<1>2. walk = [b \in Assocs |-> walk[b]]
  BY DEF Walks
<1>3. ASSUME NEW b \in Assocs PROVE WalkOf(b)' /\ AskedOf(b)'
  <2>1. CASE b = a
    BY <1>0, <1>1, <1>2, <2>1 DEF WalkOf, AskedOf, NoWalk, MapsOf, Busy, Typed
  <2>2. CASE b # a
    <3>1. WalkOf(b) /\ AskedOf(b) /\ walk'[b] = walk[b]
      BY <1>1, <1>2, <2>2 DEF Walks
    <3>2. walk[b].owner # a /\ walk[b].owner \in Owners
      BY <1>0, <2>2, <3>1 DEF WalkOf, MapsOf, Owners
    <3>3. ListNames(lists', walk[b].owner) = ListNames(lists, walk[b].owner)
      BY <1>1, <3>2 DEF ListNames, Keys
    <3>4. WalkOf(b)'
      BY <3>1, <3>3 DEF WalkOf
    <3>5. AskedOf(b)'
      BY <1>0, <1>1, <2>2, <3>1 DEF AskedOf, Busy, Typed
    <3> QED BY <3>4, <3>5
  <2> QED BY <2>1, <2>2
<1>4. walk' = [b \in Assocs |-> walk'[b]]
  BY <1>1, <1>2
<1> QED BY <1>3, <1>4 DEF Walks

LEMMA DefinedWalks ==
  ASSUME ServingInv, Walks, NEW a \in Assocs,
         NEW error \in {GoDefineError(a), RsDefineError(a)}, Defined(a, error)
  PROVE  Walks'
<1>0. Typed
  BY DEF ServingInv
<1> DEFINE k == Key(a, req[a].list)
<1>1. /\ UNCHANGED <<walk, req>> /\ pc' = [pc EXCEPT ![a] = "answered"]
      /\ lists' = IF error = "none" THEN [lists EXCEPT ![k] = req[a].items] ELSE lists
  BY DEF Defined, Answer
<1>2. error = "none" => k \in Keys /\ lists[k] = NoList
  BY DEF GoDefineError, RsDefineError, Has
<1> HIDE DEF k
<1>3. ASSUME NEW o \in Owners, NEW n \in ListNames(lists, o) PROVE n \in ListNames(lists', o)
  <2>1. n \in Names /\ lists[<<o, n>>] # NoList
    BY DEF ListNames
  <2>2. lists'[<<o, n>>] = lists[<<o, n>>]
    BY <1>0, <1>1, <1>2, <2>1 DEF Typed, Keys
  <2> QED BY <2>1, <2>2 DEF ListNames
<1>4. \A b \in Assocs : Busy(b)' => Busy(b)
  BY <1>0, <1>1 DEF Busy, Typed
<1> QED BY <1>1, <1>3, <1>4, WalksGoOn

LEMMA DeleteWalks ==
  ASSUME ServingInv, Walks, NEW a \in Assocs, DeleteNext(a)
  PROVE  Walks'
<1>0. Typed /\ walk = [b \in Assocs |-> walk[b]]
  BY DEF ServingInv, Walks
<1> DEFINE k == Key(a, req[a].lists[Len(res[a]) + 1])
<1>1. UNCHANGED <<pc, req>>
  BY DEF DeleteNext
<1>2. CASE ~Has(lists, k)
  <2>1. UNCHANGED <<lists, walk>>
    BY <1>2 DEF DeleteNext
  <2> QED BY <1>1, <2>1, WalksGoOn DEF Busy
<1>3. CASE Has(lists, k)
  <2>1. /\ lists' = [lists EXCEPT ![k] = NoList]
        /\ walk' = [b \in Assocs |-> IF walk[b].owner = k[1]
                                     THEN [walk[b] EXCEPT !.standing = @ \ {k[2]}]
                                     ELSE walk[b]]
    BY <1>3 DEF DeleteNext
  <2>2. k \in Keys /\ k = <<k[1], k[2]>>
    BY <1>3 DEF Has, Keys
  <2> HIDE DEF k
  <2>3. ASSUME NEW b \in Assocs PROVE WalkOf(b)' /\ AskedOf(b)'
    <3> DEFINE w == walk[b]
               gone == IF w.owner = k[1] THEN {k[2]} ELSE {}
    <3>1. WalkOf(b) /\ AskedOf(b)
      BY DEF Walks
    <3>2. walk'[b] = [owner |-> w.owner, cursor |-> w.cursor, seen |-> w.seen,
                      standing |-> w.standing \ gone]
      <4>1. w = [owner |-> w.owner, cursor |-> w.cursor, seen |-> w.seen, standing |-> w.standing]
        BY <3>1 DEF WalkOf
      <4>2. walk'[b] = IF w.owner = k[1] THEN [w EXCEPT !.standing = w.standing \ {k[2]}] ELSE w
        BY <2>1
      <4> QED BY <4>1, <4>2
    <3>3. ASSUME NEW n \in Names, lists[<<w.owner, n>>] # NoList, n \notin gone
          PROVE  lists'[<<w.owner, n>>] # NoList
      BY <1>0, <2>1, <2>2, <3>3 DEF Typed
    <3>4. w.standing \ gone \subseteq ListNames(lists', w.owner)
      <4> HIDE DEF gone
      <4> QED BY <3>1, <3>3 DEF WalkOf, ListNames
    <3>5. WalkOf(b)'
      <4> HIDE DEF gone
      <4> QED BY <3>1, <3>2, <3>4 DEF WalkOf
    <3>6. AskedOf(b)'
      BY <1>1, <3>1, <3>2 DEF AskedOf, Busy
    <3> QED BY <3>5, <3>6
  <2>4. walk' = [b \in Assocs |-> walk'[b]]
    BY <2>1
  <2> QED BY <2>3, <2>4 DEF Walks
<1> QED BY <1>2, <1>3

(* One page more.                                                          *)
LEMMA NamesWalks ==
  ASSUME ServingInv, Walks, NEW a \in Assocs, NamesDone(a)
  PROVE  Walks'
<1>0. Typed /\ walk = [b \in Assocs |-> walk[b]] /\ WalkOf(a) /\ AskedOf(a)
  BY DEF ServingInv, Walks
<1> DEFINE k == Key(a, req[a].list)
           all == ListNames(lists, k[1])
           after == req[a].after
           page == Page(all, after)
           rest == Rest(all, after)
           old == walk[a]
           cursor == IF page.more THEN Max(page.names) ELSE NoName
           seen == page.names \cup IF after = NoName THEN {} ELSE old.seen
           standing == IF after = NoName THEN all ELSE old.standing
<1>1. /\ UNCHANGED <<lists, req>> /\ pc' = [pc EXCEPT ![a] = "answered"]
      /\ pc[a] = "loop" /\ req[a].svc = "names"
  BY DEF NamesDone, Answer, At, store
<1>2. \A b \in Assocs : Busy(b)' => Busy(b) /\ b # a
  BY <1>0, <1>1 DEF Busy, Typed
<1>3. CASE k \notin Keys
  <2>1. UNCHANGED walk
    BY <1>3 DEF NamesDone
  <2> QED BY <1>1, <1>2, <2>1, WalksGoOn
<1>4. CASE k \in Keys
  <2>1. walk' = [walk EXCEPT ![a] = [owner |-> k[1], cursor |-> cursor, seen |-> seen,
                                      standing |-> standing]]
    BY <1>4 DEF NamesDone
  <2>2. req[a].list \in ListName /\ after \in Names \cup {NoName}
    <3>1. req[a] \in RequestType
      BY <1>1, WorkSeen
    <3> QED BY <3>1 DEF RequestType, ListName
  <2>3. k[1] \in MapsOf(a)
    BY <1>4, <2>2, KeyInMaps
  <2>4. after = IF k[1] = old.owner THEN old.cursor ELSE NoName
    BY <1>0, <1>1 DEF AskedOf, Busy
  <2>5. NoName \notin Names /\ Names \subseteq Nat
    BY ModelAssumption
  <2>6. all \in SUBSET Names
    BY DEF ListNames
  <2> HIDE DEF all, k, after
  <2>7. /\ page.more \in BOOLEAN
        /\ ~page.more => page.names = rest
        /\ page.more => /\ Max(page.names) \in Names
                        /\ \A n \in rest : n \in page.names \/ n > Max(page.names)
    BY <2>6, PageTells
  <2>8. after # NoName => old.standing \subseteq all
    BY <1>0, <2>4 DEF WalkOf, all
  <2>9. standing \subseteq all
    BY <2>8
  <2>10. ASSUME NEW n \in standing PROVE n \in rest \/ n \in seen
    <3>1. CASE after = NoName
      BY <2>5, <2>6, <2>9, <3>1 DEF Rest
    <3>2. CASE after # NoName
      <4>1. n \in old.seen \/ n > after
        BY <1>0, <2>4, <3>2 DEF WalkOf
      <4>2. n \in all
        BY <2>9
      <4> QED BY <3>2, <4>1, <4>2 DEF Rest
    <3> QED BY <3>1, <3>2
  <2> HIDE DEF page, rest, old
  <2>11. ASSUME NEW n \in standing PROVE n \in seen \/ (cursor # NoName /\ n > cursor)
    BY <2>5, <2>7, <2>10
  <2>12. cursor \in Names \cup {NoName}
    BY <2>7
  <2> HIDE DEF cursor, seen, standing
  <2>13. ASSUME NEW b \in Assocs PROVE WalkOf(b)' /\ AskedOf(b)'
    <3>1. CASE b = a
      <4>1. walk'[a] = [owner |-> k[1], cursor |-> cursor, seen |-> seen, standing |-> standing]
        BY <1>0, <2>1
      <4>2. WalkOf(a)'
        BY <1>1, <2>3, <2>9, <2>11, <2>12, <4>1 DEF WalkOf, all
      <4> QED BY <1>2, <3>1, <4>2 DEF AskedOf
    <3>2. CASE b # a
      <4>1. WalkOf(b) /\ AskedOf(b) /\ walk'[b] = walk[b]
        BY <1>0, <2>1, <3>2 DEF Walks
      <4>2. WalkOf(b)'
        BY <1>1, <4>1 DEF WalkOf
      <4>3. AskedOf(b)'
        BY <1>1, <1>2, <4>1 DEF AskedOf
      <4> QED BY <4>2, <4>3
    <3> QED BY <3>1, <3>2
  <2>14. walk' = [b \in Assocs |-> walk'[b]]
    BY <1>0, <2>1
  <2> QED BY <2>13, <2>14 DEF Walks
<1> QED BY <1>3, <1>4

-----------------------------------------------------------------------------
(* The programs.                                                           *)

(* A step of the handler of a that serves a request.                       *)
Serves(a) ==
  \/ \E svc : Enter(a, svc)
  \/ ReadNext(a) \/ ReadDone(a)
  \/ WriteRefused(a) \/ writeOne(a) \/ WriteDone(a) \/ sendReports(a)
  \/ AttributesDone(a) \/ MembersDone(a)
  \/ At(a, "loop", "define") /\ \E e \in {GoDefineError(a), RsDefineError(a)} : Defined(a, e)
  \/ DeleteNext(a) \/ DeleteRefused(a) \/ DeleteDone(a)
  \/ NamesDone(a)
  \/ Unserved(a) \/ Reply(a)

LEMMA ServesStep ==
  ASSUME ServingInv, Walks, NEW a \in Assocs, Serves(a)
  PROVE  ServingInv' /\ Walks' /\ (Store!Next \/ UNCHANGED Store!vars)
<1>1. CASE \E svc : Enter(a, svc)
  BY <1>1, EnterStep, QuietWalks
<1>2. CASE ReadNext(a) \/ ReadDone(a)
  BY <1>2, ReadNextStep, ReadDoneStep, QuietWalks
<1>3. CASE WriteRefused(a) \/ writeOne(a) \/ WriteDone(a) \/ sendReports(a)
  BY <1>3, WriteRefusedStep, writeOneStep, WriteDoneStep, sendReportsStep, QuietWalks
<1>4. CASE AttributesDone(a) \/ MembersDone(a)
  BY <1>4, AttributesDoneStep, MembersDoneStep, QuietWalks
<1>5. CASE At(a, "loop", "define") /\ \E e \in {GoDefineError(a), RsDefineError(a)} : Defined(a, e)
  <2>1. PICK e \in {GoDefineError(a), RsDefineError(a)} : Defined(a, e)
    BY <1>5
  <2> QED BY <1>5, <2>1, DefinedStep, DefinedWalks
<1>6. CASE DeleteNext(a)
  BY <1>6, DeleteNextStep, DeleteWalks
<1>7. CASE DeleteRefused(a) \/ DeleteDone(a)
  BY <1>7, DeleteEndStep, QuietWalks
<1>8. CASE NamesDone(a)
  BY <1>8, NamesDoneStep, NamesWalks
<1>9. CASE Unserved(a) \/ Reply(a)
  BY <1>9, UnservedStep, ConnectStep, QuietWalks
<1> QED BY <1>1, <1>2, <1>3, <1>4, <1>5, <1>6, <1>7, <1>8, <1>9 DEF Serves

(* A step of the client of a.                                              *)
LEMMA ClientStep ==
  ASSUME ServingInv, Walks, NEW a \in Assocs, Connect(a) \/ Receive(a) \/ End(a)
  PROVE  ServingInv' /\ Walks' /\ (Store!Next \/ UNCHANGED Store!vars)
<1>1. CASE Connect(a)
  BY <1>1, ConnectStep, QuietWalks
<1>2. CASE Receive(a)
  <2>1. walk[a].cursor \in Names \cup {NoName}
    BY DEF Walks, WalkOf
  <2> QED BY <1>2, <2>1, ReceiveStep, ReceiveWalks
<1>3. CASE End(a)
  BY <1>3, EndStep, EndWalks
<1> QED BY <1>1, <1>2, <1>3

(* The model and the handlers are as they were.                            *)
LEMMA IdleStep ==
  ASSUME ServingInv, Walks,
         UNCHANGED <<mu, value, lists, pc, req, specs, res, resp, before, walk>>
  PROVE  ServingInv' /\ Walks' /\ UNCHANGED Store!vars
<1>1. Typed'
  BY DEF ServingInv, Typed
<1>2. ASSUME NEW a \in Assocs PROVE HandlerOk(a)'
  BY DEF ServingInv, HandlerOk, Busy
<1>3. ASSUME NEW a \in Assocs, mu' = a PROVE SoFar(a)'
  BY <1>3, Undisturbed DEF ServingInv
<1>4. ServingInv'
  BY <1>1, <1>2, <1>3 DEF ServingInv
<1>5. Walks'
  BY WalksGoOn DEF Busy
<1>6. SeenValue' = SeenValue /\ SeenLists' = SeenLists
  BY SeenSame
<1> QED BY <1>4, <1>5, <1>6 DEF Store!vars

LEMMA GoServes == \A a \in Assocs : Handle(a) => Serves(a)
BY DEF Handle, Serves, read, write, getVariableAccessAttributes, getNVLAttributes, defineNVL,
       deleteNVL, getNameList

LEMMA RsServes == \A a \in Assocs : confirmed(a) => Serves(a)
BY DEF confirmed, Serves, assoc_read, assoc_write, gvaa, nvl_attrs, define_nvl, delete_nvl,
       get_name_list

LEMMA ServerStep ==
  ASSUME ServingInv, Walks, GoNext \/ RsNext \/ UNCHANGED vars
  PROVE  ServingInv' /\ Walks' /\ (Store!Next \/ UNCHANGED Store!vars)
<1>1. ASSUME NEW a \in Assocs, Connect(a) \/ Receive(a) \/ Handle(a) \/ confirmed(a) \/ End(a)
      PROVE  ServingInv' /\ Walks' /\ (Store!Next \/ UNCHANGED Store!vars)
  BY <1>1, ClientStep, ServesStep, GoServes, RsServes
<1>2. CASE GoSignal \/ GoExit \/ RsSignal \/ UNCHANGED vars
  <2>1. UNCHANGED <<mu, value, lists, pc, req, specs, res, resp, before, walk>>
    BY <1>2 DEF GoSignal, GoExit, RsSignal, vars, store, local, process
  <2> QED BY <2>1, IdleStep
<1> QED BY <1>1, <1>2 DEF GoNext, RsNext

LEMMA WalksTell == Walks => WalkComplete
BY DEF Walks, WalkOf, WalkComplete

(* What TypeOK says beyond that: the members of every list exist.          *)
MembersExist ==
  \A k \in Keys : lists[k] # NoList => \A i \in 1 .. Len(lists[k]) : Path[lists[k][i]] # {}

Counters == listening \in BOOLEAN /\ up \in BOOLEAN /\ asked \in 0 .. MaxRequests

LEMMA TypeStep ==
  ASSUME ServingInv, MembersExist, Counters, GoNext \/ RsNext \/ UNCHANGED vars
  PROVE  MembersExist' /\ Counters'
<1>0. Typed
  BY DEF ServingInv
<1> USE DEF store, local, process
<1>1. CASE UNCHANGED <<lists, listening, up, asked>>
  BY <1>1 DEF MembersExist, Counters
<1>2. ASSUME NEW a \in Assocs, Receive(a) PROVE MembersExist' /\ Counters'
  <2>1. UNCHANGED <<lists, listening, up>> /\ asked < MaxRequests /\ asked' = asked + 1
    BY <1>2 DEF Receive
  <2> QED BY <2>1, MaxRequestsAssumption DEF MembersExist, Counters
<1>3. ASSUME NEW a \in Assocs, End(a) PROVE MembersExist' /\ Counters'
  <2>1. /\ UNCHANGED <<listening, up, asked>>
        /\ lists' = [k \in Keys |-> IF k[1] = a THEN NoList ELSE lists[k]]
    BY <1>3 DEF End
  <2> QED BY <2>1 DEF MembersExist, Counters
<1>4. ASSUME NEW a \in Assocs, DeleteNext(a) PROVE MembersExist' /\ Counters'
  <2>1. /\ UNCHANGED <<listening, up, asked>>
        /\ \/ \E k \in Keys : lists' = [lists EXCEPT ![k] = NoList]
           \/ UNCHANGED lists
    BY <1>4 DEF DeleteNext, Has
  <2> QED BY <1>0, <2>1 DEF MembersExist, Counters, Typed
<1>5. ASSUME NEW a \in Assocs, NEW e \in {GoDefineError(a), RsDefineError(a)}, Defined(a, e)
      PROVE  MembersExist' /\ Counters'
  <2> DEFINE k == Key(a, req[a].list)
  <2>1. /\ UNCHANGED <<listening, up, asked>>
        /\ lists' = IF e = "none" THEN [lists EXCEPT ![k] = req[a].items] ELSE lists
    BY <1>5 DEF Defined, Answer
  <2>2. e = "none" => k \in Keys /\ ~BadMember(a)
    BY DEF GoDefineError, RsDefineError
  <2> HIDE DEF k
  <2> QED BY <1>0, <2>1, <2>2 DEF MembersExist, Counters, Typed, BadMember
<1>6. ASSUME NEW a \in Assocs, Connect(a) \/ Receive(a) \/ Serves(a) \/ End(a)
      PROVE  MembersExist' /\ Counters'
  <2>1. \/ Receive(a) \/ End(a) \/ DeleteNext(a)
        \/ \E e \in {GoDefineError(a), RsDefineError(a)} : Defined(a, e)
        \/ UNCHANGED <<lists, listening, up, asked>>
    BY <1>6 DEF Serves, Connect, Enter, ReadNext, ReadDone, WriteRefused, writeOne, WriteDone,
         sendReports, AttributesDone, MembersDone, DeleteRefused, DeleteDone, NamesDone, Unserved,
         Reply, Answer
  <2> QED BY <1>1, <1>2, <1>3, <1>4, <1>5, <2>1
<1>7. CASE GoSignal \/ GoExit \/ RsSignal \/ UNCHANGED vars
  BY <1>7 DEF GoSignal, GoExit, RsSignal, vars, MembersExist, Counters
<1> QED BY <1>6, <1>7, GoServes, RsServes DEF GoNext, RsNext

LEMMA TypeOfInv == ServingInv /\ MembersExist /\ Counters => TypeOK
BY DEF ServingInv, Typed, HandlerOk, MembersExist, Counters, TypeOK

(* What every step of either program keeps, and the step of the store.     *)
ServerInv == ServingInv /\ Walks /\ MembersExist /\ Counters

LEMMA ServerInitOk == ServingInit => ServerInv
<1>1. ServingInit => MembersExist /\ Counters
  BY ModelAssumption, MaxRequestsAssumption DEF ServingInit, MembersExist, Counters
<1> QED BY <1>1, ServingInitOk, WalksInitOk DEF ServerInv

LEMMA ServerInvStep ==
  ASSUME ServerInv, GoNext \/ RsNext \/ UNCHANGED vars
  PROVE  ServerInv' /\ (Store!Next \/ UNCHANGED Store!vars)
BY ServerStep, TypeStep DEF ServerInv

(***************************************************************************)
(* The Go and the Rust mms-server keep their types; in particular, who     *)
(* works on the model holds the mutex, and every member of every list      *)
(* there is names a variable of the model.                                 *)
(***************************************************************************)
THEOREM TypesKept == (GoSpec => []TypeOK) /\ (RsSpec => []TypeOK)
<1>1. ServingInit => ServerInv
  BY ServerInitOk
<1>2. ServerInv /\ [GoNext]_vars => ServerInv'
  BY ServerInvStep
<1>3. ServerInv /\ [RsNext]_vars => ServerInv'
  BY ServerInvStep
<1>4. ServerInv => TypeOK
  BY TypeOfInv DEF ServerInv
<1> QED BY <1>1, <1>2, <1>3, <1>4, PTL DEF GoSpec, RsSpec, GoInit, RsInit

(***************************************************************************)
(* The dscsystems (Go) mms-server implements MmsStore: with any number of  *)
(* associations, variables, lists and requests, each request takes effect  *)
(* in one step, on all its items, as if no other were under way.  The step *)
(* of MmsStore is the one that unlocks server.mu and answers.              *)
(***************************************************************************)
THEOREM GoImplementsStore == GoSpec => StoreSpec
<1>1. ServingInit => ServerInv /\ Store!Init
  BY ServerInitOk, ServingInitOk
<1>2. ServerInv /\ [GoNext]_vars => ServerInv' /\ [Store!Next]_Store!vars
  BY ServerInvStep
<1> QED BY <1>1, <1>2, PTL DEF GoSpec, GoInit, StoreSpec, Store!Spec

(***************************************************************************)
(* The iec61850-rust mms-server implements MmsStore, too, although         *)
(* define_nvl looks for its errors in another order.                       *)
(***************************************************************************)
THEOREM RsImplementsStore == RsSpec => StoreSpec
<1>1. ServingInit => ServerInv /\ Store!Init
  BY ServerInitOk, ServingInitOk
<1>2. ServerInv /\ [RsNext]_vars => ServerInv' /\ [Store!Next]_Store!vars
  BY ServerInvStep
<1> QED BY <1>1, <1>2, PTL DEF RsSpec, RsInit, StoreSpec, Store!Spec

(***************************************************************************)
(* A client that walks through the pages getNameList (Go) and              *)
(* get_name_list (Rust) send sees every list that exists all the time,     *)
(* however large a page and whatever the others define and delete between  *)
(* two pages.                                                              *)
(***************************************************************************)
THEOREM WalksComplete == (GoSpec => []WalkComplete) /\ (RsSpec => []WalkComplete)
<1>1. ServingInit => ServerInv
  BY ServerInitOk
<1>2. ServerInv /\ [GoNext]_vars => ServerInv'
  BY ServerInvStep
<1>3. ServerInv /\ [RsNext]_vars => ServerInv'
  BY ServerInvStep
<1>4. ServerInv => WalkComplete
  BY WalksTell DEF ServerInv
<1> QED BY <1>1, <1>2, <1>3, <1>4, PTL DEF GoSpec, RsSpec, GoInit, RsInit

-----------------------------------------------------------------------------
(* The file services: types.                                               *)

Codes == {"none", "ok", "file-non-existent", "position-invalid", "file-other", "access-denied"}
FileNames == DOMAIN ClientFiles

JobType ==
  [at : {"open", "read", "close", "done", "writing"}, inv : Nat, id : Nat,
   data : Seq(Byte), code : Codes, ino : Nat]

ResType == [code : Codes, id : Nat, chunk : Seq(Byte), more : BOOLEAN]
PduType == [kind : {"request"}, n : Nat] \cup [kind : {"answer"}, inv : Nat, res : ResType]
AskType == [inv : Nat, svc : {"open", "read", "close"}, id : Nat, src : FileNames]

FileType ==
  [ino : Nat, size : Nat, pos : Nat, data : Seq(Byte), want : Seq(Byte), got : Seq(Byte),
   over : BOOLEAN, closed : BOOLEAN, disturbed : BOOLEAN]

FilesTypeOK ==
  /\ side \in {"go", "rs"}
  /\ plan \in [Users -> Seq(Ops)]
  /\ bytes \in Seq(Seq(Byte))
  /\ \A n \in DOMAIN dir : dir[n] \in DOMAIN bytes
  /\ sent \in [Users -> Seq([op : Ops, eager : BOOLEAN])]
  /\ told \in [Users -> Seq([code : Codes, data : Seq(Byte)])]
  /\ \A a \in Users : Len(told[a]) = Len(sent[a])
  /\ alive \in [Users -> BOOLEAN]
  /\ inq \in [Users -> Seq(PduType)]
  /\ asks \in [Users -> Seq(AskType)]
  /\ lent \in [Users -> Seq([src : FileNames, pos : Nat])]
  /\ files \in [Users -> Seq(FileType)]
  /\ \A a \in Users : \A i \in DOMAIN files[a] : files[a][i].ino \in DOMAIN bytes
  /\ DOMAIN jobs \subseteq Users \X Nat
  /\ jobs \in [DOMAIN jobs -> JobType]
  /\ inv \in [Users -> Nat]

-----------------------------------------------------------------------------
(* The calls of ObtainFile.  The operators take the jobs js, and of one    *)
(* association a the calls cs it has not answered, the PDUs q to the       *)
(* server, the files le it has open, the last invoke id v and the requests *)
(* st it has sent.                                                         *)

Waits(j) == j.at \in {"open", "read", "close"}
Of(js, a) == {k \in DOMAIN js : k[1] = a}
IsAnswer(p) == p.kind = "answer"

(* A job stands for an ObtainFile that was sent; a request that waits was  *)
(* sent too, after those that have become jobs; and requests wait in the   *)
(* order they were sent.                                                   *)
JobsSent(js, a, st) == \A k \in Of(js, a) : k[2] \in DOMAIN st /\ st[k[2]].op.svc = "obtain"

RequestsSent(js, a, q, st) ==
  \A i \in DOMAIN q : q[i].kind = "request" =>
    q[i].n \in DOMAIN st /\ \A k \in Of(js, a) : k[2] < q[i].n

RequestsInOrder(q) ==
  \A i, j \in DOMAIN q : i < j /\ q[i].kind = "request" /\ q[j].kind = "request" => q[i].n < q[j].n

(* Invoke ids are used once, and answers come in the order of the calls.   *)
AsksInOrder(cs, v) ==
  \A i, j \in DOMAIN cs : cs[i].inv <= v /\ (i < j => cs[i].inv < cs[j].inv)

AnswersFirst(cs, q, v) ==
  \A i \in DOMAIN q : IsAnswer(q[i]) => q[i].inv <= v /\ \A j \in DOMAIN cs : q[i].inv < cs[j].inv

AnswersInOrder(q) ==
  \A i, j \in DOMAIN q : i < j /\ IsAnswer(q[i]) /\ IsAnswer(q[j]) => q[i].inv < q[j].inv

JobsInvs(js, a, v) ==
  \A k, l \in Of(js, a) :
    /\ Waits(js[k]) => js[k].inv <= v
    /\ Waits(js[k]) /\ Waits(js[l]) /\ js[k].inv = js[l].inv => k = l

(* A file the client has open is read for one job only.                    *)
ReadsLent(cs, le) == \A i \in DOMAIN cs : cs[i].svc = "read" => cs[i].id \in DOMAIN le

JobsApart(js, a) ==
  \A k, l \in Of(js, a) : js[k].at = "read" /\ js[l].at = "read" /\ js[k].id = js[l].id => k = l

OwnReads(js, a, cs) ==
  \A k \in Of(js, a) : \A i \in DOMAIN cs :
    js[k].at = "read" /\ cs[i].svc = "read" /\ cs[i].id = js[k].id => cs[i].inv = js[k].inv

(* The answer to a FileOpen that no job has taken.                         *)
Fresh(p) == IsAnswer(p) /\ p.res.code = "ok" /\ p.res.id # 0

FreshUnread(js, a, cs, q, le) ==
  \A i \in DOMAIN q : Fresh(q[i]) =>
    /\ q[i].res.id \in DOMAIN le
    /\ \A k \in Of(js, a) : js[k].at = "read" => js[k].id # q[i].res.id
    /\ \A j \in DOMAIN cs : cs[j].svc = "read" => cs[j].id # q[i].res.id

FreshOnce(q) ==
  \A i, j \in DOMAIN q : Fresh(q[i]) /\ Fresh(q[j]) /\ q[j].res.id = q[i].res.id => i = j

Begins(d, f) == Len(d) <= Len(f) /\ \A i \in 1 .. Len(d) : d[i] = f[i]

(* r is the answer to a FileRead of f at position n.                       *)
Part(r, f, n) ==
  /\ r.chunk = IF n < Len(f) THEN <<f[n + 1]>> ELSE << >>
  /\ r.more = (n + 1 < Len(f))

(* A job waits for the answer to its own call: that of FileOpen opens the  *)
(* file name it was asked for, that of FileRead continues the data it has. *)
FitsAsk(j, name, cs, le) ==
  \A i \in DOMAIN cs : Waits(j) /\ cs[i].inv = j.inv =>
    /\ cs[i].svc = j.at /\ cs[i].src = name /\ cs[i].id = j.id
    /\ j.at = "read" => le[j.id].pos = Len(j.data)

FitsLent(j, name, le) == j.at = "read" => j.id \in DOMAIN le /\ le[j.id].src = name

FitsOpen(j, name, q, le) ==
  j.at = "open" =>
    \A i \in DOMAIN q : IsAnswer(q[i]) /\ q[i].inv = j.inv /\ q[i].res.code = "ok" =>
      /\ q[i].res.id \in DOMAIN le /\ q[i].res.id # 0
      /\ le[q[i].res.id].src = name /\ le[q[i].res.id].pos = 0

FitsRead(j, name, q, le) ==
  j.at = "read" =>
    \A i \in DOMAIN q : IsAnswer(q[i]) /\ q[i].inv = j.inv /\ q[i].res.code = "ok" =>
      \/ Endless(q[i].res)
      \/ /\ Part(q[i].res, ClientFiles[name], Len(j.data))
         /\ le[j.id].pos = Len(j.data) + 1

FitsJob(j, name, cs, q, le) ==
  FitsAsk(j, name, cs, le) /\ FitsLent(j, name, le) /\ FitsOpen(j, name, q, le) /\ FitsRead(j, name, q, le)

Fits(js, a, cs, q, le, st) == \A k \in Of(js, a) : FitsJob(js[k], st[k[2]].op.name, cs, q, le)

Calls(js, a, cs, q, le, v, st) ==
  /\ JobsSent(js, a, st) /\ RequestsSent(js, a, q, st) /\ RequestsInOrder(q)
  /\ AsksInOrder(cs, v) /\ AnswersFirst(cs, q, v) /\ AnswersInOrder(q) /\ JobsInvs(js, a, v)
  /\ ReadsLent(cs, le) /\ JobsApart(js, a) /\ OwnReads(js, a, cs)
  /\ FreshUnread(js, a, cs, q, le) /\ FreshOnce(q)
  /\ Fits(js, a, cs, q, le, st)

(* What a job has fetched.                                                 *)
Fetched(j, f) ==
  /\ j.at \in {"open", "read"} => j.code = "ok"
  /\ j.at = "open" => j.data = << >>
  /\ j.at = "read" => Begins(j.data, f)
  /\ j.at \in {"close", "done", "writing"} /\ j.code = "ok" => j.data = f
  /\ j.at = "writing" => j.code = "ok"

-----------------------------------------------------------------------------
(* The store.                                                              *)

Whole == Range(StartBytes) \cup Range(ClientFiles)

WritesTo(j, ino) == j.at = "writing" /\ j.ino = ino

(* An inode is whole, or in Go one job has truncated it and is about to    *)
(* write it, or it is torn.                                                *)
StoredBytes(js, sd, by, tn) ==
  /\ \A k \in DOMAIN js : js[k].at = "writing" => sd = "go" /\ js[k].ino \in DOMAIN by
  /\ \A ino \in DOMAIN by :
       \/ sd = "go" /\ ino \in tn
       \/ by[ino] \in Whole /\ \A k \in DOMAIN js : ~WritesTo(js[k], ino)
       \/ by[ino] = << >> /\ \E k \in DOMAIN js : \A l \in DOMAIN js : WritesTo(js[l], ino) <=> l = k

(* An open file continues as it was when it was opened.                    *)
Intact(f, sd, by) ==
  /\ sd = "go" => f.ino \in DOMAIN by /\ by[f.ino] = f.data /\ f.size = Len(f.data)
  /\ f.pos <= Len(f.data) /\ Len(f.want) <= Len(f.data)
  /\ Len(f.got) + Len(f.data) = Len(f.want) + f.pos
  /\ \A i \in 1 .. Len(f.want) : f.want[i] = f.data[(Len(f.data) - Len(f.want)) + i]
  /\ \A i \in 1 .. Len(f.got) : f.got[i] = f.want[i]
  /\ f.over => f.pos = Len(f.data)

Kept(f, sd, by) == (sd = "go" /\ f.disturbed) \/ Intact(f, sd, by)

(* The inductive invariant.                                                *)
CallsOK == \A a \in Users : Calls(jobs, a, asks[a], inq[a], lent[a], inv[a], sent[a])

Asked(k) == ClientFiles[sent[k[1]][k[2]].op.name]

FetchedOK == \A k \in DOMAIN jobs : Fetched(jobs[k], Asked(k))

StoredOK == StoredBytes(jobs, side, bytes, torn)

KeptOK == \A a \in Users : \A i \in DOMAIN files[a] : Kept(files[a][i], side, bytes)

ToldOK ==
  \A a \in Users : \A i \in DOMAIN sent[a] :
    sent[a][i].op.svc = "obtain" /\ told[a][i].code = "ok" =>
      told[a][i].data = ClientFiles[sent[a][i].op.name]

FilesInv == FilesTypeOK /\ CallsOK /\ FetchedOK /\ StoredOK /\ KeptOK /\ ToldOK

-----------------------------------------------------------------------------
(* Sequences and numbers.                                                  *)

(***************************************************************************)
(* The elements of a sequence, of what is appended to, and of its tail.    *)
(***************************************************************************)
LEMMA Elements ==
  ASSUME NEW S, NEW s \in Seq(S)
  PROVE  Len(s) \in Nat /\ DOMAIN s = 1 .. Len(s) /\ \A i \in DOMAIN s : i \in Nat /\ s[i] \in S
<1>1. Len(s) \in Nat /\ DOMAIN s = 1 .. Len(s)
  BY LenProperties
<1> QED
  BY <1>1, ElementOfSeq

(* What Append gives.                                                      *)
LEMMA Appended ==
  ASSUME NEW S, NEW s \in Seq(S), NEW e \in S
  PROVE  /\ Append(s, e) \in Seq(S) /\ Len(Append(s, e)) = Len(s) + 1
         /\ DOMAIN Append(s, e) = 1 .. Len(s) + 1 /\ Append(s, e)[Len(s) + 1] = e
         /\ \A i \in DOMAIN s : i \in DOMAIN Append(s, e) /\ Append(s, e)[i] = s[i]
         /\ \A i \in DOMAIN Append(s, e) :
              (i \in DOMAIN s /\ Append(s, e)[i] = s[i]) \/ (i = Len(s) + 1 /\ Append(s, e)[i] = e)
<1> DEFINE t == Append(s, e)
<1>1. Len(s) \in Nat /\ DOMAIN s = 1 .. Len(s)
  BY LenProperties
<1>2. t \in Seq(S) /\ Len(t) = Len(s) + 1 /\ \A i \in 1 .. Len(s) : t[i] = s[i]
  BY AppendProperties
<1>3. t[Len(s) + 1] = e
  BY AppendProperties
<1>4. DOMAIN t = 1 .. Len(s) + 1
  BY <1>2, LenProperties
<1> HIDE DEF t
<1>5. \A i \in DOMAIN t : (i \in DOMAIN s /\ t[i] = s[i]) \/ (i = Len(s) + 1 /\ t[i] = e)
  BY <1>1, <1>2, <1>3, <1>4
<1>6. \A i \in DOMAIN s : i \in DOMAIN t /\ t[i] = s[i]
  BY <1>1, <1>2, <1>4
<1> QED
  BY <1>2, <1>3, <1>4, <1>5, <1>6 DEF t

(* Only the last element is new.                                           *)
LEMMA AppendedLast ==
  ASSUME NEW S, NEW s \in Seq(S), NEW e \in S
  PROVE  \A i, j \in DOMAIN Append(s, e) : i < j => i \in DOMAIN s /\ Append(s, e)[i] = s[i]
<1> DEFINE t == Append(s, e)
<1>1. Len(s) \in Nat /\ DOMAIN s = 1 .. Len(s)
  BY LenProperties
<1>2. DOMAIN t = 1 .. Len(s) + 1 /\ \A i \in 1 .. Len(s) : t[i] = s[i]
  BY <1>1, Appended
<1> HIDE DEF t
<1>3. \A i, j \in DOMAIN t : i < j => i \in DOMAIN s /\ t[i] = s[i]
  BY <1>1, <1>2
<1> QED
  BY <1>3 DEF t

(* What Head and Tail give.                                                *)
LEMMA Tailed ==
  ASSUME NEW S, NEW s \in Seq(S), s # << >>
  PROVE  /\ Len(s) \in Nat \ {0} /\ 1 \in DOMAIN s /\ Head(s) = s[1] /\ Head(s) \in S
         /\ Tail(s) \in Seq(S) /\ DOMAIN Tail(s) = 1 .. Len(s) - 1
         /\ \A i \in DOMAIN Tail(s) : i \in Nat /\ i + 1 \in DOMAIN s /\ Tail(s)[i] = s[i + 1] /\ 1 < i + 1
<1> DEFINE t == Tail(s)
<1>1. Len(s) \in Nat /\ DOMAIN s = 1 .. Len(s) /\ Len(s) # 0
  BY LenProperties, EmptySeq
<1>2. Head(s) \in S /\ t \in Seq(S) /\ Len(t) = Len(s) - 1 /\ \A i \in 1 .. Len(t) : t[i] = s[i + 1]
  BY HeadTailProperties
<1>3. Head(s) = s[1]
  BY <1>1
<1>4. DOMAIN t = 1 .. Len(s) - 1
  BY <1>2, LenProperties
<1> HIDE DEF t
<1>5. \A i \in DOMAIN t : i \in Nat /\ i + 1 \in DOMAIN s /\ t[i] = s[i + 1] /\ 1 < i + 1
  BY <1>1, <1>2, <1>4
<1>6. 1 \in DOMAIN s
  BY <1>1
<1> QED
  BY <1>1, <1>2, <1>3, <1>4, <1>5, <1>6 DEF t

(* A tail keeps the order.                                                 *)
LEMMA TailedOrder ==
  ASSUME NEW S, NEW s \in Seq(S), s # << >>
  PROVE  \A i, j \in DOMAIN Tail(s) : (i < j => i + 1 < j + 1) /\ (i + 1 = j + 1 => i = j)
BY Tailed

(* What is not above v is below its successor.                             *)
LEMMA ReadBelow ==
  ASSUME NEW n \in Nat, NEW v \in Nat, n <= v
  PROVE  n # v + 1 /\ n < v + 1 /\ n <= v + 1
OBVIOUS

(* Numbers that are apart differ.                                          *)
LEMMA Apart ==
  ASSUME NEW m \in Nat, NEW n \in Nat, m < n
  PROVE  m # n
OBVIOUS

-----------------------------------------------------------------------------
(* Steps of the calls, one association at a time.                          *)

SentType == [op : Ops, eager : BOOLEAN]
LentType == [src : FileNames, pos : Nat]

(***************************************************************************)
(* A PDU less: the server has taken the first one.                         *)
(***************************************************************************)
LEMMA PopCalls ==
  ASSUME NEW js, NEW a, NEW cs, NEW q \in Seq(PduType), NEW le, NEW v, NEW st,
         q # << >>, Calls(js, a, cs, q, le, v, st)
  PROVE  Calls(js, a, cs, Tail(q), le, v, st)
<1> DEFINE t == Tail(q)
<1>1. Len(q) \in Nat /\ DOMAIN q = 1 .. Len(q) /\ Len(t) = Len(q) - 1 /\ DOMAIN t = 1 .. Len(t)
  BY HeadTailProperties, LenProperties
<1>2. \A i \in DOMAIN t : i \in Nat /\ i + 1 \in DOMAIN q /\ t[i] = q[i + 1]
  BY <1>1, HeadTailProperties
<1>3. \A i, j \in DOMAIN t : (i < j => i + 1 < j + 1) /\ (i + 1 = j + 1 => i = j)
  BY <1>2
<1> HIDE DEF t
<1>4. RequestsSent(js, a, t, st) /\ RequestsInOrder(t)
  <2>1. RequestsSent(js, a, q, st) /\ RequestsInOrder(q)
    BY DEF Calls
  <2>2. RequestsSent(js, a, t, st)
    BY <1>2, <2>1 DEF RequestsSent
  <2>3. RequestsInOrder(t)
    BY <1>2, <1>3, <2>1 DEF RequestsInOrder
  <2> QED
    BY <2>2, <2>3
<1>5. AnswersFirst(cs, t, v) /\ AnswersInOrder(t)
  <2>1. AnswersFirst(cs, q, v) /\ AnswersInOrder(q)
    BY DEF Calls
  <2>2. AnswersFirst(cs, t, v)
    BY <1>2, <2>1 DEF AnswersFirst, IsAnswer
  <2>3. AnswersInOrder(t)
    BY <1>2, <1>3, <2>1 DEF AnswersInOrder, IsAnswer
  <2> QED
    BY <2>2, <2>3
<1>6. FreshUnread(js, a, cs, t, le) /\ FreshOnce(t)
  <2>1. FreshUnread(js, a, cs, q, le) /\ FreshOnce(q)
    BY DEF Calls
  <2>2. FreshUnread(js, a, cs, t, le)
    BY <1>2, <2>1 DEF FreshUnread, Fresh, IsAnswer
  <2>3. FreshOnce(t)
    BY <1>2, <1>3, <2>1 DEF FreshOnce, Fresh, IsAnswer
  <2> QED
    BY <2>2, <2>3
<1>7. Fits(js, a, cs, t, le, st)
  <2> SUFFICES ASSUME NEW k \in Of(js, a) PROVE FitsJob(js[k], st[k[2]].op.name, cs, t, le)
    BY DEF Fits
  <2> DEFINE j == js[k]
             name == st[k[2]].op.name
  <2>1. FitsJob(j, name, cs, q, le)
    BY DEF Calls, Fits
  <2> HIDE DEF j, name
  <2>2. FitsOpen(j, name, t, le)
    BY <1>2, <2>1 DEF FitsJob, FitsOpen, IsAnswer
  <2>3. FitsRead(j, name, t, le)
    BY <1>2, <2>1 DEF FitsJob, FitsRead, IsAnswer, Endless, Part
  <2>4. FitsJob(j, name, cs, t, le)
    BY <2>1, <2>2, <2>3 DEF FitsJob
  <2> QED
    BY <2>4 DEF j, name
<1> QED
  BY <1>4, <1>5, <1>6, <1>7 DEF Calls, t

(***************************************************************************)
(* The association is lost: no PDU, no call.                               *)
(***************************************************************************)
LEMMA LostCalls ==
  ASSUME NEW js, NEW a, NEW cs, NEW q, NEW le, NEW v, NEW st,
         Calls(js, a, cs, q, le, v, st)
  PROVE  Calls(js, a, << >>, << >>, le, v, st)
<1>1. RequestsSent(js, a, << >>, st) /\ RequestsInOrder(<< >>)
  BY DEF RequestsSent, RequestsInOrder
<1>2. AsksInOrder(<< >>, v) /\ AnswersFirst(<< >>, << >>, v) /\ AnswersInOrder(<< >>)
  BY DEF AsksInOrder, AnswersFirst, AnswersInOrder
<1>3. ReadsLent(<< >>, le) /\ OwnReads(js, a, << >>)
  BY DEF ReadsLent, OwnReads
<1>4. FreshUnread(js, a, << >>, << >>, le) /\ FreshOnce(<< >>)
  BY DEF FreshUnread, FreshOnce
<1>5. \A j, name : FitsAsk(j, name, << >>, le) /\ FitsOpen(j, name, << >>, le) /\ FitsRead(j, name, << >>, le)
  BY DEF FitsAsk, FitsOpen, FitsRead
<1>6. Fits(js, a, << >>, << >>, le, st)
  BY <1>5 DEF Calls, Fits, FitsJob
<1> QED
  BY <1>1, <1>2, <1>3, <1>4, <1>6 DEF Calls

(***************************************************************************)
(* A request more.                                                         *)
(***************************************************************************)
LEMMA SendCalls ==
  ASSUME NEW js, NEW a, NEW cs, NEW q \in Seq(PduType), NEW le, NEW v, NEW st \in Seq(SentType),
         NEW r \in SentType, Calls(js, a, cs, q, le, v, st)
  PROVE  Calls(js, a, cs, Append(q, [kind |-> "request", n |-> Len(st) + 1]), le, v, Append(st, r))
<1> DEFINE p == [kind |-> "request", n |-> Len(st) + 1]
           t == Append(q, p)
           u == Append(st, r)
<1>1. /\ Len(q) \in Nat /\ DOMAIN q = 1 .. Len(q)
      /\ Len(st) \in Nat /\ DOMAIN st = 1 .. Len(st)
  BY LenProperties
<1>2. p \in PduType /\ p.kind = "request" /\ p.n = Len(st) + 1
  BY <1>1 DEF PduType
<1> HIDE DEF p
<1>3. /\ DOMAIN t = 1 .. Len(q) + 1 /\ t[Len(q) + 1] = p
      /\ \A i \in 1 .. Len(q) : t[i] = q[i]
  BY <1>1, <1>2, AppendProperties, LenProperties
<1>4. DOMAIN u = 1 .. Len(st) + 1 /\ \A i \in DOMAIN st : u[i] = st[i]
  BY <1>1, AppendProperties, LenProperties
<1> HIDE DEF t, u
<1>5. \A i \in DOMAIN t : (i \in DOMAIN q /\ t[i] = q[i]) \/ (i = Len(q) + 1 /\ t[i] = p)
  BY <1>1, <1>3
<1>6. \A k \in Of(js, a) : k[2] \in DOMAIN st /\ u[k[2]] = st[k[2]] /\ st[k[2]].op.svc = "obtain"
  BY <1>4 DEF Calls, JobsSent
<1>7. JobsSent(js, a, u)
  BY <1>1, <1>4, <1>6 DEF JobsSent
<1>8. RequestsSent(js, a, t, u)
  <2>1. RequestsSent(js, a, q, st)
    BY DEF Calls
  <2> SUFFICES ASSUME NEW i \in DOMAIN t, t[i].kind = "request"
               PROVE  t[i].n \in DOMAIN u /\ \A k \in Of(js, a) : k[2] < t[i].n
    BY DEF RequestsSent
  <2>2. CASE i \in DOMAIN q /\ t[i] = q[i]
    BY <1>1, <1>4, <2>1, <2>2 DEF RequestsSent
  <2>3. CASE t[i] = p
    BY <1>1, <1>2, <1>4, <1>6, <2>3
  <2> QED
    BY <1>5, <2>2, <2>3
<1>9. RequestsInOrder(t)
  <2> SUFFICES ASSUME NEW i \in DOMAIN t, NEW j \in DOMAIN t, i < j,
                      t[i].kind = "request", t[j].kind = "request"
               PROVE  t[i].n < t[j].n
    BY DEF RequestsInOrder
  <2>1. i \in DOMAIN q /\ t[i] = q[i]
    BY <1>1, <1>3
  <2>2. q[i].n \in 1 .. Len(st)
    BY <1>1, <2>1 DEF Calls, RequestsSent
  <2>3. CASE j \in DOMAIN q /\ t[j] = q[j]
    BY <2>1, <2>3 DEF Calls, RequestsInOrder
  <2>4. CASE t[j] = p
    BY <1>1, <1>2, <2>1, <2>2, <2>4
  <2> QED
    BY <1>5, <2>3, <2>4
<1>10. \A i \in DOMAIN t : IsAnswer(t[i]) => i \in DOMAIN q /\ t[i] = q[i]
  BY <1>2, <1>5 DEF IsAnswer
<1>11. AnswersFirst(cs, t, v)
  BY <1>10 DEF Calls, AnswersFirst, IsAnswer
<1>12. AnswersInOrder(t)
  BY <1>10 DEF Calls, AnswersInOrder, IsAnswer
<1>13. FreshUnread(js, a, cs, t, le)
  BY <1>10 DEF Calls, FreshUnread, Fresh, IsAnswer
<1>14. FreshOnce(t)
  BY <1>10 DEF Calls, FreshOnce, Fresh, IsAnswer
<1>15. Fits(js, a, cs, t, le, u)
  <2> SUFFICES ASSUME NEW k \in Of(js, a) PROVE FitsJob(js[k], u[k[2]].op.name, cs, t, le)
    BY DEF Fits
  <2> DEFINE j == js[k]
             name == st[k[2]].op.name
  <2>1. FitsJob(j, name, cs, q, le) /\ u[k[2]].op.name = name
    BY <1>6 DEF Calls, Fits
  <2> HIDE DEF j, name
  <2>2. FitsOpen(j, name, t, le)
    BY <1>10, <2>1 DEF FitsJob, FitsOpen, IsAnswer
  <2>3. FitsRead(j, name, t, le)
    BY <1>10, <2>1 DEF FitsJob, FitsRead, IsAnswer, Endless, Part
  <2>4. FitsJob(j, name, cs, t, le)
    BY <2>1, <2>2, <2>3 DEF FitsJob
  <2> QED
    BY <2>1, <2>4 DEF j, name
<1> QED
  BY <1>7, <1>8, <1>9, <1>11, <1>12, <1>13, <1>14, <1>15 DEF Calls, t, u, p

(***************************************************************************)
(* Jobs end, or stop waiting for an answer; those of other associations    *)
(* change in any way.                                                      *)
(***************************************************************************)
LEMMA LessCalls ==
  ASSUME NEW js, NEW jt, NEW a, NEW cs, NEW q, NEW le, NEW v, NEW st,
         Calls(js, a, cs, q, le, v, st),
         \A k \in Of(jt, a) : k \in Of(js, a) /\ (jt[k] = js[k] \/ ~Waits(jt[k]))
  PROVE  Calls(jt, a, cs, q, le, v, st)
<1>1. \A k \in Of(jt, a) : k \in Of(js, a)
  OBVIOUS
<1>2. \A k \in Of(jt, a) : jt[k].at \in {"open", "read", "close"} => jt[k] = js[k]
  BY DEF Waits
<1>3. JobsSent(jt, a, st) /\ RequestsSent(jt, a, q, st)
  BY <1>1 DEF Calls, JobsSent, RequestsSent
<1>4. JobsInvs(jt, a, v)
  BY <1>1, <1>2 DEF Calls, JobsInvs, Waits
<1>5. JobsApart(jt, a)
  BY <1>1, <1>2 DEF Calls, JobsApart
<1>6. OwnReads(jt, a, cs)
  BY <1>1, <1>2 DEF Calls, OwnReads
<1>7. FreshUnread(jt, a, cs, q, le)
  BY <1>1, <1>2 DEF Calls, FreshUnread, Fresh, IsAnswer
<1>8. Fits(jt, a, cs, q, le, st)
  <2> SUFFICES ASSUME NEW k \in Of(jt, a) PROVE FitsJob(jt[k], st[k[2]].op.name, cs, q, le)
    BY DEF Fits
  <2>1. CASE jt[k] = js[k]
    <3>1. FitsJob(js[k], st[k[2]].op.name, cs, q, le)
      BY <1>1 DEF Calls, Fits
    <3> QED
      BY <2>1, <3>1
  <2>2. CASE ~Waits(jt[k])
    BY <2>2 DEF FitsJob, FitsAsk, FitsLent, FitsOpen, FitsRead, Waits
  <2> QED
    BY <2>1, <2>2
<1> QED
  BY <1>3, <1>4, <1>5, <1>6, <1>7, <1>8 DEF Calls

(* Nobody but job k reads the file that j reads, and the client is where   *)
(* the data of j ends.                                                     *)
ReadsAlone(k, j, name, js, a, cs, q, le) ==
  /\ j.id \in DOMAIN le /\ le[j.id].src = name /\ le[j.id].pos = Len(j.data)
  /\ \A l \in Of(js, a) : l # k /\ js[l].at = "read" => js[l].id # j.id
  /\ \A i \in DOMAIN cs : cs[i].svc = "read" => cs[i].id # j.id
  /\ \A i \in DOMAIN q : Fresh(q[i]) => q[i].res.id # j.id

(***************************************************************************)
(* The calls are as they were, or c is the last one.                       *)
(***************************************************************************)
LEMMA AskedOnce ==
  ASSUME NEW cs \in Seq(AskType), NEW c \in AskType, NEW bs, bs = cs \/ bs = Append(cs, c)
  PROVE  /\ \A i \in DOMAIN bs : (i \in DOMAIN cs /\ bs[i] = cs[i]) \/ (i = Len(cs) + 1 /\ bs[i] = c)
         /\ \A i, j \in DOMAIN bs : i < j => i \in DOMAIN cs /\ bs[i] = cs[i]
<1>1. CASE bs = cs
  BY <1>1
<1>2. CASE bs = Append(cs, c)
  <2>1. Len(cs) \in Nat /\ DOMAIN cs = 1 .. Len(cs)
    BY Elements
  <2>2. DOMAIN bs = 1 .. Len(cs) + 1 /\ bs[Len(cs) + 1] = c /\ \A i \in DOMAIN cs : bs[i] = cs[i]
    BY <1>2, Appended
  <2>3. \A i \in DOMAIN bs : i \in DOMAIN cs \/ i = Len(cs) + 1
    BY <2>1, <2>2
  <2>4. \A i, j \in DOMAIN bs : i < j => i # Len(cs) + 1
    BY <2>1, <2>2
  <2> QED
    BY <2>2, <2>3, <2>4
<1> QED
  BY <1>1, <1>2

(* Job k of the jobs js calls its client, which may have lost the call.    *)
AsksNow(js, jt, a, cs, bs, q, le, v, st, k, name) ==
  /\ js \in [DOMAIN js -> JobType] /\ Calls(js, a, cs, q, le, v, st)
  /\ k[2] \in DOMAIN st /\ st[k[2]].op.svc = "obtain" /\ name = st[k[2]].op.name
  /\ \A i \in DOMAIN q : q[i].kind = "request" => k[2] < q[i].n
  /\ \A l \in Of(jt, a) : l = k \/ (l \in Of(js, a) /\ jt[l] = js[l])
  /\ jt[k] \in JobType /\ jt[k].at \in {"open", "read", "close"} /\ jt[k].inv = v + 1
  /\ bs = cs \/ bs = Append(cs, [inv |-> v + 1, svc |-> jt[k].at, id |-> jt[k].id, src |-> name])
  /\ jt[k].at = "read" => ReadsAlone(k, jt[k], name, js, a, cs, q, le)

(***************************************************************************)
(* Job k makes a call, with a new invoke id.                               *)
(***************************************************************************)
LEMMA AskCalls ==
  ASSUME NEW js, NEW jt, NEW a, NEW cs \in Seq(AskType), NEW bs, NEW q \in Seq(PduType),
         NEW le \in Seq(LentType), NEW v \in Nat, NEW st \in Seq(SentType), NEW k, NEW name,
         AsksNow(js, jt, a, cs, bs, q, le, v, st, k, name)
  PROVE  Calls(jt, a, bs, q, le, v + 1, st)
<1>00. /\ js \in [DOMAIN js -> JobType] /\ Calls(js, a, cs, q, le, v, st)
       /\ k[2] \in DOMAIN st /\ st[k[2]].op.svc = "obtain" /\ name = st[k[2]].op.name
       /\ \A i \in DOMAIN q : q[i].kind = "request" => k[2] < q[i].n
       /\ \A l \in Of(jt, a) : l = k \/ (l \in Of(js, a) /\ jt[l] = js[l])
       /\ jt[k] \in JobType /\ jt[k].at \in {"open", "read", "close"} /\ jt[k].inv = v + 1
       /\ bs = cs \/ bs = Append(cs, [inv |-> v + 1, svc |-> jt[k].at, id |-> jt[k].id, src |-> name])
       /\ jt[k].at = "read" => ReadsAlone(k, jt[k], name, js, a, cs, q, le)
  BY DEF AsksNow
<1> USE <1>00
<1> DEFINE j == jt[k]
           c == [inv |-> v + 1, svc |-> j.at, id |-> j.id, src |-> name]
<1>1. name \in FileNames
  <2>1. st[k[2]] \in SentType
    BY ElementOfSeq, LenProperties
  <2>2. st[k[2]].op \in Ops
    BY <2>1 DEF SentType
  <2> QED
    BY <2>2, FilesAssumption DEF FileNames
<1>2. c \in AskType
  BY <1>1 DEF AskType, JobType
<1>3. c.inv = v + 1 /\ c.svc = j.at /\ c.id = j.id /\ c.src = name
  OBVIOUS
<1>4. Len(cs) \in Nat /\ DOMAIN cs = 1 .. Len(cs)
  BY LenProperties
<1>5. \A i \in DOMAIN cs : cs[i].inv \in Nat /\ cs[i].inv <= v
  <2>1. \A i \in DOMAIN cs : cs[i] \in AskType
    BY <1>4, ElementOfSeq
  <2>2. AsksInOrder(cs, v)
    BY DEF Calls
  <2> QED
    BY <2>1, <2>2 DEF AskType, AsksInOrder
<1>0. bs = cs \/ bs = Append(cs, c)
  OBVIOUS
<1> HIDE DEF c
<1>6. \A i \in DOMAIN bs : (i \in DOMAIN cs /\ bs[i] = cs[i]) \/ (i = Len(cs) + 1 /\ bs[i] = c)
  <2> SUFFICES ASSUME NEW i \in DOMAIN bs, ~(i \in DOMAIN cs /\ bs[i] = cs[i])
               PROVE  i = Len(cs) + 1 /\ bs[i] = c
    OBVIOUS
  <2> HIDE <1>00
  <2> QED
    BY <1>0, <1>2, AskedOnce
<1>7. \A i, i2 \in DOMAIN bs : i < i2 => i \in DOMAIN cs /\ bs[i] = cs[i]
  BY <1>0, <1>2, AskedOnce, Zenon
<1>8. \A l \in Of(js, a) : Waits(js[l]) => js[l].inv # v + 1 /\ js[l].inv <= v + 1
  <2>1. \A l \in Of(js, a) : js[l].inv \in Nat
    BY DEF JobType, Of
  <2>2. \A l \in Of(js, a) : Waits(js[l]) => js[l].inv <= v
    BY DEF Calls, JobsInvs, Waits
  <2> QED
    BY <2>1, <2>2, ReadBelow DEF Waits
<1>9. \A i \in DOMAIN q : IsAnswer(q[i]) => q[i].inv # v + 1 /\ q[i].inv <= v + 1 /\ q[i].inv < v + 1
  <2>1. \A i \in DOMAIN q : q[i] \in PduType
    BY ElementOfSeq, LenProperties
  <2>2. \A i \in DOMAIN q : IsAnswer(q[i]) => q[i].inv \in Nat
    BY <2>1 DEF PduType, IsAnswer
  <2>3. \A i \in DOMAIN q : IsAnswer(q[i]) => q[i].inv <= v
    BY DEF Calls, AnswersFirst, IsAnswer
  <2> QED
    BY <2>2, <2>3, ReadBelow DEF IsAnswer
<1>10. \A i \in DOMAIN cs : cs[i].inv # v + 1 /\ cs[i].inv <= v + 1 /\ cs[i].inv < v + 1
  BY <1>5, ReadBelow
<1>11. JobsSent(jt, a, st) /\ RequestsSent(jt, a, q, st)
  BY DEF Calls, JobsSent, RequestsSent
<1>12. AsksInOrder(bs, v + 1)
  <2>1. \A i \in DOMAIN bs : bs[i].inv <= v + 1
    <3>1. v + 1 <= v + 1
      OBVIOUS
    <3> QED
      BY <1>3, <1>6, <1>10, <3>1
  <2> SUFFICES ASSUME NEW i \in DOMAIN bs, NEW i2 \in DOMAIN bs, i < i2 PROVE bs[i].inv < bs[i2].inv
    BY <2>1 DEF AsksInOrder
  <2>2. i \in DOMAIN cs /\ bs[i] = cs[i]
    BY <1>7
  <2>3. CASE i2 \in DOMAIN cs /\ bs[i2] = cs[i2]
    BY <2>2, <2>3 DEF Calls, AsksInOrder
  <2>4. CASE bs[i2] = c
    BY <1>3, <1>10, <2>2, <2>4
  <2> QED
    BY <1>6, <2>3, <2>4
<1>13. AnswersFirst(bs, q, v + 1)
  <2> SUFFICES ASSUME NEW i \in DOMAIN q, IsAnswer(q[i]), NEW i2 \in DOMAIN bs PROVE q[i].inv < bs[i2].inv
    BY <1>9 DEF AnswersFirst, IsAnswer
  <2>1. CASE i2 \in DOMAIN cs /\ bs[i2] = cs[i2]
    BY <2>1 DEF Calls, AnswersFirst, IsAnswer
  <2>2. CASE bs[i2] = c
    BY <1>3, <1>9, <2>2
  <2> QED
    BY <1>6, <2>1, <2>2
<1>14. JobsInvs(jt, a, v + 1)
  <2>1. \A l \in Of(jt, a) : Waits(jt[l]) => jt[l].inv <= v + 1
    <3> SUFFICES ASSUME NEW l \in Of(jt, a), Waits(jt[l]) PROVE jt[l].inv <= v + 1
      OBVIOUS
    <3>1. CASE l = k
      <4>1. jt[l].inv = v + 1 /\ v + 1 <= v + 1
        BY <3>1
      <4> QED
        BY <4>1
    <3>2. CASE l \in Of(js, a) /\ jt[l] = js[l]
      BY <1>8, <3>2
    <3> QED
      BY <3>1, <3>2
  <2> SUFFICES ASSUME NEW l \in Of(jt, a), NEW m \in Of(jt, a),
                      Waits(jt[l]), Waits(jt[m]), jt[l].inv = jt[m].inv, l # k
               PROVE  l = m
    BY <2>1 DEF JobsInvs, Waits
  <2>2. m # k
    BY <1>8
  <2> QED
    BY <2>2 DEF Calls, JobsInvs, Waits
<1>15. ReadsLent(bs, le)
  BY <1>3, <1>6 DEF Calls, ReadsLent, ReadsAlone
<1>16. JobsApart(jt, a)
  BY DEF Calls, JobsApart, ReadsAlone
<1>17. OwnReads(jt, a, bs)
  <2> SUFFICES ASSUME NEW l \in Of(jt, a), NEW i \in DOMAIN bs,
                      jt[l].at = "read", bs[i].svc = "read", bs[i].id = jt[l].id
               PROVE  bs[i].inv = jt[l].inv
    BY DEF OwnReads
  <2>1. CASE bs[i] = c
    BY <1>3, <2>1 DEF ReadsAlone
  <2>2. CASE i \in DOMAIN cs /\ bs[i] = cs[i]
    BY <2>2 DEF Calls, OwnReads, ReadsAlone
  <2> QED
    BY <1>6, <2>1, <2>2
<1>18. FreshUnread(jt, a, bs, q, le)
  <2> SUFFICES ASSUME NEW i \in DOMAIN q, Fresh(q[i])
               PROVE  /\ q[i].res.id \in DOMAIN le
                      /\ \A l \in Of(jt, a) : jt[l].at = "read" => jt[l].id # q[i].res.id
                      /\ \A i2 \in DOMAIN bs : bs[i2].svc = "read" => bs[i2].id # q[i].res.id
    BY DEF FreshUnread
  <2>1. /\ q[i].res.id \in DOMAIN le
        /\ \A l \in Of(js, a) : js[l].at = "read" => js[l].id # q[i].res.id
        /\ \A i2 \in DOMAIN cs : cs[i2].svc = "read" => cs[i2].id # q[i].res.id
    BY DEF Calls, FreshUnread, Fresh, IsAnswer
  <2>2. j.at = "read" => j.id # q[i].res.id
    BY DEF ReadsAlone, Fresh, IsAnswer
  <2> QED
    BY <1>3, <1>6, <2>1, <2>2
<1>19. Fits(jt, a, bs, q, le, st)
  <2> SUFFICES ASSUME NEW l \in Of(jt, a) PROVE FitsJob(jt[l], st[l[2]].op.name, bs, q, le)
    BY DEF Fits
  <2>1. CASE l = k
    <3>1. \A i \in DOMAIN bs : bs[i].inv = j.inv => bs[i] = c
      BY <1>3, <1>6, <1>10
    <3>2. FitsAsk(j, name, bs, le)
      BY <1>3, <3>1 DEF FitsAsk, ReadsAlone
    <3>3. FitsLent(j, name, le)
      BY DEF FitsLent, ReadsAlone
    <3>4. FitsOpen(j, name, q, le) /\ FitsRead(j, name, q, le)
      BY <1>9 DEF FitsOpen, FitsRead, IsAnswer
    <3> QED
      BY <2>1, <3>2, <3>3, <3>4 DEF FitsJob
  <2>2. CASE l # k
    <3>1. l \in Of(js, a) /\ jt[l] = js[l] /\ FitsJob(js[l], st[l[2]].op.name, cs, q, le)
      BY <2>2 DEF Calls, Fits
    <3>2. \A i \in DOMAIN bs : Waits(js[l]) /\ bs[i].inv = js[l].inv => i \in DOMAIN cs /\ bs[i] = cs[i]
      BY <1>3, <1>6, <1>8, <3>1 DEF Waits
    <3>3. FitsAsk(js[l], st[l[2]].op.name, bs, le)
      BY <3>1, <3>2 DEF FitsJob, FitsAsk, Waits
    <3> QED
      BY <3>1, <3>3 DEF FitsJob
  <2> QED
    BY <2>1, <2>2
<1> QED
  BY <1>11, <1>12, <1>13, <1>14, <1>15, <1>16, <1>17, <1>18, <1>19 DEF Calls

(***************************************************************************)
(* The client answers a call c with r: FileOpen opens a file nobody has,   *)
(* FileRead moves on in the file it reads and in no other.                 *)
(***************************************************************************)
KeepsLent(c, le, lt) ==
  \A id \in DOMAIN le :
    /\ id \in DOMAIN lt /\ lt[id].src = le[id].src
    /\ lt[id].pos = le[id].pos \/ (c.svc = "read" /\ id = c.id)

Answered(c, r, le, lt) ==
  /\ KeepsLent(c, le, lt)
  /\ r.code = "ok" /\ r.id # 0 =>
       /\ c.svc = "open" /\ r.id \in DOMAIN lt /\ r.id \notin DOMAIN le
       /\ lt[r.id].src = c.src /\ lt[r.id].pos = 0
  /\ r.code = "ok" /\ c.svc = "open" => r.id # 0
  /\ r.code = "ok" /\ c.svc = "read" =>
       \/ Endless(r)
       \/ /\ Part(r, ClientFiles[le[c.id].src], le[c.id].pos)
          /\ lt[c.id].pos = le[c.id].pos + 1

(* The calls that are left, and their order.                               *)
LEMMA TailedAsks ==
  ASSUME NEW cs \in Seq(AskType), cs # << >>
  PROVE  /\ \A i \in DOMAIN Tail(cs) : i + 1 \in DOMAIN cs /\ Tail(cs)[i] = cs[i + 1] /\ 1 < i + 1
         /\ \A i, j \in DOMAIN Tail(cs) : i < j => i + 1 < j + 1
BY Tailed, TailedOrder

(***************************************************************************)
(* The oldest call is answered.                                            *)
(***************************************************************************)
LEMMA AnswerCalls ==
  ASSUME NEW js, NEW a, NEW cs \in Seq(AskType), NEW q \in Seq(PduType), NEW le \in Seq(LentType),
         NEW lt \in Seq(LentType), NEW v \in Nat, NEW st, NEW c, NEW r \in ResType,
         Calls(js, a, cs, q, le, v, st), cs # << >>, c = Head(cs), Answered(c, r, le, lt)
  PROVE  Calls(js, a, Tail(cs), Append(q, [kind |-> "answer", inv |-> c.inv, res |-> r]), lt, v, st)
<1> DEFINE p == [kind |-> "answer", inv |-> c.inv, res |-> r]
           bs == Tail(cs)
           t == Append(q, p)
<1>1. c = cs[1] /\ 1 \in DOMAIN cs
  BY Tailed
<1>2. \A i \in DOMAIN cs : cs[i] \in AskType /\ cs[i].inv \in Nat
  <2>1. \A i \in DOMAIN cs : cs[i] \in AskType
    BY Elements
  <2> QED
    BY <2>1 DEF AskType
<1>3. p \in PduType /\ p.kind = "answer" /\ p.inv = c.inv /\ p.res = r
  BY <1>1, <1>2 DEF PduType
<1>4. Len(q) \in Nat /\ DOMAIN q = 1 .. Len(q)
  BY LenProperties
<1> HIDE DEF p
<1>5. DOMAIN t = 1 .. Len(q) + 1 /\ \A i \in DOMAIN t : (i \in DOMAIN q /\ t[i] = q[i]) \/ (i = Len(q) + 1 /\ t[i] = p)
  BY <1>3, Appended
<1>6. \A i, j \in DOMAIN t : i < j => i \in DOMAIN q /\ t[i] = q[i]
  <2>1. q \in Seq(PduType) /\ p \in PduType
    BY <1>3
  <2>2. \A i, j \in DOMAIN Append(q, p) : i < j => i \in DOMAIN q /\ Append(q, p)[i] = q[i]
    BY <2>1, AppendedLast
  <2> QED
    BY <2>2
<1>7. \A i \in DOMAIN bs : i + 1 \in DOMAIN cs /\ bs[i] = cs[i + 1] /\ 1 < i + 1
  BY TailedAsks
<1>8. \A i, j \in DOMAIN bs : i < j => i + 1 < j + 1
  BY TailedAsks
<1> HIDE DEF bs, t
<1>9. \A i \in DOMAIN bs : c.inv < bs[i].inv /\ c.inv # bs[i].inv
  <2>1. \A i \in DOMAIN bs : c.inv < bs[i].inv
    BY <1>1, <1>7 DEF Calls, AsksInOrder
  <2> QED
    BY <1>1, <1>2, <1>7, <2>1, Apart
<1>10. \A i \in DOMAIN q : q[i].kind = "answer" => q[i].inv < c.inv /\ q[i].inv # c.inv
  <2>1. \A i \in DOMAIN q : q[i] \in PduType
    BY <1>4, ElementOfSeq
  <2>2. \A i \in DOMAIN q : q[i].kind = "answer" => q[i].inv \in Nat
    BY <2>1 DEF PduType
  <2>3. \A i \in DOMAIN q : q[i].kind = "answer" => q[i].inv < c.inv
    BY <1>1 DEF Calls, AnswersFirst, IsAnswer
  <2> QED
    BY <1>1, <1>2, <2>2, <2>3, Apart
<1>11. c.inv <= v
  BY <1>1 DEF Calls, AsksInOrder
<1>12. RequestsSent(js, a, t, st)
  BY <1>3, <1>5 DEF Calls, RequestsSent
<1>13. RequestsInOrder(t)
  BY <1>3, <1>5 DEF Calls, RequestsInOrder
<1>14. AsksInOrder(bs, v)
  BY <1>7, <1>8 DEF Calls, AsksInOrder
<1>15. AnswersFirst(bs, t, v)
  <2> SUFFICES ASSUME NEW i \in DOMAIN t, t[i].kind = "answer"
               PROVE  t[i].inv <= v /\ \A j \in DOMAIN bs : t[i].inv < bs[j].inv
    BY DEF AnswersFirst, IsAnswer
  <2>1. CASE i \in DOMAIN q /\ t[i] = q[i]
    BY <1>7, <2>1 DEF Calls, AnswersFirst, IsAnswer
  <2>2. CASE t[i] = p
    BY <1>3, <1>9, <1>11, <2>2
  <2> QED
    BY <1>5, <2>1, <2>2
<1>16. AnswersInOrder(t)
  <2> SUFFICES ASSUME NEW i \in DOMAIN t, NEW j \in DOMAIN t, i < j, t[i].kind = "answer", t[j].kind = "answer"
               PROVE  t[i].inv < t[j].inv
    BY DEF AnswersInOrder, IsAnswer
  <2>1. CASE j \in DOMAIN q /\ t[j] = q[j]
    BY <1>6, <2>1 DEF Calls, AnswersInOrder, IsAnswer
  <2>2. CASE t[j] = p
    BY <1>3, <1>6, <1>10, <2>2
  <2> QED
    BY <1>5, <2>1, <2>2
<1>17. ReadsLent(bs, lt)
  BY <1>7 DEF Calls, ReadsLent, Answered, KeepsLent
<1>18. OwnReads(js, a, bs)
  BY <1>7 DEF Calls, OwnReads
<1>19. \A i \in DOMAIN q : Fresh(q[i]) =>
         /\ q[i].res.id \in DOMAIN le
         /\ \A k \in Of(js, a) : js[k].at = "read" => js[k].id # q[i].res.id
         /\ \A j \in DOMAIN cs : cs[j].svc = "read" => cs[j].id # q[i].res.id
  BY DEF Calls, FreshUnread
<1>20. Fresh(p) => r.id \in DOMAIN lt /\ r.id \notin DOMAIN le
  BY <1>3 DEF Fresh, Answered
<1>21. FreshUnread(js, a, bs, t, lt)
  <2> SUFFICES ASSUME NEW i \in DOMAIN t, Fresh(t[i])
               PROVE  /\ t[i].res.id \in DOMAIN lt
                      /\ \A k \in Of(js, a) : js[k].at = "read" => js[k].id # t[i].res.id
                      /\ \A j \in DOMAIN bs : bs[j].svc = "read" => bs[j].id # t[i].res.id
    BY DEF FreshUnread
  <2>1. CASE i \in DOMAIN q /\ t[i] = q[i]
    <3>1. Fresh(q[i])
      BY <2>1
    <3> QED
      BY <1>7, <1>19, <2>1, <3>1 DEF Answered, KeepsLent
  <2>2. CASE t[i] = p
    <3>1. t[i].res.id \in DOMAIN lt /\ t[i].res.id \notin DOMAIN le
      BY <1>3, <1>20, <2>2
    <3>2. \A k \in Of(js, a) : js[k].at = "read" => js[k].id \in DOMAIN le
      BY DEF Calls, Fits, FitsJob, FitsLent
    <3>3. \A j \in DOMAIN bs : bs[j].svc = "read" => bs[j].id \in DOMAIN le
      BY <1>7 DEF Calls, ReadsLent
    <3> QED
      BY <3>1, <3>2, <3>3
  <2> QED
    BY <1>5, <2>1, <2>2
<1>22. FreshOnce(t)
  <2> SUFFICES ASSUME NEW i \in DOMAIN t, NEW j \in DOMAIN t, Fresh(t[i]), Fresh(t[j]),
                      t[j].res.id = t[i].res.id
               PROVE  i = j
    BY DEF FreshOnce
  <2>1. CASE t[i] = q[i] /\ i \in DOMAIN q /\ t[j] = q[j] /\ j \in DOMAIN q
    <3>1. Fresh(q[i]) /\ Fresh(q[j])
      BY <2>1
    <3>2. FreshOnce(q)
      BY DEF Calls
    <3> QED
      BY <2>1, <3>1, <3>2 DEF FreshOnce
  <2>2. CASE t[i] = q[i] /\ i \in DOMAIN q /\ t[j] = p
    <3>1. Fresh(q[i]) /\ Fresh(p)
      BY <2>2
    <3> QED
      BY <1>3, <1>19, <1>20, <2>2, <3>1
  <2>3. CASE t[i] = p /\ t[j] = q[j] /\ j \in DOMAIN q
    <3>1. Fresh(q[j]) /\ Fresh(p)
      BY <2>3
    <3> QED
      BY <1>3, <1>19, <1>20, <2>3, <3>1
  <2>4. CASE i = Len(q) + 1 /\ j = Len(q) + 1
    BY <2>4
  <2> QED
    BY <1>5, <2>1, <2>2, <2>3, <2>4
<1>23. Fits(js, a, bs, t, lt, st)
  <2> SUFFICES ASSUME NEW k \in Of(js, a) PROVE FitsJob(js[k], st[k[2]].op.name, bs, t, lt)
    BY DEF Fits
  <2> DEFINE j == js[k]
             name == st[k[2]].op.name
  <2>1. /\ FitsAsk(j, name, cs, le) /\ FitsLent(j, name, le)
        /\ FitsOpen(j, name, q, le) /\ FitsRead(j, name, q, le)
    BY DEF Calls, Fits, FitsJob
  <2>2. j.at = "read" /\ c.svc = "read" /\ c.id = j.id => c.inv = j.inv
    <3>1. OwnReads(js, a, cs)
      BY DEF Calls
    <3>2. js[k].at = "read" /\ cs[1].svc = "read" /\ cs[1].id = js[k].id => cs[1].inv = js[k].inv
      BY <1>1, <3>1, Zenon DEF OwnReads
    <3> QED
      BY <1>1, <3>2
  <2> HIDE DEF j, name
  <2>3. j.at = "read" => j.id \in DOMAIN le /\ j.id \in DOMAIN lt /\ lt[j.id].src = name /\ le[j.id].src = name
    BY <2>1 DEF FitsLent, Answered, KeepsLent
  <2>4. FitsLent(j, name, lt)
    BY <2>3 DEF FitsLent
  <2>5. FitsAsk(j, name, bs, lt)
    <3> SUFFICES ASSUME NEW i \in DOMAIN bs, Waits(j), bs[i].inv = j.inv
                 PROVE  /\ bs[i].svc = j.at /\ bs[i].src = name /\ bs[i].id = j.id
                        /\ j.at = "read" => lt[j.id].pos = Len(j.data)
      BY DEF FitsAsk
    <3>1. /\ bs[i].svc = j.at /\ bs[i].src = name /\ bs[i].id = j.id
          /\ j.at = "read" => le[j.id].pos = Len(j.data)
      BY <1>7, <2>1 DEF FitsAsk, Waits
    <3>2. j.at = "read" => ~(c.svc = "read" /\ j.id = c.id)
      BY <1>9, <2>2
    <3>3. j.at = "read" => lt[j.id].pos = le[j.id].pos
      BY <2>3, <3>2 DEF Answered, KeepsLent
    <3> QED
      BY <3>1, <3>3
  <2>6. FitsOpen(j, name, t, lt)
    <3> SUFFICES ASSUME j.at = "open", NEW i \in DOMAIN t, t[i].kind = "answer", t[i].inv = j.inv,
                        t[i].res.code = "ok"
                 PROVE  /\ t[i].res.id \in DOMAIN lt /\ t[i].res.id # 0
                        /\ lt[t[i].res.id].src = name /\ lt[t[i].res.id].pos = 0
      BY DEF FitsOpen, IsAnswer
    <3>1. CASE i \in DOMAIN q /\ t[i] = q[i]
      <4>1. /\ q[i].res.id \in DOMAIN le /\ q[i].res.id # 0
            /\ le[q[i].res.id].src = name /\ le[q[i].res.id].pos = 0
        BY <2>1, <3>1 DEF FitsOpen, IsAnswer
      <4>2. Fresh(q[i])
        BY <3>1, <4>1 DEF Fresh, IsAnswer
      <4>3. c.svc = "read" => c.id # q[i].res.id
        BY <1>1, <1>19, <3>1, <4>2
      <4> QED
        BY <3>1, <4>1, <4>3 DEF Answered, KeepsLent
    <3>2. CASE t[i] = p
      <4>1. c.svc = "open" /\ c.src = name
        BY <1>1, <1>3, <2>1, <3>2 DEF FitsAsk, Waits
      <4> QED
        BY <1>3, <3>2, <4>1 DEF Answered
    <3> QED
      BY <1>5, <3>1, <3>2
  <2>7. FitsRead(j, name, t, lt)
    <3> SUFFICES ASSUME j.at = "read", NEW i \in DOMAIN t, t[i].kind = "answer", t[i].inv = j.inv,
                        t[i].res.code = "ok"
                 PROVE  \/ Endless(t[i].res)
                        \/ /\ Part(t[i].res, ClientFiles[name], Len(j.data))
                           /\ lt[j.id].pos = Len(j.data) + 1
      BY DEF FitsRead, IsAnswer
    <3>1. CASE i \in DOMAIN q /\ t[i] = q[i]
      <4>1. ~(c.svc = "read" /\ c.id = j.id)
        BY <1>10, <2>2, <3>1
      <4>2. lt[j.id].pos = le[j.id].pos
        BY <2>3, <4>1 DEF Answered, KeepsLent
      <4>3. \/ Endless(q[i].res)
            \/ /\ Part(q[i].res, ClientFiles[name], Len(j.data))
               /\ le[j.id].pos = Len(j.data) + 1
        BY <2>1, <3>1 DEF FitsRead, IsAnswer
      <4> QED
        BY <3>1, <4>2, <4>3
    <3>2. CASE t[i] = p
      <4>1. c.svc = "read" /\ c.id = j.id /\ le[j.id].pos = Len(j.data)
        BY <1>1, <1>3, <2>1, <3>2 DEF FitsAsk, Waits
      <4>2. le[c.id].src = name
        BY <2>3, <4>1
      <4> QED
        BY <1>3, <3>2, <4>1, <4>2 DEF Answered
    <3> QED
      BY <1>5, <3>1, <3>2
  <2>8. FitsJob(j, name, bs, t, lt)
    BY <2>4, <2>5, <2>6, <2>7 DEF FitsJob
  <2> QED
    BY <2>8 DEF j, name
<1> QED
  BY <1>12, <1>13, <1>14, <1>15, <1>16, <1>17, <1>18, <1>21, <1>22, <1>23 DEF Calls, bs, t, p

-----------------------------------------------------------------------------
(* Data.                                                                   *)

(***************************************************************************)
(* The bytes a FileRead answers continue the data fetched so far, and the  *)
(* last ones complete it.                                                  *)
(***************************************************************************)
LEMMA PartFetched ==
  ASSUME NEW d \in Seq(Byte), NEW f \in Seq(Byte), NEW r \in ResType, Begins(d, f), Part(r, f, Len(d))
  PROVE  /\ d \o r.chunk \in Seq(Byte)
         /\ r.more => Begins(d \o r.chunk, f) /\ Len(d \o r.chunk) = Len(d) + 1
         /\ ~r.more => d \o r.chunk = f
<1> DEFINE e == d \o r.chunk
<1>1. r.chunk \in Seq(Byte)
  BY DEF ResType
<1>2. /\ e \in Seq(Byte) /\ Len(e) = Len(d) + Len(r.chunk)
      /\ \A i \in 1 .. Len(e) : e[i] = IF i <= Len(d) THEN d[i] ELSE r.chunk[i - Len(d)]
  BY <1>1, ConcatProperties
<1>3. Len(d) \in Nat /\ Len(f) \in Nat /\ Len(d) <= Len(f) /\ \A i \in 1 .. Len(d) : d[i] = f[i]
  BY LenProperties DEF Begins
<1> HIDE DEF e
<1>4. CASE Len(d) < Len(f)
  <2>1. r.chunk = <<f[Len(d) + 1]>> /\ (r.more <=> Len(d) + 1 < Len(f))
    BY <1>4 DEF Part
  <2>2. Len(r.chunk) = 1 /\ r.chunk[1] = f[Len(d) + 1]
    BY <2>1
  <2>3. Len(e) = Len(d) + 1 /\ Len(e) <= Len(f)
    BY <1>2, <1>3, <1>4, <2>2
  <2>4. \A i \in 1 .. Len(e) : e[i] = f[i]
    <3> SUFFICES ASSUME NEW i \in 1 .. Len(e) PROVE e[i] = f[i]
      OBVIOUS
    <3>1. CASE i <= Len(d)
      BY <1>2, <1>3, <2>3, <3>1
    <3>2. CASE ~(i <= Len(d))
      <4>1. i = Len(d) + 1 /\ i - Len(d) = 1
        BY <1>3, <2>3, <3>2
      <4> QED
        BY <1>2, <2>2, <3>2, <4>1
    <3> QED
      BY <3>1, <3>2
  <2>5. Begins(e, f)
    BY <2>3, <2>4 DEF Begins
  <2>6. ~r.more => Len(e) = Len(f)
    BY <1>3, <2>1, <2>3
  <2>7. ~r.more => e = f
    BY <1>2, <2>4, <2>6, SeqEqual
  <2> QED
    BY <1>2, <2>3, <2>5, <2>7 DEF e
<1>5. CASE ~(Len(d) < Len(f))
  <2>1. Len(d) = Len(f) /\ ~(Len(d) + 1 < Len(f))
    BY <1>3, <1>5
  <2>2. r.chunk = << >> /\ ~r.more
    BY <1>5, <2>1 DEF Part
  <2>3. Len(r.chunk) = 0 /\ Len(e) = Len(f)
    BY <1>2, <1>3, <2>1, <2>2
  <2>4. \A i \in 1 .. Len(e) : e[i] = f[i]
    BY <1>2, <1>3, <2>1, <2>3
  <2>5. e = f
    BY <1>2, <2>3, <2>4, SeqEqual
  <2> QED
    BY <1>2, <2>2, <2>5 DEF e
<1> QED
  BY <1>4, <1>5

(***************************************************************************)
(* Bytes m to n of d.                                                      *)
(***************************************************************************)
LEMMA BytesOf ==
  ASSUME NEW d, NEW m \in Int, NEW n \in Int, \A i \in m .. n : d[i] \in Byte
  PROVE  /\ SubSeq(d, m, n) \in Seq(Byte)
         /\ Len(SubSeq(d, m, n)) = IF m <= n THEN (n - m) + 1 ELSE 0
         /\ \A i \in 1 .. (n - m) + 1 : SubSeq(d, m, n)[i] = d[(m + i) - 1]
BY SubSeqProperties

(* Where the next piece of a file ends.                                    *)
LEMMA EndOfPiece ==
  ASSUME NEW l \in Nat, NEW pos \in Nat, NEW c \in Nat
  PROVE  /\ \A n \in Nat : pos + (n - pos) = n /\ (n = pos + c => n - pos = c)
         /\ \A n : n = (IF pos + c < l THEN pos + c ELSE l) =>
              n \in Nat /\ n <= l /\ (n = pos + c \/ n = l) /\ (pos <= l => pos <= n)
         /\ \A n \in Nat : n <= l => \A i \in pos + 1 .. n : i \in 1 .. l
<1>1. CASE pos + c < l
  BY <1>1
<1>2. CASE ~(pos + c < l)
  BY <1>2
<1> QED
  BY <1>1, <1>2

(***************************************************************************)
(* A piece of a file: the next bytes, up to Chunk of them, all that are    *)
(* left if there are no more.                                              *)
(***************************************************************************)
LEMMA PieceOf ==
  ASSUME NEW d \in Seq(Byte), NEW pos \in Nat
  PROVE  /\ Piece(d, pos) \in Seq(Byte) /\ Len(Piece(d, pos)) \in Nat
         /\ pos <= Len(d) =>
              /\ pos + Len(Piece(d, pos)) <= Len(d)
              /\ \A i \in 1 .. Len(Piece(d, pos)) : Piece(d, pos)[i] = d[pos + i]
              /\ Len(Piece(d, pos)) = Chunk \/ pos + Len(Piece(d, pos)) = Len(d)
<1> DEFINE n == IF pos + Chunk < Len(d) THEN pos + Chunk ELSE Len(d)
           p == SubSeq(d, pos + 1, n)
<1>1. Len(d) \in Nat /\ Chunk \in Nat \ {0} /\ DOMAIN d = 1 .. Len(d)
  BY FilesAssumption, LenProperties
<1>2. n \in Nat /\ n <= Len(d) /\ (n = pos + Chunk \/ n = Len(d)) /\ (pos <= Len(d) => pos <= n)
  <2>1. \A m : m = (IF pos + Chunk < Len(d) THEN pos + Chunk ELSE Len(d)) =>
          m \in Nat /\ m <= Len(d) /\ (m = pos + Chunk \/ m = Len(d)) /\ (pos <= Len(d) => pos <= m)
    BY <1>1, EndOfPiece
  <2> QED
    BY <2>1
<1> HIDE DEF n
<1>3. \A i \in pos + 1 .. n : d[i] \in Byte
  <2>1. \A i \in pos + 1 .. n : i \in DOMAIN d
    BY <1>1, <1>2, EndOfPiece
  <2>2. \A i \in DOMAIN d : d[i] \in Byte
    BY Elements
  <2> QED
    BY <2>1, <2>2
<1>4. /\ p \in Seq(Byte)
      /\ Len(p) = IF pos + 1 <= n THEN (n - (pos + 1)) + 1 ELSE 0
      /\ \A i \in 1 .. (n - (pos + 1)) + 1 : p[i] = d[((pos + 1) + i) - 1]
  BY <1>2, <1>3, BytesOf
<1> HIDE DEF p
<1>6. ASSUME pos <= Len(d) PROVE Len(p) = n - pos
  BY <1>2, <1>4, <1>6
<1>7. ASSUME pos <= Len(d) PROVE \A i \in 1 .. Len(p) : p[i] = d[pos + i]
  <2>1. Len(p) = n - pos
    BY <1>6, <1>7
  <2>2. \A i \in 1 .. n - pos : ((pos + 1) + i) - 1 = pos + i /\ i \in 1 .. (n - (pos + 1)) + 1
    BY <1>2
  <2> QED
    BY <1>4, <2>1, <2>2
<1>8. ASSUME pos <= Len(d) PROVE pos + Len(p) <= Len(d) /\ (Len(p) = Chunk \/ pos + Len(p) = Len(d))
  <2>1. Len(p) = n - pos /\ pos <= n /\ n <= Len(d) /\ (n = pos + Chunk \/ n = Len(d))
    BY <1>2, <1>6, <1>8
  <2>2. pos + (n - pos) = n /\ (n = pos + Chunk => n - pos = Chunk)
    BY <1>2, EndOfPiece, FilesAssumption
  <2> QED
    BY <2>1, <2>2
<1>9. Len(p) \in Nat
  BY <1>4, LenProperties
<1>10. Piece(d, pos) = p
  BY DEF Piece, p, n
<1> HIDE DEF p
<1>11. p \in Seq(Byte) /\ Len(p) \in Nat
  BY <1>4, <1>9
<1>12. pos <= Len(d) =>
         /\ pos + Len(p) <= Len(d)
         /\ \A i \in 1 .. Len(p) : p[i] = d[pos + i]
         /\ Len(p) = Chunk \/ pos + Len(p) = Len(d)
  BY <1>7, <1>8
<1> QED
  BY <1>10, <1>11, <1>12

-----------------------------------------------------------------------------
(* Open files.                                                             *)

(* A file that was read on by p.                                           *)
Moved(f, p, over) == [f EXCEPT !.pos = @ + Len(p), !.got = @ \o p, !.over = over]

(***************************************************************************)
(* The numbers in it: got, want, data, what is read, positions.            *)
(***************************************************************************)
LEMMA Positions ==
  ASSUME NEW g \in Nat, NEW w \in Nat, NEW d \in Nat, NEW p \in Nat, NEW pos \in Nat,
         g + d = w + pos, pos + p <= d
  PROVE  /\ (g + p) + d = w + (pos + p)
         /\ \A i \in 1 .. g + p : i \in 1 .. w
         /\ \A i \in 1 .. g + p : ~(i <= g) => i - g \in 1 .. p /\ pos + (i - g) = (d - w) + i
OBVIOUS

(* A file of which the next piece was read.                                *)
LEMMA MovedIntact ==
  ASSUME NEW f \in FileType, NEW p \in Seq(Byte), NEW over \in BOOLEAN, NEW sd, NEW by, Intact(f, sd, by),
         f.pos + Len(p) <= Len(f.data), \A i \in 1 .. Len(p) : p[i] = f.data[f.pos + i],
         over => f.pos + Len(p) = Len(f.data)
  PROVE  Moved(f, p, over) \in FileType /\ Intact(Moved(f, p, over), sd, by)
<1> DEFINE m == Moved(f, p, over)
           got == f.got \o p
<1>1. /\ f.got \in Seq(Byte) /\ f.want \in Seq(Byte) /\ f.data \in Seq(Byte) /\ f.pos \in Nat
  BY DEF FileType
<1>2. Len(f.got) \in Nat /\ Len(f.want) \in Nat /\ Len(f.data) \in Nat /\ Len(p) \in Nat
  BY <1>1, LenProperties
<1>3. /\ got \in Seq(Byte) /\ Len(got) = Len(f.got) + Len(p)
      /\ \A i \in 1 .. Len(got) : got[i] = IF i <= Len(f.got) THEN f.got[i] ELSE p[i - Len(f.got)]
  BY <1>1, ConcatProperties
<1>4. /\ m.pos = f.pos + Len(p) /\ m.got = got /\ m.over = over
      /\ m.ino = f.ino /\ m.size = f.size /\ m.data = f.data /\ m.want = f.want
  BY DEF Moved, FileType
<1>5. m \in FileType
  <2>1. f.pos + Len(p) \in Nat
    BY <1>1, <1>2
  <2> HIDE DEF got
  <2>2. m = [f EXCEPT !.pos = f.pos + Len(p), !.got = got, !.over = over]
    BY DEF Moved, FileType, got
  <2> QED
    BY <1>3, <2>1, <2>2 DEF FileType
<1> HIDE DEF m, got
<1>6. /\ Len(f.got) + Len(f.data) = Len(f.want) + f.pos /\ f.pos <= Len(f.data)
      /\ Len(f.want) <= Len(f.data)
      /\ \A i \in 1 .. Len(f.want) : f.want[i] = f.data[(Len(f.data) - Len(f.want)) + i]
      /\ \A i \in 1 .. Len(f.got) : f.got[i] = f.want[i]
  BY DEF Intact
<1>7. /\ (Len(f.got) + Len(p)) + Len(f.data) = Len(f.want) + (f.pos + Len(p))
      /\ \A i \in 1 .. Len(f.got) + Len(p) : i \in 1 .. Len(f.want)
      /\ \A i \in 1 .. Len(f.got) + Len(p) :
           ~(i <= Len(f.got)) =>
             i - Len(f.got) \in 1 .. Len(p) /\ f.pos + (i - Len(f.got)) = (Len(f.data) - Len(f.want)) + i
  <2>1. Len(f.got) + Len(f.data) = Len(f.want) + f.pos /\ f.pos + Len(p) <= Len(f.data)
    BY <1>6
  <2>2. f.pos \in Nat
    BY <1>1
  <2> QED
    <3> DEFINE g == Len(f.got)
               w == Len(f.want)
               d == Len(f.data)
               l == Len(p)
               pos == f.pos
    <3>1. g \in Nat /\ w \in Nat /\ d \in Nat /\ l \in Nat /\ pos \in Nat /\ g + d = w + pos /\ pos + l <= d
      BY <1>2, <2>1, <2>2
    <3> HIDE DEF g, w, d, l, pos
    <3>2. /\ (g + l) + d = w + (pos + l)
          /\ \A i \in 1 .. g + l : i \in 1 .. w
          /\ \A i \in 1 .. g + l : ~(i <= g) => i - g \in 1 .. l /\ pos + (i - g) = (d - w) + i
      BY <3>1, Positions
    <3> QED
      BY <3>2 DEF g, w, d, l, pos
<1>8. \A i \in 1 .. Len(got) : got[i] = f.want[i]
  <2> SUFFICES ASSUME NEW i \in 1 .. Len(got) PROVE got[i] = f.want[i]
    OBVIOUS
  <2>1. CASE i <= Len(f.got)
    <3>1. i \in 1 .. Len(f.got)
      BY <1>2, <1>3, <2>1
    <3> QED
      BY <1>3, <1>6, <2>1, <3>1
  <2>2. CASE ~(i <= Len(f.got))
    <3>1. i \in 1 .. Len(f.got) + Len(p)
      BY <1>3
    <3>2. got[i] = p[i - Len(f.got)]
      BY <1>3, <2>2
    <3>3. p[i - Len(f.got)] = f.data[f.pos + (i - Len(f.got))]
      BY <1>7, <2>2, <3>1
    <3>4. f.want[i] = f.data[(Len(f.data) - Len(f.want)) + i]
      BY <1>6, <1>7, <3>1
    <3>5. f.pos + (i - Len(f.got)) = (Len(f.data) - Len(f.want)) + i
      BY <1>7, <2>2, <3>1
    <3> QED
      BY <3>2, <3>3, <3>4, <3>5
  <2> QED
    BY <2>1, <2>2
<1>9. sd = "go" => f.ino \in DOMAIN by /\ by[f.ino] = f.data /\ f.size = Len(f.data)
  BY DEF Intact
<1>10. Intact(m, sd, by)
  <2>1. sd = "go" => m.ino \in DOMAIN by /\ by[m.ino] = m.data /\ m.size = Len(m.data)
    BY <1>4, <1>9
  <2>2. m.pos <= Len(m.data) /\ Len(m.want) <= Len(m.data)
    BY <1>4, <1>6
  <2>3. Len(m.got) + Len(m.data) = Len(m.want) + m.pos
    BY <1>3, <1>4, <1>7
  <2>4. \A i \in 1 .. Len(m.want) : m.want[i] = m.data[(Len(m.data) - Len(m.want)) + i]
    BY <1>4, <1>6
  <2>5. \A i \in 1 .. Len(m.got) : m.got[i] = m.want[i]
    BY <1>4, <1>8
  <2>6. m.over => m.pos = Len(m.data)
    BY <1>4
  <2> QED
    BY <2>1, <2>2, <2>3, <2>4, <2>5, <2>6 DEF Intact
<1> QED
  BY <1>5, <1>10 DEF m

(***************************************************************************)
(* FileRead: it continues the file as it was opened, and what it says is   *)
(* the last part is the last part.                                         *)
(***************************************************************************)
LEMMA AdvancedKept ==
  ASSUME FilesTypeOK, NEW f \in FileType, f.ino \in DOMAIN bytes, Kept(f, side, bytes)
  PROVE  Advanced(f) \in FileType /\ Advanced(f).ino = f.ino /\ Kept(Advanced(f), side, bytes)
<1> DEFINE d == IF side = "go" THEN bytes[f.ino] ELSE f.data
           p == Piece(d, f.pos)
           over == ~ReadPart(f).more
<1>1. f.pos \in Nat /\ f.size \in Nat /\ f.data \in Seq(Byte) /\ f.got \in Seq(Byte) /\ bytes[f.ino] \in Seq(Byte)
  <2>1. bytes[f.ino] \in Seq(Byte)
    BY Elements DEF FilesTypeOK
  <2> QED
    BY <2>1 DEF FileType
<1>2. d \in Seq(Byte)
  BY <1>1
<1>3. ReadPart(f).data = p
  BY DEF ReadPart, fileRead, file_read
<1>4. over = IF side = "go" THEN ~(Len(p) = Chunk /\ f.pos + Len(p) < f.size)
             ELSE ~(f.pos + Len(p) < Len(f.data))
  BY DEF ReadPart, fileRead, file_read
<1>5. over \in BOOLEAN
  BY <1>4
<1>6. Advanced(f) = Moved(f, p, over)
  BY <1>3 DEF Advanced, Moved
<1> HIDE DEF d, over
<1>7. p \in Seq(Byte) /\ Len(p) \in Nat
  BY <1>1, <1>2, PieceOf
<1>8. CASE side = "go" /\ f.disturbed
  <2>1. f.pos + Len(p) \in Nat /\ f.got \o p \in Seq(Byte)
    BY <1>1, <1>7, ConcatProperties
  <2> HIDE DEF p
  <2>2. Moved(f, p, over) \in FileType /\ Moved(f, p, over).ino = f.ino /\ Moved(f, p, over).disturbed = f.disturbed
    BY <1>5, <2>1 DEF Moved, FileType
  <2> QED
    BY <1>6, <1>8, <2>2 DEF Kept
<1>9. CASE ~(side = "go" /\ f.disturbed)
  <2>1. Intact(f, side, bytes)
    BY <1>9 DEF Kept
  <2>2. d = f.data /\ f.pos <= Len(f.data) /\ (side = "go" => f.size = Len(f.data))
    BY <2>1 DEF Intact, d
  <2>3. /\ f.pos + Len(p) <= Len(f.data)
        /\ \A i \in 1 .. Len(p) : p[i] = f.data[f.pos + i]
        /\ Len(p) = Chunk \/ f.pos + Len(p) = Len(f.data)
    BY <1>1, <2>2, PieceOf
  <2> HIDE DEF p
  <2>4. over => f.pos + Len(p) = Len(f.data)
    <3>1. Len(f.data) \in Nat
      BY <1>1, LenProperties
    <3>2. f.pos + Len(p) \in Nat
      BY <1>1, <1>7
    <3>3. ~(f.pos + Len(p) < Len(f.data)) => f.pos + Len(p) = Len(f.data)
      BY <2>3, <3>1, <3>2
    <3>4. CASE side = "go"
      BY <1>4, <2>2, <2>3, <3>3, <3>4
    <3>5. CASE side # "go"
      BY <1>4, <3>3, <3>5
    <3> QED
      BY <3>4, <3>5
  <2>5. Moved(f, p, over) \in FileType /\ Intact(Moved(f, p, over), side, bytes)
    BY <1>5, <1>7, <2>1, <2>3, <2>4, MovedIntact
  <2>6. Moved(f, p, over).ino = f.ino
    BY DEF Moved, FileType
  <2> QED
    BY <1>6, <2>5, <2>6 DEF Kept
<1> QED
  BY <1>8, <1>9

(***************************************************************************)
(* FileOpen: the file as it is is what there is to read.                   *)
(***************************************************************************)
LEMMA OpenedKept ==
  ASSUME FilesTypeOK, NEW op \in Ops, file_open(op) = "ok"
  PROVE  Opened(op) \in FileType /\ Opened(op).ino \in DOMAIN bytes /\ Kept(Opened(op), side, bytes)
<1> DEFINE ino == dir[op.name]
           data == bytes[ino]
           want == SubSeq(data, op.pos + 1, Len(data))
           o == Opened(op)
<1>1. op.pos \in Nat
  BY FilesAssumption
<1>2. op.name \in DOMAIN dir /\ ~(op.pos > Len(data))
  BY DEF file_open
<1>3. ino \in DOMAIN bytes
  BY <1>2 DEF FilesTypeOK
<1>4. ino \in Nat /\ data \in Seq(Byte)
  BY <1>3, Elements DEF FilesTypeOK
<1>5. Len(data) \in Nat /\ DOMAIN data = 1 .. Len(data) /\ \A i \in DOMAIN data : data[i] \in Byte
  BY <1>4, Elements
<1>6. /\ o.ino = ino /\ o.size = Len(data) /\ o.pos = op.pos /\ o.data = data /\ o.want = want
      /\ o.got = << >> /\ o.over = FALSE
  BY DEF Opened
<1> HIDE DEF data, ino
<1>7. op.pos <= Len(data)
  BY <1>1, <1>2, <1>5
<1>8. /\ want \in Seq(Byte)
      /\ Len(want) = IF op.pos + 1 <= Len(data) THEN (Len(data) - (op.pos + 1)) + 1 ELSE 0
      /\ \A i \in 1 .. (Len(data) - (op.pos + 1)) + 1 : want[i] = data[((op.pos + 1) + i) - 1]
  <2>1. \A i \in op.pos + 1 .. Len(data) : data[i] \in Byte
    BY <1>1, <1>5
  <2>2. op.pos + 1 \in Int /\ Len(data) \in Int
    BY <1>1, <1>5
  <2> QED
    BY <2>1, <2>2, BytesOf
<1>9. o \in FileType
  BY <1>1, <1>4, <1>5, <1>8 DEF Opened, FileType, ino, data
<1> HIDE DEF want, o
<1>10. Len(want) = Len(data) - op.pos
  BY <1>1, <1>5, <1>7, <1>8
<1>11. \A i \in 1 .. Len(want) : want[i] = data[(Len(data) - Len(want)) + i]
  <2> SUFFICES ASSUME NEW i \in 1 .. Len(want) PROVE want[i] = data[(Len(data) - Len(want)) + i]
    OBVIOUS
  <2>1. i \in 1 .. (Len(data) - (op.pos + 1)) + 1 /\ ((op.pos + 1) + i) - 1 = (Len(data) - Len(want)) + i
    BY <1>1, <1>5, <1>7, <1>10
  <2> QED
    BY <1>8, <2>1
<1>12. Intact(o, side, bytes)
  <2>1. side = "go" => o.ino \in DOMAIN bytes /\ bytes[o.ino] = o.data /\ o.size = Len(o.data)
    BY <1>3, <1>6 DEF data
  <2>2. o.pos <= Len(o.data) /\ Len(o.want) <= Len(o.data)
    BY <1>1, <1>5, <1>6, <1>7, <1>10
  <2>3. Len(o.got) = 0
    BY <1>6
  <2>4. Len(o.got) + Len(o.data) = Len(o.want) + o.pos
    BY <1>1, <1>5, <1>6, <1>10, <2>3
  <2>5. \A i \in 1 .. Len(o.want) : o.want[i] = o.data[(Len(o.data) - Len(o.want)) + i]
    BY <1>6, <1>11
  <2>6. \A i \in 1 .. Len(o.got) : o.got[i] = o.want[i]
    BY <2>3
  <2>7. o.over => o.pos = Len(o.data)
    BY <1>6
  <2> QED
    BY <2>1, <2>2, <2>4, <2>5, <2>6, <2>7 DEF Intact
<1> QED
  BY <1>3, <1>6, <1>9, <1>12 DEF Kept, o

(***************************************************************************)
(* FileOpen, FileRead, FileClose, FileDelete and FileRename: names stand   *)
(* for files, and open files stay as they were opened.                     *)
(***************************************************************************)
FilesKept(fs) ==
  fs \in Seq(FileType) /\ \A i \in DOMAIN fs : fs[i].ino \in DOMAIN bytes /\ Kept(fs[i], side, bytes)

(* What Done gives satisfies FilesKept.                                    *)
LEMMA DoneKept ==
  ASSUME FilesTypeOK, NEW mine, FilesKept(mine), NEW op \in Ops, op.svc # "obtain"
  PROVE  /\ Done(op, mine).code \in Codes
         /\ \A n \in DOMAIN Done(op, mine).dir : Done(op, mine).dir[n] \in DOMAIN bytes
         /\ FilesKept(Done(op, mine).files)
<1> DEFINE d == Done(op, mine)
           known == op.pos \in DOMAIN mine /\ ~mine[op.pos].closed
<1>1. op.svc \in {"open", "read", "close", "delete", "rename"}
  BY FilesAssumption
<1>2. \A n \in DOMAIN dir : dir[n] \in DOMAIN bytes
  BY DEF FilesTypeOK
<1>3. mine \in Seq(FileType) /\ \A i \in DOMAIN mine : mine[i] \in FileType
  BY Elements DEF FilesKept
<1>4. ASSUME NEW i \in DOMAIN mine, NEW f \in FileType, f.ino \in DOMAIN bytes, Kept(f, side, bytes)
      PROVE  FilesKept([mine EXCEPT ![i] = f])
  <2> DEFINE fs == [mine EXCEPT ![i] = f]
  <2>1. fs \in Seq(FileType) /\ DOMAIN fs = DOMAIN mine
    BY <1>3, <1>4, ExceptSeq
  <2>2. \A x \in DOMAIN mine : fs[x] = IF x = i THEN f ELSE mine[x]
    BY <1>3
  <2> HIDE DEF fs
  <2>3. FilesKept(fs)
    BY <1>4, <2>1, <2>2 DEF FilesKept
  <2> QED
    BY <2>3 DEF fs
<1>5. CASE op.svc = "open"
  <2>1. CASE file_open(op) = "ok"
    <3> DEFINE o == Opened(op)
               fs == Append(mine, o)
    <3>1. d.code = "ok" /\ d.dir = dir /\ d.files = fs
      BY <1>5, <2>1 DEF Done
    <3>2. o \in FileType /\ o.ino \in DOMAIN bytes /\ Kept(o, side, bytes)
      BY <2>1, OpenedKept
    <3> HIDE DEF o
    <3>3. fs \in Seq(FileType) /\ \A i \in DOMAIN fs : (i \in DOMAIN mine /\ fs[i] = mine[i]) \/ fs[i] = o
      BY <1>3, <3>2, Appended
    <3> HIDE DEF fs
    <3>4. FilesKept(fs)
      BY <3>2, <3>3 DEF FilesKept
    <3> QED
      BY <1>2, <3>1, <3>4 DEF Codes
  <2>2. CASE file_open(op) # "ok"
    <3>1. d.code = file_open(op) /\ d.dir = dir /\ d.files = mine
      BY <1>5, <2>2 DEF Done
    <3>2. file_open(op) \in Codes
      BY DEF file_open, Codes
    <3> QED
      BY <1>2, <3>1, <3>2
  <2> QED
    BY <2>1, <2>2
<1>6. CASE op.svc = "read"
  <2>1. CASE known
    <3> DEFINE f == Advanced(mine[op.pos])
    <3>1. d.code = "ok" /\ d.dir = dir /\ d.files = [mine EXCEPT ![op.pos] = f]
      BY <1>6, <2>1 DEF Done
    <3>2. f \in FileType /\ f.ino \in DOMAIN bytes /\ Kept(f, side, bytes)
      BY <1>3, <2>1, AdvancedKept DEF FilesKept
    <3> HIDE DEF f
    <3>3. FilesKept([mine EXCEPT ![op.pos] = f])
      BY <1>4, <2>1, <3>2
    <3> QED
      BY <1>2, <3>1, <3>3 DEF Codes
  <2>2. CASE ~known
    BY <1>2, <1>6, <2>2 DEF Done, Codes
  <2> QED
    BY <2>1, <2>2
<1>7. CASE op.svc = "close"
  <2>1. CASE known
    <3> DEFINE g == mine[op.pos]
               f == [g EXCEPT !.closed = TRUE]
    <3>1. d.code = "ok" /\ d.dir = dir /\ d.files = [mine EXCEPT ![op.pos] = f]
      BY <1>7, <2>1 DEF Done
    <3>2. g \in FileType /\ g.ino \in DOMAIN bytes /\ Kept(g, side, bytes)
      BY <1>3, <2>1 DEF FilesKept
    <3> HIDE DEF g
    <3>3. f \in FileType /\ f.ino \in DOMAIN bytes /\ Kept(f, side, bytes)
      BY <3>2 DEF Kept, Intact, FileType
    <3> HIDE DEF f
    <3>4. FilesKept([mine EXCEPT ![op.pos] = f])
      BY <1>4, <2>1, <3>3
    <3> QED
      BY <1>2, <3>1, <3>4 DEF Codes
  <2>2. CASE ~known
    BY <1>2, <1>7, <2>2 DEF Done, Codes
  <2> QED
    BY <2>1, <2>2
<1>8. CASE op.svc = "delete"
  <2>1. d.code \in Codes /\ d.files = mine /\ (d.dir = dir \/ d.dir = Without(dir, op.name))
    BY <1>8 DEF Done, Codes
  <2>2. \A n \in DOMAIN Without(dir, op.name) : Without(dir, op.name)[n] \in DOMAIN bytes
    BY <1>2 DEF Without
  <2> QED
    BY <1>2, <2>1, <2>2
<1>9. CASE op.svc = "rename"
  <2> DEFINE e == Set(Without(dir, op.name), op.to, dir[op.name])
  <2>1. /\ d.code \in Codes /\ d.files = mine
        /\ d.dir = dir \/ (op.name \in DOMAIN dir /\ d.dir = e)
    BY <1>9 DEF Done, Codes
  <2>2. op.name \in DOMAIN dir => \A n \in DOMAIN e : e[n] \in DOMAIN bytes
    BY <1>2 DEF Without, Set
  <2> QED
    BY <1>2, <2>1, <2>2
<1> QED
  BY <1>1, <1>5, <1>6, <1>7, <1>8, <1>9

-----------------------------------------------------------------------------
(* The store.                                                              *)

(***************************************************************************)
(* Whoever writes is as before.                                            *)
(***************************************************************************)
LEMMA SameWriters ==
  ASSUME NEW js, NEW jt, NEW sd, NEW by, NEW tn, StoredBytes(js, sd, by, tn),
         \A k \in DOMAIN jt : jt[k].at = "writing" => k \in DOMAIN js /\ jt[k] = js[k],
         \A k \in DOMAIN js : js[k].at = "writing" => k \in DOMAIN jt /\ jt[k] = js[k]
  PROVE  StoredBytes(jt, sd, by, tn)
<1>1. \A k \in DOMAIN jt : jt[k].at = "writing" => sd = "go" /\ jt[k].ino \in DOMAIN by
  BY DEF StoredBytes
<1>2. ASSUME NEW ino \in DOMAIN by
      PROVE  \/ sd = "go" /\ ino \in tn
             \/ by[ino] \in Whole /\ \A k \in DOMAIN jt : ~WritesTo(jt[k], ino)
             \/ by[ino] = << >> /\ \E k \in DOMAIN jt : \A l \in DOMAIN jt : WritesTo(jt[l], ino) <=> l = k
  <2>1. CASE sd = "go" /\ ino \in tn
    BY <2>1
  <2>2. CASE by[ino] \in Whole /\ \A k \in DOMAIN js : ~WritesTo(js[k], ino)
    BY <2>2 DEF WritesTo
  <2>3. CASE by[ino] = << >> /\ \E k \in DOMAIN js : \A l \in DOMAIN js : WritesTo(js[l], ino) <=> l = k
    <3>1. PICK k \in DOMAIN js : \A l \in DOMAIN js : WritesTo(js[l], ino) <=> l = k
      BY <2>3
    <3>2. k \in DOMAIN jt /\ \A l \in DOMAIN jt : WritesTo(jt[l], ino) <=> l = k
      BY <3>1 DEF WritesTo
    <3> QED
      BY <2>3, <3>2
  <2> QED
    BY <2>1, <2>2, <2>3 DEF StoredBytes
<1> QED
  BY <1>1, <1>2 DEF StoredBytes

(***************************************************************************)
(* Rust: a file of a client is put into the map.                           *)
(***************************************************************************)
LEMMA InsertStored ==
  ASSUME NEW js, NEW jt, NEW by \in Seq(Seq(Byte)), NEW tn, NEW data \in Seq(Byte),
         StoredBytes(js, "rs", by, tn), data \in Whole, \A k \in DOMAIN jt : k \in DOMAIN js /\ jt[k] = js[k]
  PROVE  StoredBytes(jt, "rs", Append(by, data), tn)
<1> DEFINE bz == Append(by, data)
<1>1. \A ino \in DOMAIN bz : (ino \in DOMAIN by /\ bz[ino] = by[ino]) \/ bz[ino] = data
  BY Appended
<1> HIDE DEF bz
<1>2. \A k \in DOMAIN js : js[k].at # "writing"
  BY DEF StoredBytes
<1>3. \A ino \in DOMAIN by : by[ino] \in Whole
  BY <1>2 DEF StoredBytes, WritesTo
<1>4. \A ino \in DOMAIN bz : bz[ino] \in Whole
  BY <1>1, <1>3
<1>5. StoredBytes(jt, "rs", bz, tn)
  BY <1>2, <1>4 DEF StoredBytes, WritesTo
<1> QED
  BY <1>5 DEF bz

(***************************************************************************)
(* Go: an inode is truncated; if someone else writes to it, it is torn.    *)
(***************************************************************************)
Truncated(js, jt, by, bz, tn, tm, k, ino) ==
  /\ k \in DOMAIN js /\ js[k].at # "writing"
  /\ ino \in DOMAIN bz /\ bz[ino] = << >>
  /\ \A x \in DOMAIN by : x \in DOMAIN bz
  /\ \A x \in DOMAIN bz : x # ino => x \in DOMAIN by /\ bz[x] = by[x]
  /\ tm = IF {l \in DOMAIN js : js[l].at = "writing" /\ js[l].ino = ino} = {} THEN tn \ {ino} ELSE tn \cup {ino}
  /\ DOMAIN jt = DOMAIN js /\ jt[k].at = "writing" /\ jt[k].ino = ino
  /\ \A l \in DOMAIN js : l # k => jt[l] = js[l]

(* Truncated keeps StoredBytes.                                                 *)
LEMMA TruncateStored ==
  ASSUME NEW js, NEW jt, NEW by, NEW bz, NEW tn, NEW tm, NEW k, NEW ino,
         StoredBytes(js, "go", by, tn), Truncated(js, jt, by, bz, tn, tm, k, ino)
  PROVE  StoredBytes(jt, "go", bz, tm)
<1> USE DEF Truncated
<1>1. \A l \in DOMAIN jt : jt[l].at = "writing" => jt[l].ino \in DOMAIN bz
  BY DEF StoredBytes
<1>2. ASSUME NEW x \in DOMAIN bz
      PROVE  \/ x \in tm
             \/ bz[x] \in Whole /\ \A l \in DOMAIN jt : ~WritesTo(jt[l], x)
             \/ bz[x] = << >> /\ \E l \in DOMAIN jt : \A m \in DOMAIN jt : WritesTo(jt[m], x) <=> m = l
  <2>1. CASE x = ino
    <3>1. CASE {l \in DOMAIN js : js[l].at = "writing" /\ js[l].ino = ino} = {}
      <4>1. \A m \in DOMAIN jt : WritesTo(jt[m], x) <=> m = k
        BY <2>1, <3>1 DEF WritesTo
      <4> QED
        BY <2>1, <4>1
    <3>2. CASE {l \in DOMAIN js : js[l].at = "writing" /\ js[l].ino = ino} # {}
      BY <2>1, <3>2
    <3> QED
      BY <3>1, <3>2
  <2>2. CASE x # ino
    <3>1. \A l \in DOMAIN js : WritesTo(jt[l], x) <=> WritesTo(js[l], x)
      BY <2>2 DEF WritesTo
    <3>2. x \in tm <=> x \in tn
      BY <2>2
    <3>3. \/ x \in tn
          \/ by[x] \in Whole /\ \A l \in DOMAIN js : ~WritesTo(js[l], x)
          \/ by[x] = << >> /\ \E l \in DOMAIN js : \A m \in DOMAIN js : WritesTo(js[m], x) <=> m = l
      BY <2>2 DEF StoredBytes
    <3>4. CASE x \in tn
      BY <3>2, <3>4
    <3>5. CASE by[x] \in Whole /\ \A l \in DOMAIN js : ~WritesTo(js[l], x)
      BY <2>2, <3>1, <3>5
    <3>6. CASE by[x] = << >> /\ \E l \in DOMAIN js : \A m \in DOMAIN js : WritesTo(js[m], x) <=> m = l
      <4>1. PICK l \in DOMAIN js : \A m \in DOMAIN js : WritesTo(js[m], x) <=> m = l
        BY <3>6
      <4>2. \A m \in DOMAIN jt : WritesTo(jt[m], x) <=> m = l
        BY <3>1, <4>1
      <4> QED
        BY <2>2, <3>6, <4>2
    <3> QED
      BY <3>3, <3>4, <3>5, <3>6
  <2> QED
    BY <2>1, <2>2
<1> QED
  BY <1>1, <1>2 DEF StoredBytes

(***************************************************************************)
(* Go: job k is done with its inode: it has written a client's file there, *)
(* or left it torn.  If nobody else wrote to it, it is whole or torn.      *)
(***************************************************************************)
Wrote(js, jt, by, bz, tn, tm, k, ino) ==
  /\ k \in DOMAIN js /\ js[k].at = "writing" /\ js[k].ino = ino
  /\ DOMAIN bz = DOMAIN by /\ \A x \in DOMAIN by : x # ino => bz[x] = by[x]
  /\ \A x \in tn : x \in tm
  /\ ino \in tm \/ (by[ino] = << >> => bz[ino] \in Whole)
  /\ DOMAIN jt = DOMAIN js \ {k} /\ \A l \in DOMAIN jt : jt[l] = js[l]

(* Wrote keeps StoredBytes.                                                     *)
LEMMA WriteStored ==
  ASSUME NEW js, NEW jt, NEW by, NEW bz, NEW tn, NEW tm, NEW k, NEW ino,
         StoredBytes(js, "go", by, tn), Wrote(js, jt, by, bz, tn, tm, k, ino)
  PROVE  StoredBytes(jt, "go", bz, tm)
<1> USE DEF Wrote
<1>1. \A l \in DOMAIN jt : jt[l].at = "writing" => jt[l].ino \in DOMAIN bz
  BY DEF StoredBytes
<1>2. ASSUME NEW x \in DOMAIN bz
      PROVE  \/ x \in tm
             \/ bz[x] \in Whole /\ \A l \in DOMAIN jt : ~WritesTo(jt[l], x)
             \/ bz[x] = << >> /\ \E l \in DOMAIN jt : \A m \in DOMAIN jt : WritesTo(jt[m], x) <=> m = l
  <2>1. \/ x \in tn
        \/ by[x] \in Whole /\ \A l \in DOMAIN js : ~WritesTo(js[l], x)
        \/ by[x] = << >> /\ \E l \in DOMAIN js : \A m \in DOMAIN js : WritesTo(js[m], x) <=> m = l
    BY DEF StoredBytes
  <2>2. CASE x \in tn
    BY <2>2
  <2>3. CASE by[x] \in Whole /\ \A l \in DOMAIN js : ~WritesTo(js[l], x)
    <3>1. x # ino
      BY <2>3 DEF WritesTo
    <3> QED
      BY <2>3, <3>1
  <2>4. CASE by[x] = << >> /\ \E l \in DOMAIN js : \A m \in DOMAIN js : WritesTo(js[m], x) <=> m = l
    <3>1. PICK l \in DOMAIN js : \A m \in DOMAIN js : WritesTo(js[m], x) <=> m = l
      BY <2>4
    <3>2. CASE x = ino
      <4>1. WritesTo(js[k], x)
        BY <3>2 DEF WritesTo
      <4>2. l = k
        BY <3>1, <4>1
      <4>3. \A m \in DOMAIN jt : ~WritesTo(jt[m], x)
        BY <3>1, <4>2
      <4> QED
        BY <2>4, <3>2, <4>3
    <3>3. CASE x # ino
      <4>1. ~WritesTo(js[k], x)
        BY <3>3 DEF WritesTo
      <4>2. l # k
        BY <3>1, <4>1
      <4>3. l \in DOMAIN jt /\ \A m \in DOMAIN jt : WritesTo(jt[m], x) <=> m = l
        BY <3>1, <4>2
      <4> QED
        BY <2>4, <3>3, <4>3
    <3> QED
      BY <3>2, <3>3
  <2> QED
    BY <2>1, <2>2, <2>3, <2>4
<1> QED
  BY <1>1, <1>2 DEF StoredBytes

(***************************************************************************)
(* Open files that are not on the inode that is written to are as before.  *)
(***************************************************************************)
LEMMA DisturbedKept ==
  ASSUME NEW f \in FileType, NEW by, NEW bz, NEW ino, f.ino \in DOMAIN by, Kept(f, "go", by),
         \A x \in DOMAIN by : x \in DOMAIN bz, \A x \in DOMAIN by : x # ino => bz[x] = by[x]
  PROVE  LET g == [f EXCEPT !.disturbed = @ \/ f.ino = ino]
         IN  g \in FileType /\ g.ino = f.ino /\ Kept(g, "go", bz)
<1> DEFINE g == [f EXCEPT !.disturbed = @ \/ f.ino = ino]
<1>1. f.disturbed \in BOOLEAN
  BY DEF FileType
<1>2. g \in FileType
  BY <1>1 DEF FileType
<1>3. /\ g.ino = f.ino /\ g.size = f.size /\ g.data = f.data /\ g.pos = f.pos /\ g.want = f.want
      /\ g.got = f.got /\ g.over = f.over /\ (g.disturbed <=> f.disturbed \/ f.ino = ino)
  BY <1>1 DEF FileType
<1> HIDE DEF g
<1>4. CASE f.disturbed \/ f.ino = ino
  BY <1>2, <1>3, <1>4 DEF Kept, g
<1>5. CASE ~(f.disturbed \/ f.ino = ino)
  <2>1. Intact(f, "go", by)
    BY <1>5 DEF Kept
  <2>2. bz[f.ino] = by[f.ino] /\ f.ino \in DOMAIN bz
    BY <1>5
  <2>3. Intact(g, "go", bz)
    <3>1. g.ino \in DOMAIN bz /\ bz[g.ino] = g.data /\ g.size = Len(g.data)
      BY <1>3, <2>1, <2>2 DEF Intact
    <3>2. /\ g.pos <= Len(g.data) /\ Len(g.want) <= Len(g.data)
          /\ Len(g.got) + Len(g.data) = Len(g.want) + g.pos
      BY <1>3, <2>1 DEF Intact
    <3>3. \A i \in 1 .. Len(g.want) : g.want[i] = g.data[(Len(g.data) - Len(g.want)) + i]
      <4>1. \A i \in 1 .. Len(f.want) : f.want[i] = f.data[(Len(f.data) - Len(f.want)) + i]
        BY <2>1 DEF Intact
      <4>2. g.want = f.want /\ g.data = f.data
        BY <1>3
      <4> QED
        BY <4>1, <4>2
    <3>4. \A i \in 1 .. Len(g.got) : g.got[i] = g.want[i]
      BY <1>3, <2>1 DEF Intact
    <3>5. g.over => g.pos = Len(g.data)
      BY <1>3, <2>1 DEF Intact
    <3> QED
      BY <3>1, <3>2, <3>3, <3>4, <3>5 DEF Intact
  <2> QED
    BY <1>2, <1>3, <2>3 DEF Kept, g
<1> QED
  BY <1>4, <1>5

-----------------------------------------------------------------------------
(* The steps of ObtainFile.                                                *)

(***************************************************************************)
(* What the answer r allows job k to do next, with the PDUs q left.        *)
(***************************************************************************)
Takes(j, k, r, name, js, a, cs, q, le) ==
  /\ j.at = "open" /\ r.code = "ok" => ReadsAlone(k, [j EXCEPT !.id = r.id], name, js, a, cs, q, le)
  /\ j.at = "read" /\ r.code = "ok" /\ ~Endless(r) =>
       /\ Part(r, ClientFiles[name], Len(j.data))
       /\ r.more => ReadsAlone(k, [j EXCEPT !.data = @ \o r.chunk], name, js, a, cs, q, le)

(***************************************************************************)
(* The first PDU answers the call of job k.                                *)
(***************************************************************************)
LEMMA AnswerTakes ==
  ASSUME NEW js, NEW a, NEW cs, NEW q \in Seq(PduType), NEW le \in Seq(LentType), NEW v, NEW st,
         NEW k \in Of(js, a), NEW name, name = st[k[2]].op.name, name \in FileNames,
         Calls(js, a, cs, q, le, v, st), js[k] \in JobType, Fetched(js[k], ClientFiles[name]),
         \A i \in DOMAIN cs : cs[i].inv \in Nat,
         q # << >>, q[1].kind = "answer", q[1].inv = js[k].inv, Waits(js[k])
  PROVE  Takes(js[k], k, q[1].res, name, js, a, cs, Tail(q), le)
<1> DEFINE p == q[1]
           j == js[k]
           r == p.res
           t == Tail(q)
<1>1. 1 \in DOMAIN q /\ p \in PduType /\ \A i \in DOMAIN t : i + 1 \in DOMAIN q /\ t[i] = q[i + 1] /\ i + 1 # 1
  BY Tailed
<1>2. p.inv \in Nat /\ r \in ResType
  BY <1>1 DEF PduType
<1>3. FitsOpen(j, name, q, le) /\ FitsRead(j, name, q, le) /\ FitsLent(j, name, le)
  BY DEF Calls, Fits, FitsJob
<1>4. j.at \in {"open", "read", "close", "done", "writing"} /\ j.data \in Seq(Byte) /\ j.id \in Nat /\ Len(j.data) \in Nat
  BY LenProperties DEF JobType
<1> HIDE DEF t
<1>5. ASSUME j.at = "open", r.code = "ok" PROVE ReadsAlone(k, [j EXCEPT !.id = r.id], name, js, a, cs, t, le)
  <2> DEFINE n == [j EXCEPT !.id = r.id]
  <2>1. n.id = r.id /\ n.data = j.data
    BY DEF JobType
  <2> HIDE DEF n
  <2>2. r.id \in DOMAIN le /\ r.id # 0 /\ le[r.id].src = name /\ le[r.id].pos = 0
    BY <1>1, <1>3, <1>5 DEF FitsOpen, IsAnswer
  <2>3. Len(j.data) = 0
    BY <1>5 DEF Fetched
  <2>4. Fresh(p)
    BY <1>5, <2>2 DEF Fresh, IsAnswer
  <2>5. /\ \A l \in Of(js, a) : js[l].at = "read" => js[l].id # r.id
        /\ \A i \in DOMAIN cs : cs[i].svc = "read" => cs[i].id # r.id
    BY <1>1, <2>4 DEF Calls, FreshUnread
  <2>6. \A i \in DOMAIN t : Fresh(t[i]) => t[i].res.id # r.id
    BY <1>1, <2>4 DEF Calls, FreshOnce
  <2>7. ReadsAlone(k, n, name, js, a, cs, t, le)
    BY <2>1, <2>2, <2>3, <2>5, <2>6 DEF ReadsAlone
  <2> QED
    BY <2>7 DEF n
<1>6. ASSUME j.at = "read", r.code = "ok", ~Endless(r)
      PROVE  /\ Part(r, ClientFiles[name], Len(j.data))
             /\ r.more => ReadsAlone(k, [j EXCEPT !.data = @ \o r.chunk], name, js, a, cs, t, le)
  <2> DEFINE n == [j EXCEPT !.data = @ \o r.chunk]
  <2>1. n.id = j.id /\ n.data = j.data \o r.chunk
    BY DEF JobType
  <2> HIDE DEF n
  <2>2. Part(r, ClientFiles[name], Len(j.data)) /\ le[j.id].pos = Len(j.data) + 1
    BY <1>1, <1>3, <1>6 DEF FitsRead, IsAnswer
  <2>3. ClientFiles[name] \in Seq(Byte) /\ Begins(j.data, ClientFiles[name])
    BY <1>6, FilesAssumption DEF Fetched, FileNames
  <2>4. r.more => Len(n.data) = Len(j.data) + 1
    BY <1>2, <1>4, <2>1, <2>2, <2>3, PartFetched
  <2>5. j.id \in DOMAIN le /\ le[j.id].src = name
    BY <1>3, <1>6 DEF FitsLent
  <2>6. \A l \in Of(js, a) : l # k /\ js[l].at = "read" => js[l].id # j.id
    BY <1>6 DEF Calls, JobsApart
  <2>7. \A i \in DOMAIN cs : cs[i].svc = "read" => cs[i].id # j.id
    <3> SUFFICES ASSUME NEW i \in DOMAIN cs, cs[i].svc = "read", cs[i].id = j.id PROVE FALSE
      OBVIOUS
    <3>1. cs[i].inv = j.inv
      BY <1>6 DEF Calls, OwnReads
    <3>2. p.inv < cs[i].inv
      BY <1>1 DEF Calls, AnswersFirst, IsAnswer
    <3> QED
      BY <1>2, <3>1, <3>2, Apart
  <2>8. \A i \in DOMAIN t : Fresh(t[i]) => t[i].res.id # j.id
    <3>1. \A i \in DOMAIN q : Fresh(q[i]) => q[i].res.id # j.id
      BY <1>6 DEF Calls, FreshUnread
    <3> QED
      BY <1>1, <3>1
  <2>9. r.more => ReadsAlone(k, n, name, js, a, cs, t, le)
    BY <2>1, <2>2, <2>4, <2>5, <2>6, <2>7, <2>8 DEF ReadsAlone
  <2> QED
    BY <2>2, <2>9 DEF n
<1> QED
  BY <1>5, <1>6 DEF Takes, t

(***************************************************************************)
(* Asking: job k, as j, calls svc.                                         *)
(***************************************************************************)
OwnType(c, v, js) ==
  /\ c \in [Users -> Seq(AskType)] /\ v \in [Users -> Nat]
  /\ DOMAIN js \subseteq Users \X Nat /\ js \in [DOMAIN js -> JobType]

HasAsked(jt, ct, vt, k, j, q) ==
  /\ OwnType(ct, vt, jt)
  /\ DOMAIN jt = DOMAIN jobs \cup {k} /\ (\A l \in DOMAIN jobs : l # k => jt[l] = jobs[l]) /\ jt[k] = j
  /\ \A b \in Users : b # k[1] => ct[b] = asks[b] /\ vt[b] = inv[b]
  /\ Calls(jt, k[1], ct[k[1]], q, lent[k[1]], vt[k[1]], sent[k[1]])

(* Asking does what HasAsked says.                                         *)
LEMMA AskingStep ==
  ASSUME FilesTypeOK, NEW k \in Users \X Nat, NEW j \in JobType, NEW svc \in {"open", "read", "close"},
         NEW q \in Seq(PduType), NEW name, Asking(k, j, svc),
         Calls(jobs, k[1], asks[k[1]], q, lent[k[1]], inv[k[1]], sent[k[1]]),
         k[2] \in DOMAIN sent[k[1]], sent[k[1]][k[2]].op.svc = "obtain", name = sent[k[1]][k[2]].op.name,
         \A i \in DOMAIN q : q[i].kind = "request" => k[2] < q[i].n,
         svc = "read" => ReadsAlone(k, j, name, jobs, k[1], asks[k[1]], q, lent[k[1]])
  PROVE  HasAsked(jobs', asks', inv', k, [j EXCEPT !.at = svc, !.inv = inv[k[1]] + 1], q)
<1> DEFINE a == k[1]
           n == [j EXCEPT !.at = svc, !.inv = inv[a] + 1]
           c == [inv |-> n.inv, svc |-> svc, id |-> j.id, src |-> name]
<1>1. a \in Users /\ inv[a] \in Nat /\ k[2] \in Nat
  BY DEF FilesTypeOK
<1>2. asks[a] \in Seq(AskType) /\ lent[a] \in Seq(LentType) /\ sent[a] \in Seq(SentType)
  BY <1>1 DEF FilesTypeOK, LentType, SentType
<1>3. inv' = [inv EXCEPT ![a] = @ + 1] /\ jobs' = Set(jobs, k, n)
  BY DEF Asking, User
<1>4. asks' = asks \/ asks' = [asks EXCEPT ![a] = Append(@, c)]
  BY Zenon DEF Asking, User, Req
<1>5. n \in JobType /\ n.at = svc /\ n.inv = inv[a] + 1 /\ n.id = j.id /\ n.data = j.data
  <2> DEFINE v == inv[a] + 1
  <2>1. v \in Nat
    BY <1>1
  <2> HIDE DEF v
  <2>2. LET m == [j EXCEPT !.at = svc, !.inv = v]
        IN  m \in JobType /\ m.at = svc /\ m.inv = v /\ m.id = j.id /\ m.data = j.data
    BY <2>1 DEF JobType
  <2> QED
    BY <2>2 DEF v
<1>6. name \in FileNames
  <2>1. sent[a][k[2]] \in SentType
    BY <1>2, Elements
  <2>2. sent[a][k[2]].op \in Ops
    BY <2>1 DEF SentType
  <2> QED
    BY <2>2, FilesAssumption DEF FileNames
<1>7. c \in AskType /\ c = [inv |-> inv[a] + 1, svc |-> n.at, id |-> n.id, src |-> name]
  <2>1. j.id \in Nat
    BY DEF JobType
  <2> QED
    BY <1>1, <1>5, <1>6, <2>1 DEF AskType
<1> HIDE DEF n, c
<1>8. inv' \in [Users -> Nat] /\ inv'[a] = inv[a] + 1 /\ \A b \in Users : b # a => inv'[b] = inv[b]
  <2>1. inv \in [Users -> Nat]
    BY DEF FilesTypeOK
  <2>2. inv[a] + 1 \in Nat
    BY <1>1
  <2>3. inv' = [inv EXCEPT ![a] = inv[a] + 1]
    BY <1>3
  <2> QED
    BY <1>1, <2>1, <2>2, <2>3
<1>9. /\ DOMAIN jobs' = DOMAIN jobs \cup {k} /\ jobs'[k] = n
      /\ \A l \in DOMAIN jobs : l # k => jobs'[l] = jobs[l]
      /\ jobs' = [z \in DOMAIN jobs' |-> jobs'[z]]
  BY <1>3 DEF Set
<1>10. DOMAIN jobs' \subseteq Users \X Nat /\ jobs' \in [DOMAIN jobs' -> JobType]
  <2>1. \A l \in DOMAIN jobs : jobs[l] \in JobType /\ l \in Users \X Nat
    BY DEF FilesTypeOK
  <2>2. \A l \in DOMAIN jobs' : jobs'[l] \in JobType /\ l \in Users \X Nat
    BY <1>5, <1>9, <2>1
  <2> QED
    BY <1>9, <2>2
<1>11. /\ asks' \in [Users -> Seq(AskType)] /\ (asks'[a] = asks[a] \/ asks'[a] = Append(asks[a], c))
       /\ \A b \in Users : b # a => asks'[b] = asks[b]
  <2>1. asks \in [Users -> Seq(AskType)]
    BY DEF FilesTypeOK
  <2>2. Append(asks[a], c) \in Seq(AskType)
    BY <1>2, <1>7, Appended
  <2> QED
    BY <1>1, <1>4, <2>1, <2>2
<1>12. Calls(jobs', a, asks'[a], q, lent[a], inv[a] + 1, sent[a])
  <2>1. n.at = "read" => ReadsAlone(k, n, name, jobs, a, asks[a], q, lent[a])
    BY <1>5 DEF ReadsAlone
  <2>2. \A l \in Of(jobs', a) : l = k \/ (l \in Of(jobs, a) /\ jobs'[l] = jobs[l])
    BY <1>9 DEF Of
  <2>3. jobs \in [DOMAIN jobs -> JobType]
    BY DEF FilesTypeOK
  <2> DEFINE js == jobs
             jt == jobs'
             cs == asks[a]
             bs == asks'[a]
             le == lent[a]
             v == inv[a]
             st == sent[a]
  <2>4. js \in [DOMAIN js -> JobType] /\ Calls(js, a, cs, q, le, v, st)
    BY <2>3
  <2>5. cs \in Seq(AskType) /\ le \in Seq(LentType) /\ v \in Nat /\ st \in Seq(SentType)
    BY <1>1, <1>2
  <2>6. k[2] \in DOMAIN st /\ st[k[2]].op.svc = "obtain" /\ name = st[k[2]].op.name
    OBVIOUS
  <2>7. q \in Seq(PduType) /\ \A i \in DOMAIN q : q[i].kind = "request" => k[2] < q[i].n
    OBVIOUS
  <2>8. /\ \A l \in Of(jt, a) : l = k \/ (l \in Of(js, a) /\ jt[l] = js[l])
        /\ jt[k] \in JobType /\ jt[k].at \in {"open", "read", "close"} /\ jt[k].inv = v + 1
        /\ jt[k].at = "read" => ReadsAlone(k, jt[k], name, js, a, cs, q, le)
    BY <1>5, <1>9, <2>1, <2>2
  <2>9. bs = cs \/ bs = Append(cs, [inv |-> v + 1, svc |-> jt[k].at, id |-> jt[k].id, src |-> name])
    BY <1>7, <1>9, <1>11
  <2> HIDE DEF js, jt, bs, cs, le, v, st, a
  <2>10. Calls(jt, a, bs, q, le, v + 1, st)
    <3>1. AsksNow(js, jt, a, cs, bs, q, le, v, st, k, name)
      BY <2>4, <2>6, <2>7, <2>8, <2>9 DEF AsksNow
    <3> QED
      BY <2>5, <2>7, <3>1, AskCalls
  <2> QED
    BY <2>10 DEF jt, bs, le, v, st
<1> QED
  BY <1>8, <1>9, <1>10, <1>11, <1>12 DEF HasAsked, OwnType, n

(***************************************************************************)
(* Resume: the call of job k has returned r.                               *)
(***************************************************************************)
Resumed(jt, ct, vt, k, q) ==
  /\ OwnType(ct, vt, jt)
  /\ DOMAIN jt = DOMAIN jobs \cup {k} /\ \A l \in DOMAIN jobs : l # k => jt[l] = jobs[l]
  /\ jt[k].at # "writing" /\ Fetched(jt[k], Asked(k))
  /\ \A b \in Users : b # k[1] => ct[b] = asks[b] /\ vt[b] = inv[b]
  /\ Calls(jt, k[1], ct[k[1]], q, lent[k[1]], vt[k[1]], sent[k[1]])

(* Resume does what Resumed says.                                          *)
LEMMA ResumeStep ==
  ASSUME FilesTypeOK, FetchedOK, NEW k \in DOMAIN jobs, Calling(k), NEW r \in ResType, NEW q \in Seq(PduType),
         Calls(jobs, k[1], asks[k[1]], q, lent[k[1]], inv[k[1]], sent[k[1]]),
         Takes(jobs[k], k, r, sent[k[1]][k[2]].op.name, jobs, k[1], asks[k[1]], q, lent[k[1]]),
         Resume(k, r)
  PROVE  Resumed(jobs', asks', inv', k, q)
<1> DEFINE a == k[1]
           j == jobs[k]
           name == sent[a][k[2]].op.name
           f == ClientFiles[name]
<1>1. k \in Users \X Nat /\ a \in Users /\ j \in JobType
  BY DEF FilesTypeOK
<1>2. k \in Of(jobs, a)
  BY DEF Of
<1>3. k[2] \in DOMAIN sent[a] /\ sent[a][k[2]].op.svc = "obtain"
  BY <1>2 DEF Calls, JobsSent
<1>4. \A i \in DOMAIN q : q[i].kind = "request" => k[2] < q[i].n
  BY <1>2 DEF Calls, RequestsSent
<1>5. Fetched(j, f) /\ f = Asked(k)
  BY DEF FetchedOK, Asked
<1>6. name \in FileNames /\ f \in Seq(Byte)
  <2>1. sent[a] \in Seq(SentType)
    BY <1>1 DEF FilesTypeOK, SentType
  <2>2. sent[a][k[2]] \in SentType
    BY <1>3, <2>1, Elements
  <2>3. sent[a][k[2]].op \in Ops
    BY <2>2 DEF SentType
  <2> QED
    BY <1>3, <2>3, FilesAssumption DEF FileNames
<1>7. j.at \in {"open", "read", "close"}
  BY DEF Calling
<1>8. /\ r.code \in Codes /\ r.id \in Nat /\ r.chunk \in Seq(Byte) /\ r.more \in BOOLEAN
      /\ j.code \in Codes /\ j.data \in Seq(Byte) /\ j.data \o r.chunk \in Seq(Byte)
  <2>1. r.chunk \in Seq(Byte) /\ j.data \in Seq(Byte)
    BY <1>1 DEF ResType, JobType
  <2> QED
    BY <1>1, <2>1, ConcatProperties DEF ResType, JobType
<1>9. Takes(j, k, r, name, jobs, a, asks[a], q, lent[a])
  OBVIOUS
<1> HIDE DEF j, name, f
<1>10. ASSUME NEW g \in JobType, NEW svc \in {"open", "read", "close"}, Asking(k, g, svc),
              svc = "read" => ReadsAlone(k, g, name, jobs, a, asks[a], q, lent[a]),
              svc = "read" => g.code = "ok" /\ Begins(g.data, f),
              svc = "close" => (g.code = "ok" => g.data = f), svc # "open"
       PROVE  Resumed(jobs', asks', inv', k, q)
  <2> DEFINE n == [g EXCEPT !.at = svc, !.inv = inv[a] + 1]
  <2>1. HasAsked(jobs', asks', inv', k, n, q)
    BY <1>1, <1>3, <1>4, <1>10, AskingStep DEF name
  <2>2. n.at = svc /\ n.code = g.code /\ n.data = g.data
    BY DEF JobType
  <2> HIDE DEF n
  <2>3. Fetched(n, f)
    BY <1>10, <2>2 DEF Fetched
  <2> QED
    BY <1>5, <1>10, <2>1, <2>2, <2>3 DEF Resumed, HasAsked
<1>11. ASSUME NEW n \in JobType, n.at = "done", jobs' = Set(jobs, k, n), asks' = asks, inv' = inv, Fetched(n, f)
       PROVE  Resumed(jobs', asks', inv', k, q)
  <2>1. /\ DOMAIN jobs' = DOMAIN jobs /\ jobs'[k] = n
        /\ \A l \in DOMAIN jobs : l # k => jobs'[l] = jobs[l]
        /\ jobs' = [z \in DOMAIN jobs |-> jobs'[z]]
    BY <1>11 DEF Set
  <2>2. \A l \in DOMAIN jobs : jobs[l] \in JobType
    BY DEF FilesTypeOK
  <2>3. jobs' \in [DOMAIN jobs' -> JobType]
    BY <1>11, <2>1, <2>2
  <2>4. OwnType(asks', inv', jobs')
    BY <1>11, <2>1, <2>3 DEF OwnType, FilesTypeOK
  <2>5. \A l \in Of(jobs', a) : l \in Of(jobs, a) /\ (jobs'[l] = jobs[l] \/ ~Waits(jobs'[l]))
    BY <1>11, <2>1 DEF Of, Waits
  <2>6. Calls(jobs', a, asks[a], q, lent[a], inv[a], sent[a])
    BY <2>5, LessCalls
  <2> QED
    BY <1>5, <1>11, <2>1, <2>4, <2>6 DEF Resumed
<1>12. CASE j.at = "open"
  <2>1. j.data = << >> /\ j.code = "ok"
    BY <1>5, <1>12 DEF Fetched
  <2>2. CASE r.code = "ok"
    <3> DEFINE g == [j EXCEPT !.id = r.id]
    <3>1. Asking(k, g, "read")
      BY <1>12, <2>2 DEF Resume, j
    <3>2. g \in JobType /\ g.code = j.code /\ g.data = j.data
      BY <1>1, <1>8 DEF JobType
    <3>3. ReadsAlone(k, g, name, jobs, a, asks[a], q, lent[a])
      BY <1>9, <1>12, <2>2 DEF Takes
    <3> HIDE DEF g
    <3>4. Begins(g.data, f)
      <4>1. Len(g.data) = 0 /\ Len(f) \in Nat
        BY <1>6, <2>1, <3>2, LenProperties
      <4> QED
        BY <4>1 DEF Begins
    <3> QED
      BY <1>10, <2>1, <3>1, <3>2, <3>3, <3>4
  <2>3. CASE r.code # "ok"
    <3> DEFINE n == [j EXCEPT !.at = "done", !.code = r.code]
    <3>1. jobs' = Set(jobs, k, n) /\ asks' = asks /\ inv' = inv
      BY <1>12, <2>3 DEF Resume, j
    <3>2. n \in JobType /\ n.at = "done" /\ n.code = r.code
      BY <1>1, <1>8 DEF JobType
    <3> HIDE DEF n
    <3>3. Fetched(n, f)
      BY <2>3, <3>2 DEF Fetched
    <3> QED
      BY <1>11, <3>1, <3>2, <3>3
  <2> QED
    BY <2>2, <2>3
<1>13. CASE j.at = "read"
  <2>1. j.code = "ok" /\ Begins(j.data, f)
    BY <1>5, <1>13 DEF Fetched
  <2>2. CASE r.code # "ok"
    <3> DEFINE g == [j EXCEPT !.code = r.code]
    <3>1. Asking(k, g, "close")
      BY <1>13, <2>2 DEF Resume, j
    <3>2. g \in JobType /\ g.code = r.code
      BY <1>1, <1>8 DEF JobType
    <3> HIDE DEF g
    <3> QED
      BY <1>10, <2>2, <3>1, <3>2
  <2>3. CASE r.code = "ok" /\ Endless(r)
    <3> DEFINE h == [j EXCEPT !.data = @ \o r.chunk]
               g == [h EXCEPT !.code = "file-other"]
    <3>1. Asking(k, g, "close")
      BY <1>13, <2>3 DEF Resume, j
    <3>2. h \in JobType
      BY <1>1, <1>8 DEF JobType
    <3> HIDE DEF h
    <3>3. g \in JobType /\ g.code = "file-other"
      BY <3>2 DEF JobType, Codes
    <3> HIDE DEF g
    <3> QED
      BY <1>10, <3>1, <3>3
  <2>4. CASE r.code = "ok" /\ ~Endless(r)
    <3> DEFINE g == [j EXCEPT !.data = @ \o r.chunk]
    <3>1. Asking(k, g, IF r.more THEN "read" ELSE "close")
      BY <1>13, <2>4 DEF Resume, j
    <3>2. g \in JobType /\ g.code = j.code /\ g.data = j.data \o r.chunk
      BY <1>1, <1>8 DEF JobType
    <3>3. Part(r, f, Len(j.data)) /\ (r.more => ReadsAlone(k, g, name, jobs, a, asks[a], q, lent[a]))
      BY <1>9, <1>13, <2>4 DEF Takes, f
    <3> HIDE DEF g
    <3>4. (r.more => Begins(g.data, f)) /\ (~r.more => g.data = f)
      <4> DEFINE d == j.data
      <4>1. d \in Seq(Byte) /\ f \in Seq(Byte) /\ Begins(d, f) /\ Part(r, f, Len(d))
        BY <1>6, <1>8, <2>1, <3>3
      <4> HIDE DEF d
      <4>2. (r.more => Begins(d \o r.chunk, f)) /\ (~r.more => d \o r.chunk = f)
        BY <4>1, PartFetched, Zenon
      <4> QED
        BY <3>2, <4>2 DEF d
    <3>5. CASE r.more
      <4>1. Asking(k, g, "read")
        BY <3>1, <3>5
      <4> QED
        BY <1>10, <2>1, <3>2, <3>3, <3>4, <3>5, <4>1
    <3>6. CASE ~r.more
      <4>1. Asking(k, g, "close")
        BY <3>1, <3>6
      <4> QED
        BY <1>10, <3>2, <3>4, <3>6, <4>1
    <3> QED
      BY <3>5, <3>6
  <2> QED
    BY <2>2, <2>3, <2>4
<1>14. CASE j.at = "close"
  <2> DEFINE n == [j EXCEPT !.at = "done"]
  <2>1. jobs' = Set(jobs, k, n) /\ asks' = asks /\ inv' = inv
    BY <1>14 DEF Resume, j
  <2>2. n \in JobType /\ n.at = "done" /\ n.code = j.code /\ n.data = j.data
    BY <1>1 DEF JobType
  <2> HIDE DEF n
  <2>3. Fetched(n, f)
    BY <1>5, <1>14, <2>2 DEF Fetched
  <2> QED
    BY <1>11, <2>1, <2>2, <2>3
<1> QED
  BY <1>7, <1>12, <1>13, <1>14

-----------------------------------------------------------------------------
(* Every step keeps the invariant.                                         *)

(* What ObtainFile's calls leave alone.                                    *)
storeVars == <<side, disk, told, files, plan, sent, alive, lent>>

(***************************************************************************)
(* The server has taken a PDU of a, and nothing else has changed.          *)
(***************************************************************************)
LEMMA PoppedInv ==
  ASSUME FilesInv, NEW a \in Users, inq[a] # << >>, Popped(a), UNCHANGED <<storeVars, asks, inv, jobs>>
  PROVE  FilesInv'
<1>1. inq[a] \in Seq(PduType)
  BY DEF FilesInv, FilesTypeOK
<1>2. Tail(inq[a]) \in Seq(PduType)
  BY <1>1, Tailed
<1>3. inq' \in [Users -> Seq(PduType)] /\ inq'[a] = Tail(inq[a]) /\ \A b \in Users : b # a => inq'[b] = inq[b]
  BY <1>2 DEF FilesInv, FilesTypeOK, Popped
<1>4. FilesTypeOK'
  BY <1>3 DEF FilesInv, FilesTypeOK, storeVars, disk
<1>5. ASSUME NEW b \in Users PROVE Calls(jobs', b, asks'[b], inq'[b], lent'[b], inv'[b], sent'[b])
  <2>1. Calls(jobs, b, asks[b], inq[b], lent[b], inv[b], sent[b])
    BY DEF FilesInv, CallsOK
  <2>2. jobs' = jobs /\ asks' = asks /\ lent' = lent /\ inv' = inv /\ sent' = sent
    BY DEF storeVars
  <2>3. CASE b = a
    <3>1. Calls(jobs, a, asks[a], Tail(inq[a]), lent[a], inv[a], sent[a])
      BY <1>1, <2>1, <2>3, PopCalls
    <3> QED
      BY <1>3, <2>2, <2>3, <3>1
  <2>4. CASE b # a
    BY <1>3, <2>1, <2>2, <2>4
  <2> QED
    BY <2>3, <2>4
<1>6. CallsOK'
  BY <1>5 DEF CallsOK
<1>7. FetchedOK'
  BY DEF FilesInv, FetchedOK, Asked, storeVars
<1>8. StoredOK'
  BY DEF FilesInv, StoredOK, storeVars, disk
<1>9. KeptOK'
  BY DEF FilesInv, KeptOK, storeVars, disk
<1>10. ToldOK'
  BY DEF FilesInv, ToldOK, storeVars
<1> QED
  BY <1>4, <1>6, <1>7, <1>8, <1>9, <1>10 DEF FilesInv

(***************************************************************************)
(* A call of job k has returned, or k begins; q are the PDUs left.         *)
(***************************************************************************)
LEMMA ResumedInv ==
  ASSUME FilesInv, NEW k, NEW q \in Seq(PduType), Resumed(jobs', asks', inv', k, q),
         ~(k \in DOMAIN jobs /\ jobs[k].at = "writing"), inq' \in [Users -> Seq(PduType)], inq'[k[1]] = q,
         \A b \in Users : b # k[1] => inq'[b] = inq[b], UNCHANGED storeVars
  PROVE  FilesInv'
<1>1. /\ OwnType(asks', inv', jobs')
      /\ DOMAIN jobs' = DOMAIN jobs \cup {k} /\ \A l \in DOMAIN jobs : l # k => jobs'[l] = jobs[l]
      /\ jobs'[k].at # "writing" /\ Fetched(jobs'[k], Asked(k))
      /\ \A b \in Users : b # k[1] => asks'[b] = asks[b] /\ inv'[b] = inv[b]
      /\ Calls(jobs', k[1], asks'[k[1]], q, lent[k[1]], inv'[k[1]], sent[k[1]])
  BY DEF Resumed
<1>2. FilesTypeOK'
  BY <1>1 DEF FilesInv, FilesTypeOK, OwnType, storeVars, disk
<1>3. ASSUME NEW b \in Users PROVE Calls(jobs', b, asks'[b], inq'[b], lent'[b], inv'[b], sent'[b])
  <2>1. Calls(jobs, b, asks[b], inq[b], lent[b], inv[b], sent[b])
    BY DEF FilesInv, CallsOK
  <2>2. lent' = lent /\ sent' = sent
    BY DEF storeVars
  <2>3. CASE b = k[1]
    BY <1>1, <2>2, <2>3
  <2>4. CASE b # k[1]
    <3>1. \A l \in Of(jobs', b) : l \in Of(jobs, b) /\ (jobs'[l] = jobs[l] \/ ~Waits(jobs'[l]))
      BY <1>1, <2>4 DEF Of
    <3>2. Calls(jobs', b, asks[b], inq[b], lent[b], inv[b], sent[b])
      BY <2>1, <3>1, LessCalls
    <3> QED
      BY <1>1, <2>2, <2>4, <3>2
  <2> QED
    BY <2>3, <2>4
<1>4. CallsOK'
  BY <1>3 DEF CallsOK
<1>5. FetchedOK'
  BY <1>1 DEF FilesInv, FetchedOK, Asked, storeVars
<1>6. StoredOK'
  <2>1. StoredBytes(jobs', side, bytes, torn)
    BY <1>1, SameWriters DEF FilesInv, StoredOK
  <2> QED
    BY <2>1 DEF StoredOK, storeVars, disk
<1>7. KeptOK'
  BY DEF FilesInv, KeptOK, storeVars, disk
<1>8. ToldOK'
  BY DEF FilesInv, ToldOK, storeVars
<1> QED
  BY <1>2, <1>4, <1>5, <1>6, <1>7, <1>8 DEF FilesInv

(***************************************************************************)
(* A call fails, for job k and with the PDUs q left.                       *)
(***************************************************************************)
LEMMA FailedCall ==
  ASSUME FilesInv, NEW k \in DOMAIN jobs, Calling(k), NEW q \in Seq(PduType),
         Calls(jobs, k[1], asks[k[1]], q, lent[k[1]], inv[k[1]], sent[k[1]]), Resume(k, Other)
  PROVE  Resumed(jobs', asks', inv', k, q)
<1>1. Other \in ResType /\ Other.code = "file-other"
  <2>1. << >> \in Seq(Byte)
    OBVIOUS
  <2> QED
    BY <2>1 DEF Other, Failure, ResType, Codes
<1>2. \A name : Takes(jobs[k], k, Other, name, jobs, k[1], asks[k[1]], q, lent[k[1]])
  BY <1>1 DEF Takes
<1> QED
  BY <1>1, <1>2, ResumeStep DEF FilesInv

(* A call of job k times out.                                              *)
LEMMA CallFailsInv ==
  ASSUME FilesInv, NEW k \in DOMAIN jobs, CallFails(k)
  PROVE  FilesInv'
<1>1. k[1] \in Users /\ inq[k[1]] \in Seq(PduType)
  BY DEF FilesInv, FilesTypeOK
<1>2. Calls(jobs, k[1], asks[k[1]], inq[k[1]], lent[k[1]], inv[k[1]], sent[k[1]])
  BY <1>1 DEF FilesInv, CallsOK
<1>3. Calling(k) /\ Resume(k, Other) /\ inq' = inq /\ UNCHANGED storeVars
  BY DEF CallFails, storeVars
<1>4. Resumed(jobs', asks', inv', k, inq[k[1]])
  BY <1>1, <1>2, <1>3, FailedCall
<1>5. inq' \in [Users -> Seq(PduType)] /\ ~(jobs[k].at = "writing")
  BY <1>3 DEF FilesInv, FilesTypeOK, Calling
<1> QED
  BY <1>1, <1>3, <1>4, <1>5, ResumedInv

(***************************************************************************)
(* The loops: an answer reaches its job, or is dropped, or a request is.   *)
(***************************************************************************)
LEMMA TakeAnswerInv ==
  ASSUME FilesInv, NEW a \in Users, TakeAnswer(a)
  PROVE  FilesInv'
<1>1. PICK k \in JobsOf(a) : Mine(k, Head(inq[a])) /\ Resume(k, Head(inq[a]).res)
  BY DEF TakeAnswer
<1>2. k \in DOMAIN jobs /\ k[1] = a /\ k \in Of(jobs, a)
  BY DEF JobsOf, User, Of
<1>3. inq[a] # << >> /\ Popped(a) /\ UNCHANGED storeVars
  BY DEF TakeAnswer, storeVars, peers
<1> DEFINE q == inq[a]
           t == Tail(q)
           name == sent[a][k[2]].op.name
<1>4. q \in Seq(PduType) /\ lent[a] \in Seq(LentType) /\ jobs[k] \in JobType /\ asks[a] \in Seq(AskType)
  BY <1>2 DEF FilesInv, FilesTypeOK, LentType
<1>5. t \in Seq(PduType) /\ Head(q) = q[1] /\ q[1] \in PduType
  BY <1>3, <1>4, Tailed
<1>6. Calls(jobs, a, asks[a], q, lent[a], inv[a], sent[a])
  BY DEF FilesInv, CallsOK
<1>7. Calls(jobs, a, asks[a], t, lent[a], inv[a], sent[a])
  BY <1>3, <1>4, <1>6, PopCalls
<1>8. Calling(k) /\ q[1].kind = "answer" /\ q[1].inv = jobs[k].inv /\ Waits(jobs[k])
  BY <1>1, <1>5 DEF Mine, Calling, Waits
<1>9. q[1].res \in ResType
  BY <1>5, <1>8 DEF PduType
<1>10. Fetched(jobs[k], ClientFiles[name])
  BY <1>2 DEF FilesInv, FetchedOK, Asked
<1>11. name \in FileNames
  <2>1. k[2] \in DOMAIN sent[a] /\ sent[a][k[2]].op.svc = "obtain"
    BY <1>2, <1>6 DEF Calls, JobsSent
  <2>2. sent[a] \in Seq(SentType)
    BY DEF FilesInv, FilesTypeOK, SentType
  <2>3. sent[a][k[2]] \in SentType
    BY <2>1, <2>2, Elements
  <2>4. sent[a][k[2]].op \in Ops
    BY <2>3 DEF SentType
  <2> QED
    BY <2>1, <2>4, FilesAssumption DEF FileNames
<1>12. \A i \in DOMAIN asks[a] : asks[a][i].inv \in Nat
  <2>1. \A i \in DOMAIN asks[a] : asks[a][i] \in AskType
    BY <1>4, Elements
  <2> QED
    BY <2>1 DEF AskType
<1>13. Takes(jobs[k], k, q[1].res, name, jobs, a, asks[a], t, lent[a])
  BY <1>2, <1>3, <1>4, <1>6, <1>8, <1>10, <1>11, <1>12, AnswerTakes
<1>14. Resume(k, q[1].res)
  BY <1>1, <1>5
<1>15. FilesTypeOK /\ FetchedOK
  BY DEF FilesInv
<1> HIDE DEF t
<1>16. Resumed(jobs', asks', inv', k, t)
  BY <1>2, <1>5, <1>7, <1>8, <1>9, <1>13, <1>14, <1>15, ResumeStep
<1>17. inq' \in [Users -> Seq(PduType)] /\ inq'[a] = t /\ \A b \in Users : b # a => inq'[b] = inq[b]
  BY <1>3, <1>5 DEF FilesInv, FilesTypeOK, Popped, t
<1>18. ~(jobs[k].at = "writing")
  BY <1>8 DEF Calling
<1> QED
  BY <1>2, <1>3, <1>5, <1>16, <1>17, <1>18, ResumedInv

(* An answer comes too late.                                               *)
LEMMA DropAnswerInv ==
  ASSUME FilesInv, NEW a \in Users, DropAnswer(a)
  PROVE  FilesInv'
BY PoppedInv DEF DropAnswer, storeVars, peers

(* Rust drops a PDU while a call waits.                                    *)
LEMMA DropRequestInv ==
  ASSUME FilesInv, NEW a \in Users, DropRequest(a)
  PROVE  FilesInv'
<1>1. PICK k \in JobsOf(a) : Calling(k) /\ (UNCHANGED <<asks, inv, jobs>> \/ Resume(k, Other))
  BY DEF DropRequest
<1>2. k \in DOMAIN jobs /\ k[1] = a
  BY DEF JobsOf, User
<1>3. inq[a] # << >> /\ Popped(a) /\ UNCHANGED storeVars
  BY DEF DropRequest, storeVars, peers
<1>4. CASE UNCHANGED <<asks, inv, jobs>>
  BY <1>3, <1>4, PoppedInv
<1>5. CASE Resume(k, Other)
  <2> DEFINE t == Tail(inq[a])
  <2>1. inq[a] \in Seq(PduType)
    BY DEF FilesInv, FilesTypeOK
  <2>2. t \in Seq(PduType)
    BY <1>3, <2>1, Tailed
  <2>3. Calls(jobs, a, asks[a], inq[a], lent[a], inv[a], sent[a])
    BY DEF FilesInv, CallsOK
  <2>4. Calls(jobs, a, asks[a], t, lent[a], inv[a], sent[a])
    BY <1>3, <2>1, <2>3, PopCalls
  <2> HIDE DEF t
  <2>5. Resumed(jobs', asks', inv', k, t)
    BY <1>1, <1>2, <1>5, <2>2, <2>4, FailedCall
  <2>6. inq' \in [Users -> Seq(PduType)] /\ inq'[a] = t /\ \A b \in Users : b # a => inq'[b] = inq[b]
    BY <1>3, <2>2 DEF FilesInv, FilesTypeOK, Popped, t
  <2>7. ~(jobs[k].at = "writing")
    BY <1>1 DEF Calling
  <2> QED
    BY <1>2, <1>3, <2>2, <2>5, <2>6, <2>7, ResumedInv
<1> QED
  BY <1>1, <1>4, <1>5

(***************************************************************************)
(* A request is served.                                                    *)
(***************************************************************************)
LEMMA ServeRequestInv ==
  ASSUME FilesInv, NEW a \in Users, ServeRequest(a)
  PROVE  FilesInv'
<1> DEFINE q == inq[a]
           t == Tail(q)
           n == q[1].n
           k == <<a, n>>
           op == sent[a][n].op
           d == Done(op, files[a])
<1>1. q \in Seq(PduType) /\ q # << >> /\ Popped(a)
  BY DEF FilesInv, FilesTypeOK, ServeRequest
<1>2. /\ 1 \in DOMAIN q /\ Head(q) = q[1] /\ q[1] \in PduType /\ t \in Seq(PduType)
      /\ \A i \in DOMAIN t : i + 1 \in DOMAIN q /\ t[i] = q[i + 1] /\ 1 < i + 1
  BY <1>1, Tailed
<1>3. q[1].kind = "request" /\ n \in Nat
  BY <1>2 DEF ServeRequest, PduType
<1>4. Calls(jobs, a, asks[a], q, lent[a], inv[a], sent[a])
  BY DEF FilesInv, CallsOK
<1>5. n \in DOMAIN sent[a] /\ \A l \in Of(jobs, a) : l[2] < n
  BY <1>2, <1>3, <1>4 DEF Calls, RequestsSent
<1>6. op \in Ops
  <2>1. sent[a] \in Seq(SentType)
    BY DEF FilesInv, FilesTypeOK, SentType
  <2>2. sent[a][n] \in SentType
    BY <1>5, <2>1, Elements
  <2> QED
    BY <2>2 DEF SentType
<1>7. inq' \in [Users -> Seq(PduType)] /\ inq'[a] = t /\ \A b \in Users : b # a => inq'[b] = inq[b]
  BY <1>1, <1>2 DEF FilesInv, FilesTypeOK, Popped
<1>8. k[1] = a /\ k[2] = n /\ k \in Users \X Nat /\ k \notin DOMAIN jobs
  <2>1. k[1] = a /\ k[2] = n /\ k \in Users \X Nat
    BY <1>3
  <2>2. k \in DOMAIN jobs => n < n
    BY <1>5, <2>1 DEF Of
  <2> QED
    BY <1>3, <2>1, <2>2
<1>9. Calls(jobs, a, asks[a], t, lent[a], inv[a], sent[a])
  BY <1>1, <1>4, PopCalls
<1>10. CASE op.svc = "obtain"
  <2>1. Asking(k, NewJob, "open") /\ UNCHANGED storeVars
    BY <1>2, <1>10 DEF ServeRequest, storeVars, disk, peers, Req
  <2>2. NewJob \in JobType
    BY DEF NewJob, JobType, Codes
  <2>3. \A i \in DOMAIN t : t[i].kind = "request" => n < t[i].n
    BY <1>2, <1>3, <1>4 DEF Calls, RequestsInOrder
  <2> DEFINE g == [NewJob EXCEPT !.at = "open", !.inv = inv[a] + 1]
  <2>4. FilesTypeOK
    BY DEF FilesInv
  <2> HIDE DEF k, n, t
  <2>5. HasAsked(jobs', asks', inv', k, g, t)
    <3>1. k[2] \in DOMAIN sent[k[1]] /\ sent[k[1]][k[2]].op.svc = "obtain"
      BY <1>5, <1>8, <1>10
    <3>2. \A i \in DOMAIN t : t[i].kind = "request" => k[2] < t[i].n
      BY <1>8, <2>3
    <3>3. Calls(jobs, k[1], asks[k[1]], t, lent[k[1]], inv[k[1]], sent[k[1]])
      BY <1>8, <1>9
    <3>4. HasAsked(jobs', asks', inv', k, [NewJob EXCEPT !.at = "open", !.inv = inv[k[1]] + 1], t)
      BY <1>2, <1>8, <2>1, <2>2, <2>4, <3>1, <3>2, <3>3, AskingStep
    <3> QED
      BY <1>8, <3>4
  <2>6. g.at = "open" /\ g.code = "ok" /\ g.data = << >>
    BY DEF NewJob
  <2> HIDE DEF g
  <2>7. Fetched(g, Asked(k))
    BY <2>6 DEF Fetched
  <2>8. Resumed(jobs', asks', inv', k, t)
    BY <2>5, <2>6, <2>7 DEF Resumed, HasAsked
  <2> QED
    BY <1>2, <1>7, <1>8, <2>1, <2>8, ResumedInv
<1>11. CASE op.svc # "obtain"
  <2>1. /\ told' = [told EXCEPT ![a][n] = Told(d.code)] /\ dir' = d.dir
        /\ files' = [files EXCEPT ![a] = d.files]
        /\ UNCHANGED <<asks, inv, jobs, side, bytes, torn, peers>>
    BY <1>2, <1>11 DEF ServeRequest, Req
  <2>2. FilesKept(files[a])
    BY DEF FilesInv, FilesTypeOK, KeptOK, FilesKept
  <2>3. /\ d.code \in Codes /\ FilesKept(d.files)
        /\ \A x \in DOMAIN d.dir : d.dir[x] \in DOMAIN bytes
    BY <1>6, <1>11, <2>2, DoneKept DEF FilesInv
  <2> HIDE DEF d
  <2>4. /\ files' \in [Users -> Seq(FileType)] /\ files'[a] = d.files
        /\ \A b \in Users : b # a => files'[b] = files[b]
    BY <2>1, <2>3 DEF FilesInv, FilesTypeOK, FilesKept
  <2>5. Told(d.code) \in [code : Codes, data : Seq(Byte)]
    <3>1. << >> \in Seq(Byte)
      OBVIOUS
    <3> QED
      BY <2>3, <3>1 DEF Told
  <2> DEFINE TT == [code : Codes, data : Seq(Byte)]
             tl == [told[a] EXCEPT ![n] = Told(d.code)]
  <2>6. told[a] \in Seq(TT) /\ Len(told[a]) = Len(sent[a]) /\ n \in 1 .. Len(told[a])
    <3>1. told[a] \in Seq(TT) /\ sent[a] \in Seq(SentType) /\ Len(told[a]) = Len(sent[a])
      BY DEF FilesInv, FilesTypeOK, SentType
    <3> QED
      BY <1>5, <3>1, Elements
  <2> HIDE DEF TT
  <2>7. /\ tl \in Seq(TT) /\ Len(tl) = Len(told[a])
        /\ \A i \in 1 .. Len(told[a]) : tl[i] = IF i = n THEN Told(d.code) ELSE told[a][i]
    BY <2>5, <2>6, ExceptSeq DEF TT
  <2> HIDE DEF tl
  <2>8. /\ told' \in [Users -> Seq(TT)] /\ told'[a] = tl
        /\ \A b \in Users : b # a => told'[b] = told[b]
    BY <2>1, <2>7 DEF FilesInv, FilesTypeOK, TT, tl
  <2>9. \A b \in Users : Len(told'[b]) = Len(sent'[b])
    BY <2>1, <2>6, <2>7, <2>8 DEF FilesInv, FilesTypeOK, peers
  <2>10. \A b \in Users : \A i \in DOMAIN files'[b] : files'[b][i].ino \in DOMAIN bytes /\ Kept(files'[b][i], side, bytes)
    BY <2>3, <2>4 DEF FilesInv, FilesTypeOK, KeptOK, FilesKept
  <2>11. \A x \in DOMAIN dir' : dir'[x] \in DOMAIN bytes'
    BY <2>1, <2>3
  <2>12. FilesTypeOK'
    BY <1>7, <2>1, <2>4, <2>8, <2>9, <2>10, <2>11 DEF FilesInv, FilesTypeOK, peers, TT
  <2>13. ASSUME NEW b \in Users PROVE Calls(jobs', b, asks'[b], inq'[b], lent'[b], inv'[b], sent'[b])
    <3>1. jobs' = jobs /\ asks' = asks /\ lent' = lent /\ inv' = inv /\ sent' = sent
      BY <2>1 DEF peers
    <3>2. Calls(jobs, b, asks[b], inq[b], lent[b], inv[b], sent[b])
      BY DEF FilesInv, CallsOK
    <3>3. CASE b = a
      BY <1>7, <1>9, <3>1, <3>3
    <3>4. CASE b # a
      BY <1>7, <3>1, <3>2, <3>4
    <3> QED
      BY <3>3, <3>4
  <2>14. CallsOK'
    BY <2>13 DEF CallsOK
  <2>15. FetchedOK'
    BY <2>1 DEF FilesInv, FetchedOK, Asked, peers
  <2>16. StoredOK'
    BY <2>1 DEF FilesInv, StoredOK
  <2>17. KeptOK'
    BY <2>1, <2>10 DEF KeptOK
  <2>18. ToldOK'
    <3> SUFFICES ASSUME NEW b \in Users, NEW i \in DOMAIN sent[b], sent[b][i].op.svc = "obtain",
                        told'[b][i].code = "ok"
                 PROVE  told'[b][i].data = ClientFiles[sent[b][i].op.name]
      BY <2>1 DEF ToldOK, peers
    <3>1. told'[b][i] = told[b][i]
      <4>1. CASE b # a
        BY <2>8, <4>1
      <4>2. CASE b = a
        <5>1. i # n
          BY <1>11, <4>2
        <5>2. i \in 1 .. Len(told[a])
          <6>1. sent[a] \in Seq(SentType)
            BY DEF FilesInv, FilesTypeOK, SentType
          <6> QED
            BY <2>6, <4>2, <6>1, Elements
        <5> QED
          BY <2>7, <2>8, <4>2, <5>1, <5>2
      <4> QED
        BY <4>1, <4>2
    <3> QED
      BY <3>1 DEF FilesInv, ToldOK
  <2> QED
    BY <2>12, <2>14, <2>15, <2>16, <2>17, <2>18 DEF FilesInv
<1> QED
  BY <1>10, <1>11

(***************************************************************************)
(* The clients.                                                            *)
(***************************************************************************)
LEMMA SendCallInv ==
  ASSUME FilesInv, NEW a \in Users, SendCall(a)
  PROVE  FilesInv'
<1> DEFINE r == [op |-> Head(plan[a]), eager |-> Untold \in Range(told[a])]
           p == [kind |-> "request", n |-> Len(sent[a]) + 1]
           TT == [code : Codes, data : Seq(Byte)]
<1>1. /\ plan[a] \in Seq(Ops) /\ sent[a] \in Seq(SentType) /\ told[a] \in Seq(TT) /\ inq[a] \in Seq(PduType)
      /\ Len(told[a]) = Len(sent[a])
  BY DEF FilesInv, FilesTypeOK, SentType
<1>2. plan[a] # << >> /\ plan' = [plan EXCEPT ![a] = Tail(@)]
  BY DEF SendCall
<1>3. Head(plan[a]) \in Ops /\ Tail(plan[a]) \in Seq(Ops)
  BY <1>1, <1>2, Tailed
<1>4. r \in SentType
  BY <1>3 DEF SentType
<1>5. Len(sent[a]) \in Nat /\ p \in PduType
  <2>1. Len(sent[a]) \in Nat
    BY <1>1, Elements
  <2> QED
    BY <2>1 DEF PduType
<1>6. Untold \in TT /\ Untold.code = "none"
  <2>1. << >> \in Seq(Byte)
    OBVIOUS
  <2> QED
    BY <2>1 DEF Untold, Codes
<1>7. /\ sent' = [sent EXCEPT ![a] = Append(@, r)] /\ told' = [told EXCEPT ![a] = Append(@, Untold)]
      /\ inq' = [inq EXCEPT ![a] = Append(@, p)]
      /\ UNCHANGED <<side, disk, alive, asks, lent, files, jobs, inv>>
  BY DEF SendCall
<1> HIDE DEF r, p, TT
<1>8. /\ Append(sent[a], r) \in Seq(SentType) /\ Len(Append(sent[a], r)) = Len(sent[a]) + 1
      /\ DOMAIN Append(sent[a], r) = 1 .. Len(sent[a]) + 1
      /\ \A i \in DOMAIN sent[a] : Append(sent[a], r)[i] = sent[a][i]
  BY <1>1, <1>4, Appended
<1>9. /\ Append(told[a], Untold) \in Seq(TT) /\ Len(Append(told[a], Untold)) = Len(told[a]) + 1
      /\ Append(told[a], Untold)[Len(told[a]) + 1] = Untold
      /\ \A i \in DOMAIN told[a] : Append(told[a], Untold)[i] = told[a][i]
  BY <1>1, <1>6, Appended
<1>10. Append(inq[a], p) \in Seq(PduType)
  BY <1>1, <1>5, Appended
<1>11. /\ sent' \in [Users -> Seq(SentType)] /\ sent'[a] = Append(sent[a], r)
       /\ \A b \in Users : b # a => sent'[b] = sent[b]
  BY <1>7, <1>8 DEF FilesInv, FilesTypeOK, SentType
<1>12. /\ told' \in [Users -> Seq(TT)] /\ told'[a] = Append(told[a], Untold)
       /\ \A b \in Users : b # a => told'[b] = told[b]
  BY <1>7, <1>9 DEF FilesInv, FilesTypeOK, TT
<1>13. /\ inq' \in [Users -> Seq(PduType)] /\ inq'[a] = Append(inq[a], p)
       /\ \A b \in Users : b # a => inq'[b] = inq[b]
  BY <1>7, <1>10 DEF FilesInv, FilesTypeOK
<1>14. plan' \in [Users -> Seq(Ops)]
  BY <1>2, <1>3 DEF FilesInv, FilesTypeOK
<1>15. \A b \in Users : Len(told'[b]) = Len(sent'[b])
  BY <1>1, <1>8, <1>9, <1>11, <1>12 DEF FilesInv, FilesTypeOK
<1>16. FilesTypeOK'
  BY <1>7, <1>11, <1>12, <1>13, <1>14, <1>15 DEF FilesInv, FilesTypeOK, disk, SentType, TT
<1>17. ASSUME NEW b \in Users PROVE Calls(jobs', b, asks'[b], inq'[b], lent'[b], inv'[b], sent'[b])
  <2>1. Calls(jobs, b, asks[b], inq[b], lent[b], inv[b], sent[b])
    BY DEF FilesInv, CallsOK
  <2>2. CASE b = a
    <3>1. Calls(jobs, a, asks[a], Append(inq[a], p), lent[a], inv[a], Append(sent[a], r))
      BY <1>1, <1>4, <2>1, <2>2, SendCalls DEF p
    <3> QED
      BY <1>7, <1>11, <1>13, <2>2, <3>1
  <2>3. CASE b # a
    BY <1>7, <1>11, <1>13, <2>1, <2>3
  <2> QED
    BY <2>2, <2>3
<1>18. CallsOK'
  BY <1>17 DEF CallsOK
<1>19. \A b \in Users : \A i \in DOMAIN sent[b] : sent'[b][i] = sent[b][i]
  BY <1>8, <1>11
<1>20. FetchedOK'
  <2> SUFFICES ASSUME NEW k \in DOMAIN jobs PROVE Fetched(jobs[k], ClientFiles[sent'[k[1]][k[2]].op.name])
    BY <1>7 DEF FetchedOK, Asked
  <2>1. k[1] \in Users /\ k \in Of(jobs, k[1])
    BY DEF FilesInv, FilesTypeOK, Of
  <2>2. k[2] \in DOMAIN sent[k[1]]
    BY <2>1 DEF FilesInv, CallsOK, Calls, JobsSent
  <2> QED
    BY <1>19, <2>1, <2>2 DEF FilesInv, FetchedOK, Asked
<1>21. StoredOK'
  BY <1>7 DEF FilesInv, StoredOK, disk
<1>22. KeptOK'
  BY <1>7 DEF FilesInv, KeptOK, disk
<1>23. ToldOK'
  <2> SUFFICES ASSUME NEW b \in Users, NEW i \in DOMAIN sent'[b], sent'[b][i].op.svc = "obtain",
                      told'[b][i].code = "ok"
               PROVE  told'[b][i].data = ClientFiles[sent'[b][i].op.name]
    BY DEF ToldOK
  <2>1. i \in DOMAIN sent[b] /\ told'[b][i] = told[b][i]
    <3>1. CASE b # a
      BY <1>11, <1>12, <3>1
    <3>2. CASE b = a
      <4>1. i \in 1 .. Len(sent[a]) + 1
        BY <1>8, <1>11, <3>2
      <4>2. i # Len(sent[a]) + 1
        BY <1>1, <1>6, <1>9, <1>12, <3>2
      <4>3. i \in 1 .. Len(sent[a])
        BY <1>5, <4>1, <4>2
      <4>4. i \in DOMAIN sent[a] /\ i \in DOMAIN told[a]
        BY <1>1, <4>3, Elements
      <4> QED
        BY <1>9, <1>12, <3>2, <4>4
    <3> QED
      BY <3>1, <3>2
  <2> QED
    BY <1>19, <2>1 DEF FilesInv, ToldOK
<1> QED
  BY <1>16, <1>18, <1>20, <1>21, <1>22, <1>23 DEF FilesInv

(* An association is lost.                                                 *)
LEMMA LostInv ==
  ASSUME FilesInv, NEW a \in Users, Lost(a)
  PROVE  FilesInv'
<1>1. /\ alive' = [alive EXCEPT ![a] = FALSE] /\ inq' = [inq EXCEPT ![a] = << >>]
      /\ asks' = [asks EXCEPT ![a] = << >>] /\ files' = [files EXCEPT ![a] = << >>]
      /\ UNCHANGED <<side, disk, plan, sent, told, lent, jobs, inv>>
  BY DEF Lost
<1>2. /\ inq' \in [Users -> Seq(PduType)] /\ inq'[a] = << >> /\ \A b \in Users : b # a => inq'[b] = inq[b]
  BY <1>1 DEF FilesInv, FilesTypeOK
<1>3. /\ asks' \in [Users -> Seq(AskType)] /\ asks'[a] = << >> /\ \A b \in Users : b # a => asks'[b] = asks[b]
  BY <1>1 DEF FilesInv, FilesTypeOK
<1>4. /\ files' \in [Users -> Seq(FileType)] /\ files'[a] = << >> /\ \A b \in Users : b # a => files'[b] = files[b]
  BY <1>1 DEF FilesInv, FilesTypeOK
<1>5. alive' \in [Users -> BOOLEAN]
  BY <1>1 DEF FilesInv, FilesTypeOK
<1>6. \A b \in Users : \A i \in DOMAIN files'[b] : b # a /\ i \in DOMAIN files[b] /\ files'[b][i] = files[b][i]
  BY <1>4
<1>7. FilesTypeOK'
  BY <1>1, <1>2, <1>3, <1>4, <1>5, <1>6 DEF FilesInv, FilesTypeOK, disk
<1>8. ASSUME NEW b \in Users PROVE Calls(jobs', b, asks'[b], inq'[b], lent'[b], inv'[b], sent'[b])
  <2>1. Calls(jobs, b, asks[b], inq[b], lent[b], inv[b], sent[b])
    BY DEF FilesInv, CallsOK
  <2>2. Calls(jobs, b, << >>, << >>, lent[b], inv[b], sent[b])
    BY <2>1, LostCalls
  <2>3. CASE b = a
    BY <1>1, <1>2, <1>3, <2>2, <2>3
  <2>4. CASE b # a
    BY <1>1, <1>2, <1>3, <2>1, <2>4
  <2> QED
    BY <2>3, <2>4
<1>9. CallsOK'
  BY <1>8 DEF CallsOK
<1>10. FetchedOK'
  BY <1>1 DEF FilesInv, FetchedOK, Asked
<1>11. StoredOK'
  BY <1>1 DEF FilesInv, StoredOK, disk
<1>12. KeptOK'
  BY <1>1, <1>6 DEF FilesInv, KeptOK, disk
<1>13. ToldOK'
  BY <1>1 DEF FilesInv, ToldOK
<1> QED
  BY <1>7, <1>9, <1>10, <1>11, <1>12, <1>13 DEF FilesInv

(***************************************************************************)
(* Nothing of the invariant has changed.                                   *)
(***************************************************************************)
LEMMA UnchangedInv ==
  ASSUME FilesInv, UNCHANGED <<storeVars, wire>>
  PROVE  FilesInv'
<1>1. FilesTypeOK'
  BY DEF FilesInv, FilesTypeOK, storeVars, disk, wire
<1>2. CallsOK'
  BY DEF FilesInv, CallsOK, storeVars, wire
<1>3. FetchedOK'
  BY DEF FilesInv, FetchedOK, Asked, storeVars, wire
<1>4. StoredOK'
  BY DEF FilesInv, StoredOK, storeVars, disk, wire
<1>5. KeptOK'
  BY DEF FilesInv, KeptOK, storeVars, disk
<1>6. ToldOK'
  BY DEF FilesInv, ToldOK, storeVars
<1> QED
  BY <1>1, <1>2, <1>3, <1>4, <1>5, <1>6 DEF FilesInv

(***************************************************************************)
(* The oldest call of the server is answered.                              *)
(***************************************************************************)
LEMMA ClientAnswersInv ==
  ASSUME FilesInv, NEW a \in Users, ClientAnswers(a)
  PROVE  FilesInv'
<1> DEFINE cs == asks[a]
           le == lent[a]
           q == inq[a]
           c == Head(cs)
           p(r) == [kind |-> "answer", inv |-> c.inv, res |-> r]
<1>1. cs \in Seq(AskType) /\ le \in Seq(LentType) /\ q \in Seq(PduType) /\ inv[a] \in Nat
  BY DEF FilesInv, FilesTypeOK, LentType
<1>2. cs # << >> /\ asks' = [asks EXCEPT ![a] = Tail(@)] /\ UNCHANGED <<side, disk, plan, sent, told, alive, jobs, inv, files>>
  BY DEF ClientAnswers
<1>3. c \in AskType /\ c = cs[1] /\ 1 \in DOMAIN cs /\ Tail(cs) \in Seq(AskType)
  BY <1>1, <1>2, Tailed
<1>4. c.inv \in Nat /\ c.svc \in {"open", "read", "close"} /\ c.id \in Nat /\ c.src \in FileNames
  BY <1>3 DEF AskType
<1>5. Calls(jobs, a, cs, q, le, inv[a], sent[a])
  BY DEF FilesInv, CallsOK
<1>6. << >> \in Seq(Byte)
  OBVIOUS
<1>7. ASSUME NEW r \in ResType, NEW lt \in Seq(LentType), Answered(c, r, le, lt),
             inq' = [inq EXCEPT ![a] = Append(@, p(r))], lent' = [lent EXCEPT ![a] = lt]
      PROVE  FilesInv'
  <2>1. p(r) \in PduType
    BY <1>4 DEF PduType
  <2>2. Append(q, p(r)) \in Seq(PduType)
    BY <1>1, <2>1, Appended
  <2>3. /\ inq' \in [Users -> Seq(PduType)] /\ inq'[a] = Append(q, p(r))
        /\ \A b \in Users : b # a => inq'[b] = inq[b]
    BY <1>7, <2>2 DEF FilesInv, FilesTypeOK
  <2>4. /\ lent' \in [Users -> Seq(LentType)] /\ lent'[a] = lt
        /\ \A b \in Users : b # a => lent'[b] = lent[b]
    BY <1>7 DEF FilesInv, FilesTypeOK, LentType
  <2>5. /\ asks' \in [Users -> Seq(AskType)] /\ asks'[a] = Tail(cs)
        /\ \A b \in Users : b # a => asks'[b] = asks[b]
    BY <1>2, <1>3 DEF FilesInv, FilesTypeOK
  <2>6. FilesTypeOK'
    BY <1>2, <2>3, <2>4, <2>5 DEF FilesInv, FilesTypeOK, disk, LentType
  <2>7. ASSUME NEW b \in Users PROVE Calls(jobs', b, asks'[b], inq'[b], lent'[b], inv'[b], sent'[b])
    <3>1. Calls(jobs, b, asks[b], inq[b], lent[b], inv[b], sent[b])
      BY DEF FilesInv, CallsOK
    <3>2. CASE b = a
      <4>1. Calls(jobs, a, Tail(cs), Append(q, p(r)), lt, inv[a], sent[a])
        BY <1>1, <1>2, <1>5, <1>7, AnswerCalls
      <4> QED
        BY <1>2, <2>3, <2>4, <2>5, <3>2, <4>1
    <3>3. CASE b # a
      BY <1>2, <2>3, <2>4, <2>5, <3>1, <3>3
    <3> QED
      BY <3>2, <3>3
  <2>8. CallsOK'
    BY <2>7 DEF CallsOK
  <2>9. FetchedOK' /\ ToldOK'
    BY <1>2 DEF FilesInv, FetchedOK, Asked, ToldOK
  <2>10. StoredOK' /\ KeptOK'
    BY <1>2 DEF FilesInv, StoredOK, KeptOK, disk
  <2> QED
    BY <2>6, <2>8, <2>9, <2>10 DEF FilesInv
<1>8. ASSUME lent' = lent PROVE lent' = [lent EXCEPT ![a] = le]
  BY <1>8 DEF FilesInv, FilesTypeOK
<1>9. KeepsLent(c, le, le)
  BY DEF KeepsLent
<1> DEFINE answer(r) == inq' = [inq EXCEPT ![a] = Append(@, p(r))]
<1>10. CASE c.svc = "open" /\ lent' = [lent EXCEPT ![a] = Append(@, [src |-> c.src, pos |-> 0])]
            /\ answer(Good(Len(le) + 1, << >>, FALSE))
  <2> DEFINE e == [src |-> c.src, pos |-> 0]
             lt == Append(le, e)
             r == Good(Len(le) + 1, << >>, FALSE)
  <2>1. Len(le) \in Nat /\ DOMAIN le = 1 .. Len(le)
    BY <1>1, Elements
  <2>2. r \in ResType /\ r.id = Len(le) + 1 /\ r.code = "ok"
    BY <1>6, <2>1 DEF Good, ResType, Codes
  <2>3. e \in LentType /\ e.src = c.src /\ e.pos = 0
    BY <1>4 DEF LentType
  <2> HIDE DEF e, r
  <2>4. /\ lt \in Seq(LentType) /\ lt[Len(le) + 1] = e /\ DOMAIN lt = 1 .. Len(le) + 1
        /\ \A i \in DOMAIN le : i \in DOMAIN lt /\ lt[i] = le[i]
    BY <1>1, <2>3, Appended
  <2> HIDE DEF lt
  <2>5. KeepsLent(c, le, lt)
    BY <2>4 DEF KeepsLent
  <2>6. r.id \in DOMAIN lt /\ r.id \notin DOMAIN le /\ r.id # 0
    BY <2>1, <2>2, <2>4
  <2>7. Answered(c, r, le, lt)
    BY <1>10, <2>2, <2>3, <2>4, <2>5, <2>6 DEF Answered
  <2>8. lent' = [lent EXCEPT ![a] = lt]
    BY <1>10 DEF lt, e
  <2> QED
    BY <1>7, <1>10, <2>2, <2>4, <2>7, <2>8 DEF r
<1>11. CASE c.svc = "open" /\ answer(Failure("file-non-existent")) /\ lent' = lent
  <2> DEFINE r == Failure("file-non-existent")
  <2>1. r \in ResType /\ r.code = "file-non-existent"
    BY <1>6 DEF Failure, ResType, Codes
  <2> HIDE DEF r
  <2>2. Answered(c, r, le, le)
    BY <1>9, <2>1 DEF Answered
  <2> QED
    BY <1>1, <1>7, <1>8, <1>11, <2>1, <2>2 DEF r
<1>12. CASE c.svc = "read" /\ answer(Good(0, << >>, TRUE)) /\ lent' = lent
  <2> DEFINE r == Good(0, << >>, TRUE)
  <2>1. r \in ResType /\ r.code = "ok" /\ r.id = 0 /\ r.more /\ r.chunk = << >>
    BY <1>6 DEF Good, ResType, Codes
  <2> HIDE DEF r
  <2>2. Endless(r)
    BY <2>1 DEF Endless
  <2>3. Answered(c, r, le, le)
    BY <1>9, <1>12, <2>1, <2>2 DEF Answered
  <2> QED
    BY <1>1, <1>7, <1>8, <1>12, <2>1, <2>3 DEF r
<1>13. CASE c.svc = "close" /\ answer(Good(0, << >>, FALSE)) /\ lent' = lent
  <2> DEFINE r == Good(0, << >>, FALSE)
  <2>1. r \in ResType /\ r.code = "ok" /\ r.id = 0
    BY <1>6 DEF Good, ResType, Codes
  <2> HIDE DEF r
  <2>2. Answered(c, r, le, le)
    BY <1>9, <1>13, <2>1 DEF Answered
  <2> QED
    BY <1>1, <1>7, <1>8, <1>13, <2>1, <2>2 DEF r
<1> DEFINE src == le[c.id].src
           pos == le[c.id].pos
           f == ClientFiles[src]
           part == Good(0, IF pos < Len(f) THEN <<f[pos + 1]>> ELSE << >>, pos + 1 < Len(f))
<1>14. CASE c.svc = "read" /\ lent' = [lent EXCEPT ![a][c.id].pos = @ + 1] /\ answer(part)
  <2>1. c.id \in DOMAIN le
    BY <1>3, <1>5, <1>14 DEF Calls, ReadsLent
  <2>2. le[c.id] \in LentType
    BY <1>1, <2>1, Elements
  <2>3. src \in FileNames /\ pos \in Nat /\ f \in Seq(Byte)
    BY <2>2, FilesAssumption DEF LentType, FileNames
  <2>4. Len(f) \in Nat /\ (pos < Len(f) => f[pos + 1] \in Byte)
    <3>1. Len(f) \in Nat /\ DOMAIN f = 1 .. Len(f) /\ \A i \in DOMAIN f : f[i] \in Byte
      BY <2>3, Elements
    <3> HIDE DEF f, pos
    <3>2. pos < Len(f) => pos + 1 \in 1 .. Len(f)
      BY <2>3, <3>1
    <3> QED
      BY <3>1, <3>2
  <2> DEFINE e == [le[c.id] EXCEPT !.pos = @ + 1]
             lt == [le EXCEPT ![c.id] = e]
  <2>5. e \in LentType /\ e.src = src /\ e.pos = pos + 1
    BY <2>2, <2>3 DEF LentType
  <2>6. lent' = [lent EXCEPT ![a] = lt]
    BY <1>14, <2>1 DEF FilesInv, FilesTypeOK
  <2>7. /\ part.code = "ok" /\ part.id = 0 /\ part.more = (pos + 1 < Len(f))
        /\ part.chunk = IF pos < Len(f) THEN <<f[pos + 1]>> ELSE << >>
    BY DEF Good
  <2> HIDE DEF e, f
  <2>8. lt \in Seq(LentType) /\ DOMAIN lt = DOMAIN le /\ \A i \in DOMAIN le : lt[i] = IF i = c.id THEN e ELSE le[i]
    <3>1. c.id \in 1 .. Len(le)
      BY <1>1, <2>1, Elements
    <3> QED
      BY <1>1, <2>5, <3>1, ExceptSeq, Elements
  <2> HIDE DEF lt
  <2>9. part \in ResType
    <3> DEFINE ch == IF pos < Len(f) THEN <<f[pos + 1]>> ELSE << >>
               mo == pos + 1 < Len(f)
    <3>1. ch \in Seq(Byte)
      BY <1>6, <2>4
    <3>2. mo \in BOOLEAN
      BY <2>3, <2>4
    <3> HIDE DEF ch, mo
    <3>3. Good(0, ch, mo) \in ResType
      BY <3>1, <3>2 DEF Good, ResType, Codes
    <3> QED
      BY <3>3 DEF ch, mo
  <2>10. Part(part, f, pos)
    BY <2>7 DEF Part
  <2>11. KeepsLent(c, le, lt)
    BY <1>14, <2>5, <2>8 DEF KeepsLent
  <2> HIDE DEF part
  <2>12. Answered(c, part, le, lt)
    BY <1>14, <2>1, <2>5, <2>7, <2>8, <2>10, <2>11 DEF Answered, f
  <2> QED
    BY <1>7, <1>14, <2>6, <2>8, <2>9, <2>12
<1>15. c.svc = "read" => c.id \in DOMAIN le
  BY <1>3, <1>5 DEF Calls, ReadsLent
<1> QED
  BY <1>10, <1>11, <1>12, <1>13, <1>14, <1>15 DEF ClientAnswers

(***************************************************************************)
(* Job k ends, and its request is answered.                                *)
(***************************************************************************)
ToldType == [code : Codes, data : Seq(Byte)]

(* Answers keeps the calls, the data and the answers.                      *)
LEMMA AnswersStep ==
  ASSUME FilesInv, NEW k \in DOMAIN jobs, NEW answer \in ToldType, answer.code = "ok" => answer.data = Asked(k),
         Answers(k, answer), UNCHANGED <<asks, inv, inq, lent, sent>>
  PROVE  /\ DOMAIN jobs' = DOMAIN jobs \ {k} /\ (\A l \in DOMAIN jobs' : jobs'[l] = jobs[l])
         /\ DOMAIN jobs' \subseteq Users \X Nat /\ jobs' \in [DOMAIN jobs' -> JobType]
         /\ told' \in [Users -> Seq(ToldType)] /\ (\A b \in Users : Len(told'[b]) = Len(sent'[b]))
         /\ CallsOK' /\ FetchedOK' /\ ToldOK'
<1> DEFINE a == k[1]
           n == k[2]
           tl == [told[a] EXCEPT ![n] = answer]
<1>1. a \in Users /\ k \in Of(jobs, a)
  BY DEF FilesInv, FilesTypeOK, Of
<1>2. jobs' = Without(jobs, k) /\ told' = [told EXCEPT ![a][n] = answer]
  BY DEF Answers
<1>3. /\ DOMAIN jobs' = DOMAIN jobs \ {k} /\ (\A l \in DOMAIN jobs' : jobs'[l] = jobs[l])
      /\ jobs' = [z \in DOMAIN jobs' |-> jobs'[z]]
  BY <1>2 DEF Without
<1>4. DOMAIN jobs' \subseteq Users \X Nat /\ jobs' \in [DOMAIN jobs' -> JobType]
  <2>1. \A l \in DOMAIN jobs' : jobs'[l] \in JobType /\ l \in Users \X Nat
    BY <1>3 DEF FilesInv, FilesTypeOK
  <2> QED
    BY <1>3, <2>1
<1>5. ASSUME NEW b \in Users PROVE Calls(jobs', b, asks'[b], inq'[b], lent'[b], inv'[b], sent'[b])
  <2>1. Calls(jobs, b, asks[b], inq[b], lent[b], inv[b], sent[b])
    BY DEF FilesInv, CallsOK
  <2>2. \A l \in Of(jobs', b) : l \in Of(jobs, b) /\ (jobs'[l] = jobs[l] \/ ~Waits(jobs'[l]))
    BY <1>3 DEF Of
  <2>3. Calls(jobs', b, asks[b], inq[b], lent[b], inv[b], sent[b])
    BY <2>1, <2>2, LessCalls
  <2> QED
    BY <2>3
<1>6. CallsOK'
  BY <1>5 DEF CallsOK
<1>7. FetchedOK'
  BY <1>3 DEF FilesInv, FetchedOK, Asked
<1>8. told[a] \in Seq(ToldType) /\ Len(told[a]) = Len(sent[a]) /\ n \in 1 .. Len(told[a])
  <2>1. told[a] \in Seq(ToldType) /\ sent[a] \in Seq(SentType) /\ Len(told[a]) = Len(sent[a])
    BY <1>1 DEF FilesInv, FilesTypeOK, SentType, ToldType
  <2>2. n \in DOMAIN sent[a]
    BY <1>1 DEF FilesInv, CallsOK, Calls, JobsSent
  <2> QED
    BY <2>1, <2>2, Elements
<1>9. /\ tl \in Seq(ToldType) /\ Len(tl) = Len(told[a])
      /\ \A i \in 1 .. Len(told[a]) : tl[i] = IF i = n THEN answer ELSE told[a][i]
  BY <1>8, ExceptSeq
<1> HIDE DEF tl
<1>10. /\ told' \in [Users -> Seq(ToldType)] /\ told'[a] = tl
       /\ \A b \in Users : b # a => told'[b] = told[b]
  BY <1>1, <1>2, <1>9 DEF FilesInv, FilesTypeOK, ToldType, tl
<1>11. \A b \in Users : Len(told'[b]) = Len(sent'[b])
  BY <1>8, <1>9, <1>10 DEF FilesInv, FilesTypeOK
<1>12. ToldOK'
  <2> SUFFICES ASSUME NEW b \in Users, NEW i \in DOMAIN sent[b], sent[b][i].op.svc = "obtain",
                      told'[b][i].code = "ok"
               PROVE  told'[b][i].data = ClientFiles[sent[b][i].op.name]
    BY DEF ToldOK
  <2>1. CASE b = a /\ i = n
    <3>1. told'[b][i] = answer
      BY <1>8, <1>9, <1>10, <2>1
    <3> QED
      BY <2>1, <3>1 DEF Asked
  <2>2. CASE ~(b = a /\ i = n)
    <3>1. told'[b][i] = told[b][i]
      <4>1. CASE b # a
        BY <1>10, <4>1
      <4>2. CASE b = a
        <5>1. i \in 1 .. Len(told[a])
          <6>1. sent[a] \in Seq(SentType)
            BY <1>1 DEF FilesInv, FilesTypeOK, SentType
          <6> QED
            BY <1>8, <4>2, <6>1, Elements
        <5> QED
          BY <1>9, <1>10, <2>2, <4>2, <5>1
      <4> QED
        BY <4>1, <4>2
    <3> QED
      BY <3>1 DEF FilesInv, ToldOK
  <2> QED
    BY <2>1, <2>2
<1> QED
  BY <1>3, <1>4, <1>6, <1>7, <1>10, <1>11, <1>12

(* ObtainFile ends with the error of a call.                               *)
LEMMA UnfetchedInv ==
  ASSUME FilesInv, NEW k \in DOMAIN jobs, Unfetched(k)
  PROVE  FilesInv'
<1> DEFINE answer == Told(jobs[k].code)
<1>1. /\ jobs[k].at = "done" /\ jobs[k].code # "ok" /\ Answers(k, answer)
      /\ UNCHANGED <<side, dir, bytes, torn, inq, asks, inv, files, plan, sent, alive, lent>>
  BY DEF Unfetched, disk, peers
<1>2. answer \in ToldType /\ answer.code # "ok"
  <2>1. jobs[k] \in JobType /\ << >> \in Seq(Byte)
    BY DEF FilesInv, FilesTypeOK
  <2> QED
    BY <1>1, <2>1 DEF Told, ToldType, JobType
<1> HIDE DEF answer
<1>3. /\ DOMAIN jobs' = DOMAIN jobs \ {k} /\ (\A l \in DOMAIN jobs' : jobs'[l] = jobs[l])
      /\ DOMAIN jobs' \subseteq Users \X Nat /\ jobs' \in [DOMAIN jobs' -> JobType]
      /\ told' \in [Users -> Seq(ToldType)] /\ (\A b \in Users : Len(told'[b]) = Len(sent'[b]))
      /\ CallsOK' /\ FetchedOK' /\ ToldOK'
  BY <1>1, <1>2, AnswersStep
<1>4. FilesTypeOK'
  BY <1>1, <1>3 DEF FilesInv, FilesTypeOK, ToldType
<1>5. StoredOK'
  <2>1. StoredBytes(jobs', side, bytes, torn)
    BY <1>1, <1>3, SameWriters DEF FilesInv, StoredOK
  <2> QED
    BY <1>1, <2>1 DEF StoredOK
<1>6. KeptOK'
  BY <1>1 DEF FilesInv, KeptOK
<1> QED
  BY <1>3, <1>4, <1>5, <1>6 DEF FilesInv

(***************************************************************************)
(* What an ObtainFile has fetched is a file of its client.                 *)
(***************************************************************************)
LEMMA FetchedWhole ==
  ASSUME FilesInv, NEW k \in DOMAIN jobs, jobs[k].at \in {"done", "writing"}, jobs[k].code = "ok"
  PROVE  /\ jobs[k].data \in Seq(Byte) /\ jobs[k].data = Asked(k) /\ jobs[k].data \in Whole
         /\ [code |-> "ok", data |-> jobs[k].data] \in ToldType
<1> DEFINE a == k[1]
           name == sent[a][k[2]].op.name
<1>1. a \in Users /\ k \in Of(jobs, a) /\ jobs[k] \in JobType /\ sent[a] \in Seq(SentType)
  BY DEF FilesInv, FilesTypeOK, Of, SentType
<1>2. k[2] \in DOMAIN sent[a] /\ sent[a][k[2]].op.svc = "obtain"
  BY <1>1 DEF FilesInv, CallsOK, Calls, JobsSent
<1>3. sent[a][k[2]].op \in Ops
  <2>1. sent[a][k[2]] \in SentType
    BY <1>1, <1>2, Elements
  <2> QED
    BY <2>1 DEF SentType
<1>4. name \in DOMAIN ClientFiles
  BY <1>2, <1>3, FilesAssumption
<1>5. Fetched(jobs[k], Asked(k))
  BY DEF FilesInv, FetchedOK
<1>6. jobs[k].data = Asked(k)
  BY <1>5 DEF Fetched
<1>7. ClientFiles[name] \in Range(ClientFiles)
  BY <1>4 DEF Range
<1>8. jobs[k].data \in Seq(Byte)
  BY <1>1 DEF JobType
<1>9. [code |-> "ok", data |-> jobs[k].data] \in ToldType
  BY <1>8 DEF ToldType, Codes
<1> QED
  BY <1>6, <1>7, <1>8, <1>9 DEF Asked, Whole

(* Rust: the entry of the map is replaced.                                 *)
LEMMA InsertInv ==
  ASSUME FilesInv, NEW k \in DOMAIN jobs, Insert(k)
  PROVE  FilesInv'
<1> DEFINE data == jobs[k].data
           answer == [code |-> "ok", data |-> data]
<1>1. /\ side = "rs" /\ jobs[k].at = "done" /\ jobs[k].code = "ok" /\ Answers(k, answer)
      /\ bytes' = Append(bytes, data) /\ dir' = Set(dir, Req(k).to, Len(bytes'))
      /\ UNCHANGED <<side, torn, inq, asks, inv, files, plan, sent, alive, lent>>
  BY DEF Insert, peers
<1>2. data \in Seq(Byte) /\ data = Asked(k) /\ data \in Whole /\ answer \in ToldType
  BY <1>1, FetchedWhole
<1>3. answer.code = "ok" => answer.data = Asked(k)
  BY <1>2
<1> HIDE DEF data, answer
<1>4. /\ DOMAIN jobs' = DOMAIN jobs \ {k} /\ (\A l \in DOMAIN jobs' : jobs'[l] = jobs[l])
      /\ DOMAIN jobs' \subseteq Users \X Nat /\ jobs' \in [DOMAIN jobs' -> JobType]
      /\ told' \in [Users -> Seq(ToldType)] /\ (\A b \in Users : Len(told'[b]) = Len(sent'[b]))
      /\ CallsOK' /\ FetchedOK' /\ ToldOK'
  BY <1>1, <1>2, <1>3, AnswersStep
<1>5. bytes \in Seq(Seq(Byte)) /\ Len(bytes) \in Nat /\ \A x \in DOMAIN dir : dir[x] \in DOMAIN bytes
  BY Elements DEF FilesInv, FilesTypeOK
<1>6. /\ bytes' \in Seq(Seq(Byte)) /\ Len(bytes') = Len(bytes) + 1 /\ DOMAIN bytes' = 1 .. Len(bytes) + 1
      /\ \A x \in DOMAIN bytes : x \in DOMAIN bytes'
  BY <1>1, <1>2, <1>5, Appended
<1>7. \A x \in DOMAIN dir' : dir'[x] \in DOMAIN bytes'
  <2>1. Len(bytes') \in DOMAIN bytes'
    BY <1>5, <1>6
  <2>2. \A x \in DOMAIN dir' : dir'[x] = Len(bytes') \/ (x \in DOMAIN dir /\ dir'[x] = dir[x])
    BY <1>1 DEF Set
  <2> QED
    BY <1>5, <1>6, <2>1, <2>2
<1>8. \A b \in Users : \A i \in DOMAIN files[b] : files[b][i].ino \in DOMAIN bytes'
  BY <1>6 DEF FilesInv, FilesTypeOK
<1>9. FilesTypeOK'
  BY <1>1, <1>4, <1>6, <1>7, <1>8 DEF FilesInv, FilesTypeOK, ToldType
<1>10. StoredOK'
  <2>1. StoredBytes(jobs, "rs", bytes, torn)
    BY <1>1 DEF FilesInv, StoredOK
  <2>2. \A l \in DOMAIN jobs' : l \in DOMAIN jobs /\ jobs'[l] = jobs[l]
    BY <1>4
  <2>3. StoredBytes(jobs', "rs", Append(bytes, data), torn)
    BY <1>2, <1>5, <2>1, <2>2, InsertStored
  <2> QED
    BY <1>1, <2>3 DEF StoredOK
<1>11. KeptOK'
  <2> SUFFICES ASSUME NEW b \in Users, NEW i \in DOMAIN files[b] PROVE Kept(files[b][i], "rs", bytes')
    BY <1>1 DEF KeptOK
  <2>1. Kept(files[b][i], "rs", bytes)
    BY <1>1 DEF FilesInv, KeptOK
  <2> QED
    BY <2>1 DEF Kept, Intact
<1> QED
  BY <1>4, <1>9, <1>10, <1>11 DEF FilesInv

(***************************************************************************)
(* Go: ino is written to, and no other inode.                              *)
(***************************************************************************)
LEMMA DisturbedFiles ==
  ASSUME FilesInv, side = "go", side' = side, NEW ino, files' = Disturbed(ino),
         \A x \in DOMAIN bytes : x \in DOMAIN bytes', \A x \in DOMAIN bytes : x # ino => bytes'[x] = bytes[x]
  PROVE  /\ files' \in [Users -> Seq(FileType)]
         /\ \A b \in Users : \A i \in DOMAIN files'[b] : files'[b][i].ino \in DOMAIN bytes'
         /\ KeptOK'
<1> DEFINE g(f) == [f EXCEPT !.disturbed = @ \/ f.ino = ino]
           new(b) == [i \in DOMAIN files[b] |-> g(files[b][i])]
<1>1. files' = [b \in Users |-> new(b)]
  BY DEF Disturbed
<1>2. ASSUME NEW b \in Users, NEW i \in DOMAIN files[b]
      PROVE  g(files[b][i]) \in FileType /\ g(files[b][i]).ino \in DOMAIN bytes' /\ Kept(g(files[b][i]), "go", bytes')
  <2> DEFINE f == files[b][i]
  <2>1. files[b] \in Seq(FileType)
    BY DEF FilesInv, FilesTypeOK
  <2>2. f \in FileType
    BY <2>1, Elements
  <2>3. f.ino \in DOMAIN bytes /\ Kept(f, "go", bytes)
    BY DEF FilesInv, FilesTypeOK, KeptOK
  <2> HIDE DEF f
  <2>4. g(f) \in FileType /\ g(f).ino = f.ino /\ Kept(g(f), "go", bytes')
    BY <2>2, <2>3, DisturbedKept
  <2> QED
    BY <2>3, <2>4 DEF f
<1> HIDE DEF g
<1>3. ASSUME NEW b \in Users PROVE new(b) \in Seq(FileType)
  <2>1. files[b] \in Seq(FileType)
    BY DEF FilesInv, FilesTypeOK
  <2>2. Len(files[b]) \in Nat /\ DOMAIN files[b] = 1 .. Len(files[b])
    BY <2>1, Elements
  <2>3. \A i \in 1 .. Len(files[b]) : g(files[b][i]) \in FileType
    BY <1>2, <2>2
  <2>4. [i \in 1 .. Len(files[b]) |-> g(files[b][i])] \in Seq(FileType)
    BY <2>2, <2>3, IsASeq
  <2> QED
    BY <2>2, <2>4
<1>4. \A b \in Users : DOMAIN new(b) = DOMAIN files[b] /\ \A i \in DOMAIN files[b] : new(b)[i] = g(files[b][i])
  OBVIOUS
<1> HIDE DEF new
<1>5. files' \in [Users -> Seq(FileType)] /\ \A b \in Users : files'[b] = new(b)
  BY <1>1, <1>3
<1>6. \A b \in Users : \A i \in DOMAIN files'[b] : files'[b][i].ino \in DOMAIN bytes' /\ Kept(files'[b][i], "go", bytes')
  BY <1>2, <1>4, <1>5
<1>7. KeptOK'
  BY <1>6 DEF KeptOK
<1> QED
  BY <1>5, <1>6, <1>7

(***************************************************************************)
(* Go: the file is created or truncated, and job k is about to write.      *)
(***************************************************************************)
LEMMA TruncateInv ==
  ASSUME FilesInv, NEW k \in DOMAIN jobs, Truncate(k)
  PROVE  FilesInv'
<1> DEFINE to == Req(k).to
           ino == IF to \in DOMAIN dir THEN dir[to] ELSE Len(bytes) + 1
<1>1. /\ side = "go" /\ jobs[k].at = "done" /\ jobs[k].code = "ok"
      /\ bytes' = (IF to \in DOMAIN dir THEN [bytes EXCEPT ![ino] = << >>] ELSE Append(bytes, << >>))
      /\ dir' = Set(dir, to, ino)
      /\ torn' = (IF Writing(ino) = {} THEN torn \ {ino} ELSE torn \cup {ino})
      /\ files' = Disturbed(ino)
      /\ jobs' = [jobs EXCEPT ![k].at = "writing", ![k].ino = ino]
      /\ UNCHANGED <<side, told, inq, asks, inv, plan, sent, alive, lent>>
  BY DEF Truncate, peers
<1> HIDE DEF to
<1>2. /\ bytes \in Seq(Seq(Byte)) /\ Len(bytes) \in Nat /\ DOMAIN bytes = 1 .. Len(bytes)
      /\ (\A x \in DOMAIN dir : dir[x] \in DOMAIN bytes) /\ << >> \in Seq(Byte)
  BY Elements DEF FilesInv, FilesTypeOK
<1>3. /\ bytes' \in Seq(Seq(Byte)) /\ ino \in Nat /\ ino \in DOMAIN bytes' /\ bytes'[ino] = << >>
      /\ (\A x \in DOMAIN bytes : x \in DOMAIN bytes')
      /\ \A x \in DOMAIN bytes' : x # ino => x \in DOMAIN bytes /\ bytes'[x] = bytes[x]
  <2>1. CASE to \in DOMAIN dir
    <3>1. ino = dir[to] /\ ino \in 1 .. Len(bytes) /\ bytes' = [bytes EXCEPT ![ino] = << >>]
      BY <1>1, <1>2, <2>1
    <3> HIDE DEF ino
    <3>2. /\ bytes' \in Seq(Seq(Byte)) /\ Len(bytes') = Len(bytes)
          /\ \A i \in 1 .. Len(bytes) : bytes'[i] = IF i = ino THEN << >> ELSE bytes[i]
      BY <1>2, <3>1, ExceptSeq
    <3>3. DOMAIN bytes' = 1 .. Len(bytes)
      BY <3>2, Elements
    <3> QED
      BY <1>2, <3>1, <3>2, <3>3
  <2>2. CASE to \notin DOMAIN dir
    <3>1. ino = Len(bytes) + 1 /\ bytes' = Append(bytes, << >>)
      BY <1>1, <2>2
    <3> HIDE DEF ino
    <3>2. /\ bytes' \in Seq(Seq(Byte)) /\ DOMAIN bytes' = 1 .. Len(bytes) + 1 /\ bytes'[Len(bytes) + 1] = << >>
          /\ \A x \in DOMAIN bytes : x \in DOMAIN bytes' /\ bytes'[x] = bytes[x]
      BY <1>2, <3>1, Appended
    <3> QED
      BY <1>2, <3>1, <3>2
  <2> QED
    BY <2>1, <2>2
<1> HIDE DEF ino
<1>4. \A x \in DOMAIN dir' : dir'[x] \in DOMAIN bytes'
  <2>1. \A x \in DOMAIN dir' : dir'[x] = ino \/ (x \in DOMAIN dir /\ dir'[x] = dir[x])
    BY <1>1 DEF Set
  <2> QED
    BY <1>2, <1>3, <2>1
<1>5. /\ files' \in [Users -> Seq(FileType)]
      /\ \A b \in Users : \A i \in DOMAIN files'[b] : files'[b][i].ino \in DOMAIN bytes'
      /\ KeptOK'
  BY <1>1, <1>3, DisturbedFiles
<1>6. jobs[k] \in JobType /\ jobs \in [DOMAIN jobs -> JobType] /\ DOMAIN jobs \subseteq Users \X Nat
  BY DEF FilesInv, FilesTypeOK
<1> DEFINE j == [jobs[k] EXCEPT !.at = "writing", !.ino = ino]
<1>7. /\ j \in JobType /\ j.at = "writing" /\ j.ino = ino /\ j.code = jobs[k].code /\ j.data = jobs[k].data
  BY <1>3, <1>6 DEF JobType
<1>8. jobs' = [jobs EXCEPT ![k] = j]
  BY <1>1, <1>6
<1> HIDE DEF j
<1>9. /\ DOMAIN jobs' = DOMAIN jobs /\ jobs' \in [DOMAIN jobs' -> JobType] /\ jobs'[k] = j
      /\ \A l \in DOMAIN jobs : l # k => jobs'[l] = jobs[l]
  BY <1>6, <1>7, <1>8
<1>10. FilesTypeOK'
  BY <1>1, <1>3, <1>4, <1>5, <1>6, <1>9 DEF FilesInv, FilesTypeOK
<1>11. ASSUME NEW b \in Users PROVE Calls(jobs', b, asks'[b], inq'[b], lent'[b], inv'[b], sent'[b])
  <2>1. Calls(jobs, b, asks[b], inq[b], lent[b], inv[b], sent[b])
    BY DEF FilesInv, CallsOK
  <2>2. \A l \in Of(jobs', b) : l \in Of(jobs, b) /\ (jobs'[l] = jobs[l] \/ ~Waits(jobs'[l]))
    BY <1>7, <1>9 DEF Of, Waits
  <2>3. Calls(jobs', b, asks[b], inq[b], lent[b], inv[b], sent[b])
    BY <2>1, <2>2, LessCalls
  <2> QED
    BY <1>1, <2>3
<1>12. CallsOK'
  BY <1>11 DEF CallsOK
<1>13. FetchedOK'
  <2> SUFFICES ASSUME NEW l \in DOMAIN jobs PROVE Fetched(jobs'[l], Asked(l))
    BY <1>1, <1>9 DEF FetchedOK, Asked
  <2>1. Fetched(jobs[l], Asked(l))
    BY DEF FilesInv, FetchedOK
  <2>2. CASE l # k
    BY <1>9, <2>1, <2>2
  <2>3. CASE l = k
    <3>1. j.data = Asked(k)
      BY <1>1, <1>7, <2>1, <2>3 DEF Fetched
    <3>2. Fetched(j, Asked(k))
      BY <1>1, <1>7, <3>1 DEF Fetched
    <3> QED
      BY <1>9, <2>3, <3>2
  <2> QED
    BY <2>2, <2>3
<1>14. StoredOK'
  <2>1. StoredBytes(jobs, "go", bytes, torn)
    BY <1>1 DEF FilesInv, StoredOK
  <2>2. torn' = IF {l \in DOMAIN jobs : jobs[l].at = "writing" /\ jobs[l].ino = ino} = {} THEN torn \ {ino} ELSE torn \cup {ino}
    BY <1>1 DEF Writing
  <2>3. jobs[k].at # "writing" /\ jobs'[k].at = "writing" /\ jobs'[k].ino = ino
    BY <1>1, <1>7, <1>9
  <2>4. \A x \in DOMAIN bytes : x \in DOMAIN bytes'
    BY <1>3
  <2>5. \A x \in DOMAIN bytes' : x # ino => x \in DOMAIN bytes /\ bytes'[x] = bytes[x]
    BY <1>3
  <2>6. ino \in DOMAIN bytes' /\ bytes'[ino] = << >>
    BY <1>3
  <2>7. DOMAIN jobs' = DOMAIN jobs /\ \A l \in DOMAIN jobs : l # k => jobs'[l] = jobs[l]
    BY <1>9
  <2>8. Truncated(jobs, jobs', bytes, bytes', torn, torn', k, ino)
    BY <2>2, <2>3, <2>4, <2>5, <2>6, <2>7 DEF Truncated
  <2>9. StoredBytes(jobs', "go", bytes', torn')
    BY <2>1, <2>8, TruncateStored
  <2> QED
    BY <1>1, <2>9 DEF StoredOK
<1>15. ToldOK'
  BY <1>1 DEF FilesInv, ToldOK
<1> QED
  BY <1>5, <1>10, <1>12, <1>13, <1>14, <1>15 DEF FilesInv

(***************************************************************************)
(* Go: job k writes what it has fetched, ...                               *)
(***************************************************************************)
LEMMA WriteBytesInv ==
  ASSUME FilesInv, NEW k \in DOMAIN jobs, WriteBytes(k)
  PROVE  FilesInv'
<1> DEFINE data == jobs[k].data
           ino == jobs[k].ino
           answer == [code |-> "ok", data |-> data]
           rest == SubSeq(bytes[ino], Len(data) + 1, Len(bytes[ino]))
<1>1. /\ jobs[k].at = "writing" /\ Answers(k, answer)
      /\ bytes' = [bytes EXCEPT ![ino] = data \o rest]
      /\ files' = Disturbed(ino)
      /\ UNCHANGED <<side, dir, torn, inq, asks, inv, plan, sent, alive, lent>>
  BY DEF WriteBytes, peers
<1>2. side = "go" /\ ino \in DOMAIN bytes
  BY <1>1 DEF FilesInv, StoredOK, StoredBytes
<1>3. jobs[k].code = "ok"
  BY <1>1 DEF FilesInv, FetchedOK, Fetched
<1>4. data \in Seq(Byte) /\ data = Asked(k) /\ data \in Whole /\ answer \in ToldType
  BY <1>1, <1>3, FetchedWhole
<1>5. answer.code = "ok" => answer.data = Asked(k)
  BY <1>4
<1>6. bytes \in Seq(Seq(Byte)) /\ Len(bytes) \in Nat /\ DOMAIN bytes = 1 .. Len(bytes)
  BY Elements DEF FilesInv, FilesTypeOK
<1>7. bytes[ino] \in Seq(Byte)
  BY <1>2, <1>6, Elements
<1>8. rest \in Seq(Byte) /\ (bytes[ino] = << >> => rest = << >>)
  <2>1. Len(data) \in Nat /\ Len(bytes[ino]) \in Nat /\ DOMAIN bytes[ino] = 1 .. Len(bytes[ino])
    BY <1>4, <1>7, Elements
  <2>2. \A i \in Len(data) + 1 .. Len(bytes[ino]) : bytes[ino][i] \in Byte
    <3>1. \A i \in Len(data) + 1 .. Len(bytes[ino]) : i \in DOMAIN bytes[ino]
      BY <2>1
    <3> QED
      BY <1>7, <3>1, Elements
  <2>3. /\ rest \in Seq(Byte)
        /\ Len(rest) = IF Len(data) + 1 <= Len(bytes[ino]) THEN (Len(bytes[ino]) - (Len(data) + 1)) + 1 ELSE 0
    <3>1. Len(data) + 1 \in Int /\ Len(bytes[ino]) \in Int
      BY <2>1
    <3> QED
      BY <2>2, <3>1, BytesOf
  <2>4. ASSUME bytes[ino] = << >> PROVE rest = << >>
    <3>1. Len(bytes[ino]) = 0
      BY <1>7, <2>4, EmptySeq
    <3> HIDE DEF data, ino, rest
    <3>2. Len(rest) = 0
      BY <2>1, <2>3, <3>1
    <3> QED
      BY <2>3, <3>2, EmptySeq
  <2> QED
    BY <2>3, <2>4
<1>9. data \o rest \in Seq(Byte) /\ (bytes[ino] = << >> => data \o rest = data)
  <2>1. data \o rest \in Seq(Byte)
    BY <1>4, <1>8, ConcatProperties
  <2>2. data \o << >> = data
    BY <1>4, ConcatEmptySeq
  <2> QED
    BY <1>8, <2>1, <2>2
<1> HIDE DEF data, ino, answer, rest
<1>10. /\ bytes' \in Seq(Seq(Byte)) /\ DOMAIN bytes' = DOMAIN bytes /\ bytes'[ino] = data \o rest
       /\ \A x \in DOMAIN bytes : x # ino => bytes'[x] = bytes[x]
  <2>1. /\ bytes' \in Seq(Seq(Byte)) /\ Len(bytes') = Len(bytes)
        /\ \A i \in 1 .. Len(bytes) : bytes'[i] = IF i = ino THEN data \o rest ELSE bytes[i]
    BY <1>1, <1>2, <1>6, <1>9, ExceptSeq
  <2>2. DOMAIN bytes' = 1 .. Len(bytes)
    BY <2>1, Elements
  <2> QED
    BY <1>2, <1>6, <2>1, <2>2
<1>11. /\ DOMAIN jobs' = DOMAIN jobs \ {k} /\ (\A l \in DOMAIN jobs' : jobs'[l] = jobs[l])
       /\ DOMAIN jobs' \subseteq Users \X Nat /\ jobs' \in [DOMAIN jobs' -> JobType]
       /\ told' \in [Users -> Seq(ToldType)] /\ (\A b \in Users : Len(told'[b]) = Len(sent'[b]))
       /\ CallsOK' /\ FetchedOK' /\ ToldOK'
  BY <1>1, <1>4, <1>5, AnswersStep
<1>12. /\ files' \in [Users -> Seq(FileType)]
       /\ \A b \in Users : \A i \in DOMAIN files'[b] : files'[b][i].ino \in DOMAIN bytes'
       /\ KeptOK'
  BY <1>1, <1>2, <1>10, DisturbedFiles
<1>13. \A x \in DOMAIN dir' : dir'[x] \in DOMAIN bytes'
  BY <1>1, <1>10 DEF FilesInv, FilesTypeOK
<1>14. FilesTypeOK'
  BY <1>1, <1>10, <1>11, <1>12, <1>13 DEF FilesInv, FilesTypeOK, ToldType
<1>15. StoredOK'
  <2>1. StoredBytes(jobs, "go", bytes, torn) /\ jobs[k].ino = ino
    BY <1>2 DEF FilesInv, StoredOK, ino
  <2>2. bytes[ino] = << >> => bytes'[ino] \in Whole
    BY <1>4, <1>9, <1>10
  <2>3. DOMAIN bytes' = DOMAIN bytes /\ \A x \in DOMAIN bytes : x # ino => bytes'[x] = bytes[x]
    BY <1>10
  <2>4. DOMAIN jobs' = DOMAIN jobs \ {k} /\ \A l \in DOMAIN jobs' : jobs'[l] = jobs[l]
    BY <1>11
  <2>5. \A x \in torn : x \in torn
    OBVIOUS
  <2>6. ino \in torn \/ (bytes[ino] = << >> => bytes'[ino] \in Whole)
    BY <2>2
  <2>7. Wrote(jobs, jobs', bytes, bytes', torn, torn, k, ino)
    BY <1>1, <2>1, <2>3, <2>4, <2>5, <2>6 DEF Wrote
  <2>8. StoredBytes(jobs', "go", bytes', torn)
    BY <2>1, <2>7, WriteStored
  <2> QED
    BY <1>1, <1>2, <2>8 DEF StoredOK
<1> QED
  BY <1>11, <1>12, <1>14, <1>15 DEF FilesInv

(***************************************************************************)
(* ... or fails, and if it has truncated the file then leaves it torn.     *)
(***************************************************************************)
LEMMA WriteFailsInv ==
  ASSUME FilesInv, NEW k \in DOMAIN jobs, WriteFails(k)
  PROVE  FilesInv'
<1> DEFINE answer == Told("access-denied")
<1>1. /\ side = "go" /\ jobs[k].at \in {"done", "writing"} /\ Answers(k, answer)
      /\ torn' = (IF jobs[k].at = "writing" THEN torn \cup {jobs[k].ino} ELSE torn)
      /\ UNCHANGED <<side, dir, bytes, inq, asks, inv, files, plan, sent, alive, lent>>
  BY DEF WriteFails
<1>2. answer \in ToldType /\ answer.code # "ok"
  <2>1. << >> \in Seq(Byte)
    OBVIOUS
  <2> QED
    BY <2>1 DEF Told, ToldType, Codes
<1> HIDE DEF answer
<1>3. /\ DOMAIN jobs' = DOMAIN jobs \ {k} /\ (\A l \in DOMAIN jobs' : jobs'[l] = jobs[l])
      /\ DOMAIN jobs' \subseteq Users \X Nat /\ jobs' \in [DOMAIN jobs' -> JobType]
      /\ told' \in [Users -> Seq(ToldType)] /\ (\A b \in Users : Len(told'[b]) = Len(sent'[b]))
      /\ CallsOK' /\ FetchedOK' /\ ToldOK'
  BY <1>1, <1>2, AnswersStep
<1>4. FilesTypeOK'
  BY <1>1, <1>3 DEF FilesInv, FilesTypeOK, ToldType
<1>5. StoredOK'
  <2>1. StoredBytes(jobs, "go", bytes, torn)
    BY <1>1 DEF FilesInv, StoredOK
  <2>2. CASE jobs[k].at = "writing"
    <3>1. (\A x \in torn : x \in torn') /\ jobs[k].ino \in torn'
      BY <1>1, <2>2
    <3>2. Wrote(jobs, jobs', bytes, bytes, torn, torn', k, jobs[k].ino)
      BY <1>3, <2>2, <3>1 DEF Wrote
    <3>3. StoredBytes(jobs', "go", bytes, torn')
      BY <2>1, <3>2, WriteStored
    <3> QED
      BY <1>1, <3>3 DEF StoredOK
  <2>3. CASE jobs[k].at # "writing"
    <3>1. StoredBytes(jobs', "go", bytes, torn)
      BY <1>3, <2>1, <2>3, SameWriters
    <3> QED
      BY <1>1, <2>3, <3>1 DEF StoredOK
  <2> QED
    BY <2>2, <2>3
<1>6. KeptOK'
  BY <1>1 DEF FilesInv, KeptOK
<1> QED
  BY <1>3, <1>4, <1>5, <1>6 DEF FilesInv

-----------------------------------------------------------------------------
(* The theorems.                                                           *)

(***************************************************************************)
(* The servers start with the fixture's files and nothing under way.       *)
(***************************************************************************)
LEMMA InitInv ==
  ASSUME FilesInit
  PROVE  FilesInv
<1>1. /\ side \in {"go", "rs"} /\ dir = StartDir /\ bytes = StartBytes /\ plan \in Plans
      /\ sent = [a \in Users |-> << >>] /\ told = sent /\ alive = [a \in Users |-> TRUE]
      /\ inq = sent /\ asks = sent /\ lent = sent /\ files = sent
      /\ jobs = << >> /\ inv = [a \in Users |-> 0]
  BY DEF FilesInit
<1>2. DOMAIN jobs = {}
  BY <1>1
<1>3. jobs \in [DOMAIN jobs -> JobType] /\ DOMAIN jobs \subseteq Users \X Nat
  BY <1>1, <1>2
<1>4. \A a \in Users : sent[a] = << >> /\ told[a] = << >> /\ inq[a] = << >> /\ asks[a] = << >>
                       /\ lent[a] = << >> /\ files[a] = << >> /\ DOMAIN sent[a] = {}
  BY <1>1
<1>5. bytes \in Seq(Seq(Byte)) /\ plan \in [Users -> Seq(Ops)]
  BY <1>1, FilesAssumption
<1>6. \A n \in DOMAIN dir : dir[n] \in DOMAIN bytes
  BY <1>1, FilesAssumption DEF Range
<1>7. \A S : sent \in [Users -> Seq(S)]
  BY <1>1
<1>8. FilesTypeOK
  BY <1>1, <1>3, <1>4, <1>5, <1>6, <1>7 DEF FilesTypeOK
<1>9. ASSUME NEW a \in Users PROVE Calls(jobs, a, asks[a], inq[a], lent[a], inv[a], sent[a])
  <2>1. Of(jobs, a) = {} /\ DOMAIN asks[a] = {} /\ DOMAIN inq[a] = {}
    BY <1>2, <1>4 DEF Of
  <2>2. JobsSent(jobs, a, sent[a]) /\ RequestsSent(jobs, a, inq[a], sent[a]) /\ RequestsInOrder(inq[a])
    BY <2>1 DEF JobsSent, RequestsSent, RequestsInOrder
  <2>3. AsksInOrder(asks[a], inv[a]) /\ AnswersFirst(asks[a], inq[a], inv[a]) /\ AnswersInOrder(inq[a])
    BY <2>1 DEF AsksInOrder, AnswersFirst, AnswersInOrder
  <2>4. JobsInvs(jobs, a, inv[a]) /\ ReadsLent(asks[a], lent[a]) /\ JobsApart(jobs, a) /\ OwnReads(jobs, a, asks[a])
    BY <2>1 DEF JobsInvs, ReadsLent, JobsApart, OwnReads
  <2>5. FreshUnread(jobs, a, asks[a], inq[a], lent[a]) /\ FreshOnce(inq[a])
    BY <2>1 DEF FreshUnread, FreshOnce
  <2>6. Fits(jobs, a, asks[a], inq[a], lent[a], sent[a])
    BY <2>1 DEF Fits
  <2> QED
    BY <2>2, <2>3, <2>4, <2>5, <2>6 DEF Calls
<1>10. CallsOK
  BY <1>9 DEF CallsOK
<1>11. FetchedOK
  BY <1>2 DEF FetchedOK
<1>12. StoredOK
  <2>1. \A ino \in DOMAIN bytes : bytes[ino] \in Whole
    BY <1>1 DEF Whole, Range
  <2> QED
    BY <1>2, <2>1 DEF StoredOK, StoredBytes
<1>13. KeptOK /\ ToldOK
  BY <1>4 DEF KeptOK, ToldOK
<1> QED
  BY <1>8, <1>10, <1>11, <1>12, <1>13 DEF FilesInv

(***************************************************************************)
(* Every step of the servers and of the clients keeps the invariant.       *)
(***************************************************************************)
LEMMA NextInv ==
  ASSUME FilesInv, [FilesNext]_fileVars
  PROVE  FilesInv'
<1>1. CASE UNCHANGED fileVars
  BY <1>1, UnchangedInv DEF fileVars, storeVars, peers
<1>2. CASE FilesNext
  <2>1. PICK a \in Users : FileServer(a) \/ FileClient(a)
    BY <1>2 DEF FilesNext
  <2>2. CASE ServeRequest(a)
    BY <2>2, ServeRequestInv
  <2>3. CASE TakeAnswer(a)
    BY <2>3, TakeAnswerInv
  <2>4. CASE DropAnswer(a)
    BY <2>4, DropAnswerInv
  <2>5. CASE DropRequest(a)
    BY <2>5, DropRequestInv
  <2>6. ASSUME NEW k \in JobsOf(a), Job(k) PROVE FilesInv'
    <3>1. k \in DOMAIN jobs
      BY DEF JobsOf
    <3>2. CASE CallFails(k)
      BY <3>1, <3>2, CallFailsInv
    <3>3. CASE Unfetched(k)
      BY <3>1, <3>3, UnfetchedInv
    <3>4. CASE Insert(k)
      BY <3>1, <3>4, InsertInv
    <3>5. CASE Truncate(k)
      BY <3>1, <3>5, TruncateInv
    <3>6. CASE WriteBytes(k)
      BY <3>1, <3>6, WriteBytesInv
    <3>7. CASE WriteFails(k)
      BY <3>1, <3>7, WriteFailsInv
    <3> QED
      BY <2>6, <3>2, <3>3, <3>4, <3>5, <3>6, <3>7 DEF Job
  <2>7. CASE SendCall(a)
    BY <2>7, SendCallInv
  <2>8. CASE ClientAnswers(a)
    BY <2>8, ClientAnswersInv
  <2>9. CASE Lost(a)
    BY <2>9, LostInv
  <2>10. CASE FallsSilent(a)
    BY <2>10, UnchangedInv DEF FallsSilent, storeVars
  <2> QED
    BY <2>1, <2>2, <2>3, <2>4, <2>5, <2>6, <2>7, <2>8, <2>9, <2>10 DEF FileServer, FileClient, LoopGo, LoopRs
<1> QED
  BY <1>1, <1>2

(***************************************************************************)
(* A file that was read to its end was read whole.                         *)
(***************************************************************************)
LEMMA ReadWhole ==
  ASSUME NEW f \in FileType, NEW sd, NEW by, Intact(f, sd, by), f.over
  PROVE  f.got = f.want
<1>1. f.got \in Seq(Byte) /\ f.want \in Seq(Byte) /\ Len(f.data) \in Nat
  BY Elements DEF FileType
<1>2. Len(f.got) \in Nat /\ Len(f.want) \in Nat
  BY <1>1, Elements
<1>3. f.pos = Len(f.data) /\ Len(f.got) + Len(f.data) = Len(f.want) + f.pos
      /\ \A i \in 1 .. Len(f.got) : f.got[i] = f.want[i]
  BY DEF Intact
<1>4. Len(f.got) = Len(f.want)
  <2>1. \A l, m, n \in Nat : l + n = m + n => l = m
    OBVIOUS
  <2>2. Len(f.got) + Len(f.data) = Len(f.want) + Len(f.data)
    BY <1>3
  <2> QED
    BY <1>1, <1>2, <2>1, <2>2
<1> DEFINE g == f.got
           w == f.want
<1>5. g \in Seq(Byte) /\ w \in Seq(Byte) /\ Len(g) = Len(w) /\ \A i \in 1 .. Len(g) : g[i] = w[i]
  BY <1>1, <1>3, <1>4
<1> HIDE DEF g, w
<1>6. g = w
  BY <1>5, SeqEqual
<1> QED
  BY <1>6 DEF g, w

(***************************************************************************)
(* The invariant implies that files are whole.                             *)
(***************************************************************************)
LEMMA InvWhole ==
  ASSUME FilesInv
  PROVE  FilesWhole
<1>1. ASSUME NEW a \in Users, NEW i \in DOMAIN files[a], files[a][i].over, side = "go" => ~files[a][i].disturbed
      PROVE  files[a][i].got = files[a][i].want
  <2>1. files[a] \in Seq(FileType)
    BY DEF FilesInv, FilesTypeOK
  <2>2. files[a][i] \in FileType
    BY <2>1, Elements
  <2>3. Intact(files[a][i], side, bytes)
    BY <1>1 DEF FilesInv, KeptOK, Kept
  <2> QED
    BY <1>1, <2>2, <2>3, ReadWhole
<1>2. ASSUME NEW n \in DOMAIN dir
      PROVE  \/ bytes[dir[n]] \in Range(StartBytes) \cup Range(ClientFiles)
             \/ side = "go" /\ (Writing(dir[n]) # {} \/ dir[n] \in torn)
  <2> DEFINE ino == dir[n]
  <2>1. ino \in DOMAIN bytes /\ side \in {"go", "rs"}
    BY DEF FilesInv, FilesTypeOK
  <2> HIDE DEF ino
  <2>2. \/ side = "go" /\ ino \in torn
        \/ bytes[ino] \in Whole
        \/ \E k \in DOMAIN jobs : WritesTo(jobs[k], ino)
    BY <2>1 DEF FilesInv, StoredOK, StoredBytes
  <2>3. ASSUME NEW k \in DOMAIN jobs, WritesTo(jobs[k], ino) PROVE side = "go" /\ Writing(ino) # {}
    <3>1. side = "go"
      BY <2>3 DEF FilesInv, StoredOK, StoredBytes, WritesTo
    <3>2. k \in Writing(ino)
      BY <2>3 DEF Writing, WritesTo
    <3> QED
      BY <3>1, <3>2
  <2> QED
    BY <2>2, <2>3 DEF Whole, ino
<1>3. ToldOK
  BY DEF FilesInv
<1> QED
  BY <1>1, <1>2, <1>3 DEF FilesWhole, ToldOK

(***************************************************************************)
(* Files are whole, in both servers, whatever the associations, the        *)
(* files and the requests: a client that reads to the end has the file as  *)
(* it was when fileOpen or file_open opened it; every file of the store is *)
(* one of the fixture's or of a client's; and an ObtainFile that succeeds  *)
(* stored the file it was asked for, whatever calls timed out and however  *)
(* late their answers come.                                                *)
(***************************************************************************)
THEOREM WholeFiles == FilesSpec => []FilesWhole
<1>1. FilesInit => FilesInv
  BY InitInv
<1>2. FilesInv /\ [FilesNext]_fileVars => FilesInv'
  BY NextInv
<1>3. FilesInv => FilesWhole
  BY InvWhole
<1> QED
  BY <1>1, <1>2, <1>3, PTL DEF FilesSpec
=============================================================================
