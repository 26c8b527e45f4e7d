-------------------------- MODULE MmsStationProofs --------------------------
(***************************************************************************)
(* Proofs about the C programs over MMS, for any fixtures, any writes of   *)
(* other clients and any number of disturbances: that the mms-server keeps *)
(* its variables and its directories, and that the lines of the mms-client *)
(* are true and in one piece.                                              *)
(***************************************************************************)
EXTENDS MmsStationC, FiniteSetTheorems, SequenceTheorems, TLAPS

-----------------------------------------------------------------------------
(* What fixture.c makes of a variable.                                     *)

(* An array's "count", where it has one, is the number of its values; the  *)
(* program does not check it.                                              *)
CountsTrue(obj) ==
  obj.type = "array" /\ Has(obj, "value") =>
    /\ DOMAIN obj.value = 1 .. Len(obj.value)
    /\ Has(obj, "count") /\ obj.count > 0 => obj.count = Len(obj.value)

ArraysComplete ==
  \A i \in DOMAIN Fixtures :
    \A n \in DOMAIN Fixtures[i].variables : CountsTrue(Fixtures[i].variables[n])

(* A value as it is kept, of the type and the elements of a specification. *)
Fits(c, spec) ==
  /\ c = [type |-> c.type, elems |-> c.elems, v |-> c.v]
  /\ [type |-> c.type, elems |-> c.elems] = spec

(***************************************************************************)
(* make_value makes a value that fits the specification of make_spec.      *)
(***************************************************************************)
LEMMA ScalarFits ==
  ASSUME NEW type, NEW j, make_value(type, j) # Null
  PROVE  Fits(make_value(type, j), make_spec(type)) /\ type \in Scalars
<1>1. type \in Scalars
  BY DEF make_value
<1>2. make_spec(type) = [type |-> type, elems |-> << >>]
  BY <1>1 DEF make_spec
<1>3. \E w : make_value(type, j) = [type |-> type, elems |-> << >>, v |-> w]
  BY <1>1, Zenon DEF make_value
<1>4. PICK w : make_value(type, j) = [type |-> type, elems |-> << >>, v |-> w]
  BY <1>3
<1> QED
  BY <1>1, <1>2, <1>4 DEF Fits

(* A variable that was loaded; an array has a value for each element.      *)
GoodRef(ref) ==
  /\ Fits(ref.value, ref.spec)
  /\ ref.value.type = "array" =>
       /\ ref.value.v = [i \in DOMAIN ref.value.v |-> ref.value.v[i]]
       /\ DOMAIN ref.value.v = DOMAIN ref.value.elems

(***************************************************************************)
(* load_variable gives every variable a value that fits its specification. *)
(***************************************************************************)
LEMMA VariableFits ==
  ASSUME NEW obj, CountsTrue(obj), load_variable(obj) # Null
  PROVE  GoodRef(load_variable(obj))
<1> DEFINE composite == Has(obj, "type") /\ obj.type \in {"array", "structure"}
           spec == CASE ~composite -> make_spec(obj.type)
                     [] obj.type = "array" ->
                          IF Has(obj, "elementType") THEN build_array_spec(obj) ELSE Null
                     [] OTHER -> build_structure_spec(obj.value)
           value == CASE ~composite -> make_value(obj.type, obj.value)
                      [] obj.type = "array" -> build_array_value(obj)
                      [] OTHER -> build_structure_value(obj.value)
           w == Has(obj, "writable") /\ obj.writable
<1>1. load_variable(obj) =
        IF ~Has(obj, "type") \/ ~Has(obj, "value") THEN Null
        ELSE IF spec = Null THEN Null
        ELSE IF value = Null THEN Null
        ELSE [type |-> "variable", spec |-> spec, value |-> value, writable |-> w]
  BY DEF load_variable
<1> HIDE DEF spec, value, w
<1>2. /\ Has(obj, "type") /\ Has(obj, "value") /\ spec # Null /\ value # Null
      /\ load_variable(obj).value = value /\ load_variable(obj).spec = spec
  BY <1>1
<1>3. CASE obj.type \notin {"array", "structure"}
  <2>1. spec = make_spec(obj.type) /\ value = make_value(obj.type, obj.value)
    BY <1>3 DEF spec, value
  <2>2. Fits(value, spec) /\ value.type # "array"
    BY <1>2, <1>3, <2>1, ScalarFits DEF Fits, make_spec, Scalars
  <2> QED
    BY <1>2, <2>2 DEF GoodRef
<1>4. CASE obj.type = "array"
  <2>1. value = build_array_value(obj) /\ spec = build_array_spec(obj)
    BY <1>2, <1>4 DEF spec, value
  <2> DEFINE e == obj.elementType
             n == Len(obj.value)
             count == IF Has(obj, "count") /\ obj.count > 0 THEN obj.count ELSE Len(obj.value)
  <2>2. \E x : value = [type |-> "array", elems |-> [i \in DOMAIN obj.value |-> e],
                        v |-> [i \in DOMAIN obj.value |-> x[i]]]
    <3> DEFINE y == [i \in DOMAIN obj.value |-> make_value(obj.elementType, <<obj.value[i]>>).v[1]]
    <3>1. value = [type |-> "array", elems |-> [i \in DOMAIN obj.value |-> e], v |-> y]
      BY <1>2, <2>1 DEF build_array_value
    <3>2. y = [i \in DOMAIN obj.value |-> y[i]]
      OBVIOUS
    <3> HIDE DEF y
    <3> QED
      BY <3>1, <3>2
  <2>3. spec = [type |-> "array", elems |-> [i \in 1 .. count |-> e]]
    BY <1>2, <2>1 DEF build_array_spec
  <2>4. count = n /\ DOMAIN obj.value = 1 .. n
    BY <1>2, <1>4 DEF CountsTrue
  <2> HIDE DEF e, n, count
  <2>5. PICK x : value = [type |-> "array", elems |-> [i \in 1 .. n |-> e],
                          v |-> [i \in 1 .. n |-> x[i]]]
    BY <2>2, <2>4
  <2>6. spec = [type |-> "array", elems |-> [i \in 1 .. n |-> e]]
    BY <2>3, <2>4
  <2>7. Fits(value, spec)
    BY <2>5, <2>6 DEF Fits
  <2>8. value.v = [i \in DOMAIN value.v |-> value.v[i]] /\ DOMAIN value.v = DOMAIN value.elems
    BY <2>5
  <2> QED
    BY <1>2, <2>7, <2>8 DEF GoodRef
<1>5. CASE obj.type = "structure"
  <2>1. value = build_structure_value(obj.value) /\ spec = build_structure_spec(obj.value)
    BY <1>2, <1>5 DEF spec, value
  <2> DEFINE es == [i \in DOMAIN obj.value |-> obj.value[i].type]
  <2>2. \E x : value = [type |-> "structure", elems |-> es, v |-> x]
    BY <1>2, <2>1 DEF build_structure_value
  <2>3. spec = [type |-> "structure", elems |-> es]
    BY <1>2, <2>1 DEF build_structure_spec
  <2> HIDE DEF es
  <2>4. PICK x : value = [type |-> "structure", elems |-> es, v |-> x]
    BY <2>2
  <2>5. Fits(value, spec) /\ value.type # "array"
    BY <2>3, <2>4 DEF Fits
  <2> QED
    BY <1>2, <2>5 DEF GoodRef
<1> QED
  BY <1>3, <1>4, <1>5
(***************************************************************************)
(* fixture_load keeps the good variables.                                  *)
(***************************************************************************)
LEMMA FixtureFits ==
  ASSUME ArraysComplete, NEW i \in DOMAIN Fixtures, fixture_load(Fixtures[i]) # Null
  PROVE  \A n \in DOMAIN fixture_load(Fixtures[i]).vars : GoodRef(fixture_load(Fixtures[i]).vars[n])
<1> DEFINE all == Fixtures[i].variables
           vs == [n \in DOMAIN all |-> load_variable(all[n])]
           good == [n \in {n \in DOMAIN vs : vs[n] # Null} |-> vs[n]]
<1>1. fixture_load(Fixtures[i]).vars = good
  BY DEF fixture_load
<1> SUFFICES ASSUME NEW n \in DOMAIN good PROVE GoodRef(good[n])
  BY <1>1
<1>2. n \in DOMAIN all /\ good[n] = load_variable(all[n]) /\ load_variable(all[n]) # Null
  OBVIOUS
<1>3. CountsTrue(all[n])
  BY <1>2 DEF ArraysComplete
<1> HIDE DEF good, all
<1> QED
  BY <1>2, <1>3, VariableFits

-----------------------------------------------------------------------------
(* What a write makes of a variable.                                       *)

(* The cached value x is one the variable ref may have.                    *)
Kept(x, ref) ==
  /\ Fits(x, ref.spec)
  /\ ~ref.writable /\ ref.spec.elems = << >> => x = ref.value

KeptAll(c, vs) ==
  DOMAIN c = DOMAIN vs /\ \A n \in DOMAIN c : Kept(c[n], vs[n]) /\ GoodRef(vs[n])

(***************************************************************************)
(* Put leaves the type and the elements as they are.                       *)
(***************************************************************************)
LEMMA PutFits ==
  ASSUME NEW c, NEW at, NEW x, NEW spec, Fits(c, spec)
  PROVE  Fits(Put(c, at, x), spec)
<1>1. c = [type |-> c.type, elems |-> c.elems, v |-> c.v]
  BY DEF Fits
<1>2. \A w : Fits([c EXCEPT !.v = w], spec)
  BY <1>1 DEF Fits
<1> QED
  BY <1>2 DEF Put

(***************************************************************************)
(* One write, by write_handler or by libiec61850, keeps all variables.     *)
(***************************************************************************)
LEMMA WriteKeeps ==
  ASSUME NEW c, NEW name, NEW at, NEW x, KeptAll(c, fix.vars)
  PROVE  KeptAll(Stored(c, name, at, x), fix.vars)
<1>1. CASE WriteItem(c, name, at, x) # Success
  BY <1>1 DEF Stored
<1>2. CASE WriteItem(c, name, at, x) = Success
  <2> DEFINE d == Stored(c, name, at, x)
             ref == fix.vars[name]
             y == Put(c[name], at, x)
  <2>1. name \in DOMAIN c /\ Kept(c[name], ref) /\ GoodRef(ref)
    <3>1. name \in DOMAIN c
      BY <1>2 DEF WriteItem, Success
    <3> QED
      BY <3>1 DEF KeptAll
  <2>2. d = [c EXCEPT ![name] = y]
    BY <1>2 DEF Stored
  <2>3. Fits(y, ref.spec)
    BY <2>1, PutFits DEF Kept
  <2>4. ASSUME ~ref.writable, ref.spec.elems = << >> PROVE y = ref.value
    <3>1. Len(at) > 1 /\ c[name].type = "array"
      BY <1>2, <2>1, <2>4 DEF WriteItem, write_handler, RangeWrite, Success, Ref
    <3>2. c[name] = ref.value
      BY <2>1, <2>4 DEF Kept
    <3> DEFINE b == ref.value
    <3>3. /\ b = [type |-> b.type, elems |-> b.elems, v |-> b.v]
          /\ b.v = [i \in DOMAIN b.v |-> b.v[i]] /\ DOMAIN b.v = DOMAIN b.elems /\ b.elems = << >>
      BY <2>1, <2>4, <3>1, <3>2 DEF GoodRef, Fits
    <3>4. at # << >>
      BY <3>1
    <3>5. \E w : y = [b EXCEPT !.v = [i \in DOMAIN b.v |-> w[i]]]
      <4> DEFINE z == [i \in DOMAIN b.v |-> IF \E k \in DOMAIN at : at[k] = i
                         THEN x.v[CHOOSE k \in DOMAIN at : at[k] = i] ELSE b.v[i]]
      <4>1. y = [b EXCEPT !.v = z]
        BY <3>2, <3>4 DEF Put
      <4>2. z = [i \in DOMAIN b.v |-> z[i]]
        OBVIOUS
      <4> HIDE DEF z, y, b
      <4> QED
        BY <4>1, <4>2
    <3>6. DOMAIN b.v = {}
      BY <3>3
    <3> HIDE DEF b, y
    <3>7. PICK w : y = [b EXCEPT !.v = [i \in DOMAIN b.v |-> w[i]]]
      BY <3>5
    <3>8. [i \in DOMAIN b.v |-> w[i]] = b.v
      BY <3>3, <3>6
    <3> QED
      BY <3>3, <3>7, <3>8 DEF b
  <2>5. Kept(y, ref)
    BY <2>3, <2>4 DEF Kept
  <2> HIDE DEF y, d
  <2>6. DOMAIN d = DOMAIN c /\ \A n \in DOMAIN c : d[n] = IF n = name THEN y ELSE c[n]
    BY <2>2
  <2> QED
    BY <2>1, <2>5, <2>6 DEF KeptAll, d
<1> QED
  BY <1>1, <1>2

-----------------------------------------------------------------------------
(* The server with its clients.                                            *)

StoreInv ==
  /\ root \in DOMAIN Fixtures
  /\ spc \in {"files", "serve"} => \A n \in DOMAIN fix.vars : GoodRef(fix.vars[n])
  /\ spc = "serve" => KeptAll(cache, fix.vars)

(***************************************************************************)
(* Only the server and what interferes with it change the server.          *)
(***************************************************************************)
LEMMA ServerSteps ==
  ASSUME [MmsNext]_mmsVars
  PROVE  UNCHANGED server \/ Server \/ Environment
<1>1. CASE ClientStep
  BY <1>1 DEF ClientStep, Connects, Prints, Rounds
<1>2. CASE ThreadStep \/ TimeoutStep \/ Cut \/ AnyServe \/ AnyReport
  BY <1>2 DEF ThreadStep, TimeoutStep, Cut, AnyServe, AnyReport
<1>3. CASE ServerStep \/ EnvironmentStep
  BY <1>3 DEF ServerStep, EnvironmentStep
<1>4. CASE UNCHANGED mmsVars
  BY <1>4 DEF mmsVars
<1> QED
  BY <1>1, <1>2, <1>3, <1>4 DEF MmsNext, MmsProgress

(***************************************************************************)
(* A request, whatever it is, keeps all variables.                         *)
(***************************************************************************)
LEMMA RequestKeeps ==
  ASSUME NEW q, KeptAll(cache, fix.vars)
  PROVE  KeptAll(CacheAfter(q), fix.vars)
<1>1. CASE q.how = "write"
  <2>1. CacheAfter(q) = Stored(cache, q.on, q.at, q.vals[1])
    BY <1>1 DEF CacheAfter
  <2> QED
    BY <2>1, WriteKeeps
<1>2. CASE q.how = "write-multiple" \/ (q.how = "write-list" /\ q.on \in lists)
  <2> DEFINE c == Stored(cache, Members[1], << >>, q.vals[1])
             d == Stored(c, Members[2], << >>, q.vals[2])
  <2>1. CacheAfter(q) = d
    BY <1>2 DEF CacheAfter, WriteAll
  <2>2. KeptAll(c, fix.vars)
    BY WriteKeeps
  <2> HIDE DEF c
  <2>3. KeptAll(d, fix.vars)
    BY <2>2, WriteKeeps
  <2> QED
    BY <2>1, <2>3
<1>3. CASE ~(q.how = "write") /\ ~(q.how = "write-multiple" \/ (q.how = "write-list" /\ q.on \in lists))
  BY <1>3 DEF CacheAfter
<1> QED
  BY <1>1, <1>2, <1>3

LEMMA StoreStep ==
  ASSUME ArraysComplete, StoreInv, [MmsNext]_mmsVars
  PROVE  StoreInv'
<1>1. CASE UNCHANGED server
  BY <1>1 DEF StoreInv, server
<1>2. CASE Load
  <2>1. /\ spc' \in {"files", "down"} /\ root' = root
        /\ spc' = "files" => fix' = fixture_load(Fixtures[root]) /\ fix' # Null
    BY <1>2 DEF Load
  <2>2. spc' = "files" => \A n \in DOMAIN fix'.vars : GoodRef(fix'.vars[n])
    BY <2>1, FixtureFits DEF StoreInv
  <2> QED
    BY <2>1, <2>2 DEF StoreInv
<1>3. CASE Populate
  <2>1. /\ cache' = [n \in DOMAIN fix.vars |-> fix.vars[n].value] /\ fix' = fix /\ root' = root
        /\ \A n \in DOMAIN fix.vars : GoodRef(fix.vars[n])
    BY <1>3 DEF Populate, StoreInv
  <2>2. \A n \in DOMAIN fix.vars : Kept(fix.vars[n].value, fix.vars[n])
    BY <2>1 DEF GoodRef, Kept
  <2>3. KeptAll(cache', fix'.vars)
    BY <2>1, <2>2 DEF KeptAll
  <2> QED
    BY <2>1, <2>3 DEF StoreInv
<1>4. CASE Serve
  <2>1. KeptAll(cache', fix.vars)
    BY <1>4, RequestKeeps DEF Serve, StoreInv
  <2> QED
    BY <1>4, <2>1 DEF Serve, StoreInv
<1>5. CASE OtherWrite
  <2>1. KeptAll(cache', fix.vars)
    BY <1>5, WriteKeeps DEF OtherWrite, StoreInv
  <2> QED
    BY <1>5, <2>1 DEF OtherWrite, StoreInv
<1>6. CASE Cleanup \/ Start \/ StartFails \/ Stop \/ Killed
  BY <1>6 DEF Cleanup, Start, StartFails, Stop, Killed, StoreInv
<1> QED
  BY <1>1, <1>2, <1>3, <1>4, <1>5, <1>6, ServerSteps DEF Server, Environment

(***************************************************************************)
(* Whatever fixture the C mms-server is started with, and whatever its     *)
(* clients write, single values, lists, elements or ranges, the variables  *)
(* that are not writable keep their values, and all keep the type that     *)
(* GetVariableAccessAttributes announces (StoreKept).  The number of       *)
(* values of an array in the fixture must be the one it announces.         *)
(***************************************************************************)
THEOREM VariablesKept ==
  ASSUME ArraysComplete
  PROVE  MmsSpec => []StoreKept
<1>1. MmsInit => StoreInv
  BY DEF MmsInit, ServerInit, StoreInv
<1>2. StoreInv /\ [MmsNext]_mmsVars => StoreInv'
  BY StoreStep
<1>3. StoreInv => StoreKept
  BY DEF StoreInv, StoreKept, KeptAll, Kept, Fits, Ref
<1> QED
  BY <1>1, <1>2, <1>3, PTL DEF MmsSpec

-----------------------------------------------------------------------------
(* The file store.                                                         *)

DirectoryInv ==
  /\ starts \in Nat
  /\ DOMAIN disk \subseteq Nat
  /\ ~argument => \A d \in DOMAIN disk : d <= starts
  /\ ~argument /\ spc \in {"start", "files"} => starts \notin DOMAIN disk
  /\ spc = "files" => fix.files = [n \in DOMAIN fix.files |-> fix.files[n]]

(***************************************************************************)
(* Writing files into a directory adds the directory and no other.         *)
(***************************************************************************)
LEMMA Populated ==
  ASSUME NEW files
  PROVE  /\ DOMAIN populate_filestore(files) = DOMAIN disk \cup {Directory}
         /\ Found = << >> /\ files = [n \in DOMAIN files |-> files[n]] =>
              populate_filestore(files)[Directory] = files
<1> DEFINE D == Directory
           merged == [n \in DOMAIN files \cup DOMAIN Found |->
                        IF n \in DOMAIN files THEN files[n] ELSE Found[n]]
<1>1. populate_filestore(files) =
        [d \in DOMAIN disk \cup {D} |-> IF d # D THEN disk[d] ELSE merged]
  BY DEF populate_filestore
<1>2. Found = << >> => merged = [n \in DOMAIN files |-> files[n]]
  OBVIOUS
<1> HIDE DEF merged, D
<1>3. DOMAIN populate_filestore(files) = DOMAIN disk \cup {D} /\ populate_filestore(files)[D] = merged
  BY <1>1
<1> QED
  BY <1>2, <1>3 DEF D

LEMMA DirectoryStep ==
  ASSUME DirectoryInv, [MmsNext]_mmsVars
  PROVE  DirectoryInv'
<1>1. CASE UNCHANGED server
  BY <1>1 DEF DirectoryInv, server
<1>2. CASE Load
  <2>1. spc' = "files" => fix'.files = [n \in DOMAIN fix'.files |-> fix'.files[n]]
    BY <1>2 DEF Load, fixture_load
  <2> QED
    BY <1>2, <2>1 DEF Load, DirectoryInv
<1>3. CASE Populate \/ StartFails
  <2>1. /\ disk' = disk \/ \E files : disk' = populate_filestore(files)
        /\ starts' = starts /\ argument' = argument /\ spc' \in {"serve", "down"}
    BY <1>3 DEF Populate, StartFails
  <2>2. DOMAIN disk' = DOMAIN disk \/ DOMAIN disk' = DOMAIN disk \cup {Directory}
    BY <2>1, Populated
  <2>3. Directory = IF argument THEN 0 ELSE starts
    BY DEF Directory
  <2> QED
    BY <2>1, <2>2, <2>3 DEF DirectoryInv
<1>4. CASE Serve
  BY <1>4 DEF Serve, DirectoryInv
<1>5. CASE Cleanup
  <2>1. DOMAIN disk' \subseteq DOMAIN disk
    BY <1>5 DEF Cleanup
  <2> QED
    BY <1>5, <2>1 DEF Cleanup, DirectoryInv
<1>6. CASE Start
  BY <1>6 DEF Start, DirectoryInv
<1>7. CASE OtherWrite \/ Stop \/ Killed
  BY <1>7 DEF OtherWrite, Stop, Killed, DirectoryInv
<1> QED
  BY <1>1, <1>2, <1>3, <1>4, <1>5, <1>6, <1>7, ServerSteps DEF Server, Environment

(***************************************************************************)
(* A C mms-server without --filestore starts with exactly the fixture's    *)
(* files (RunsApart), however often it was stopped, killed or failed to    *)
(* start, and whatever was left in the directories of those runs.          *)
(***************************************************************************)
THEOREM RunsStartFresh == MmsSpec => RunsApart
<1>1. MmsInit => DirectoryInv
  BY DEF MmsInit, ServerInit, DirectoryInv
<1>2. DirectoryInv /\ [MmsNext]_mmsVars => DirectoryInv'
  BY DirectoryStep
<1>3. DirectoryInv /\ [MmsNext]_mmsVars =>
        [~argument /\ spc = "files" /\ spc' = "serve" => disk'[base'] = fix.files]_<<spc, disk>>
  <2> SUFFICES ASSUME DirectoryInv, [MmsNext]_mmsVars, ~argument, spc = "files", spc' = "serve"
               PROVE  disk'[base'] = fix.files
    OBVIOUS
  <2>1. Populate
    BY ServerSteps DEF Server, Environment, server, Load, Serve, Cleanup, Start, StartFails,
                       OtherWrite, Stop, Killed
  <2>2. base' = Directory /\ disk' = populate_filestore(fix.files) /\ Directory = starts
    BY <2>1 DEF Populate, Directory
  <2>3. Found = << >>
    BY <2>2 DEF Found, DirectoryInv
  <2>4. fix.files = [n \in DOMAIN fix.files |-> fix.files[n]]
    BY DEF DirectoryInv
  <2> QED
    BY <2>2, <2>3, <2>4, Populated
<1> QED
  BY <1>1, <1>2, <1>3, PTL DEF MmsSpec, RunsApart
-----------------------------------------------------------------------------
(* Sequences of any things, and the answers among them.                    *)

IsSeq(s) == \E S : s \in Seq(S)

IsAnswer(s, i) == s[i].kind = "answer"

AnswersIn(s) == {i \in 1 .. Len(s) : IsAnswer(s, i)}

Answers(s) == Cardinality(AnswersIn(s))

LEMMA SeqLen ==
  ASSUME NEW s, IsSeq(s)
  PROVE  Len(s) \in Nat /\ DOMAIN s = 1 .. Len(s)
BY DEF IsSeq

LEMMA SeqEmpty == IsSeq(<< >>) /\ Answers(<< >>) = 0
<1>1. << >> \in Seq({}) /\ Len(<< >>) = 0
  OBVIOUS
<1>2. AnswersIn(<< >>) = {}
  BY <1>1 DEF AnswersIn
<1> QED
  BY <1>1, <1>2, FS_EmptySet DEF IsSeq, Answers

LEMMA SeqNil ==
  ASSUME NEW s, IsSeq(s)
  PROVE  s = << >> <=> Len(s) = 0
<1>1. PICK S : s \in Seq(S)
  BY DEF IsSeq
<1> QED BY <1>1, EmptySeq

LEMMA SeqConcat ==
  ASSUME NEW s, NEW t, IsSeq(s), IsSeq(t)
  PROVE  /\ IsSeq(s \o t) /\ Len(s \o t) = Len(s) + Len(t)
         /\ \A i \in 1 .. Len(s) : (s \o t)[i] = s[i]
         /\ \A i \in 1 .. Len(t) : (s \o t)[Len(s) + i] = t[i]
<1>1. PICK S : s \in Seq(S)
  BY DEF IsSeq
<1>2. PICK T : t \in Seq(T)
  BY DEF IsSeq
<1>3. s \in Seq(S \cup T) /\ t \in Seq(S \cup T)
  BY <1>1, <1>2
<1> QED
  BY <1>3 DEF IsSeq

LEMMA SeqOne ==
  ASSUME NEW x
  PROVE  IsSeq(<<x>>) /\ Len(<<x>>) = 1 /\ <<x>>[1] = x
<1>1. <<x>> \in Seq({x})
  OBVIOUS
<1> QED BY <1>1 DEF IsSeq

LEMMA SeqAppend ==
  ASSUME NEW s, NEW x, IsSeq(s)
  PROVE  Append(s, x) = s \o <<x>>
<1>1. PICK S : s \in Seq(S)
  BY DEF IsSeq
<1>2. s \in Seq(S \cup {x})
  BY <1>1
<1> QED BY <1>2

LEMMA SeqTail ==
  ASSUME NEW s, IsSeq(s), s # << >>
  PROVE  /\ IsSeq(Tail(s)) /\ Len(s) > 0 /\ Len(Tail(s)) = Len(s) - 1 /\ s[1] = Head(s)
         /\ \A i \in 1 .. Len(Tail(s)) : Tail(s)[i] = s[i + 1]
         /\ s = <<Head(s)>> \o Tail(s)
<1>1. PICK S : s \in Seq(S)
  BY DEF IsSeq
<1>2. Tail(s) \in Seq(S) /\ Len(s) > 0 /\ Len(Tail(s)) = Len(s) - 1 /\ s[1] = Head(s)
      /\ \A i \in 1 .. Len(Tail(s)) : Tail(s)[i] = s[i + 1]
  BY <1>1
<1>3. s = <<Head(s)>> \o Tail(s)
  BY <1>1
<1> QED BY <1>2, <1>3 DEF IsSeq

LEMMA AnswersFinite ==
  ASSUME NEW s, IsSeq(s)
  PROVE  IsFiniteSet(AnswersIn(s)) /\ Answers(s) \in Nat /\ (Answers(s) = 0 <=> AnswersIn(s) = {})
<1>1. IsFiniteSet(1 .. Len(s)) /\ AnswersIn(s) \subseteq 1 .. Len(s)
  BY SeqLen, FS_Interval DEF AnswersIn
<1>2. IsFiniteSet(AnswersIn(s))
  BY <1>1, FS_Subset
<1> QED BY <1>2, FS_CardinalityType, FS_EmptySet DEF Answers

(***************************************************************************)
(* The answers of two sequences are counted apart.                         *)
(***************************************************************************)
LEMMA AnswersConcat ==
  ASSUME NEW s, NEW t, IsSeq(s), IsSeq(t)
  PROVE  Answers(s \o t) = Answers(s) + Answers(t)
<1> DEFINE n == Len(s)
           A == AnswersIn(s)
           B == AnswersIn(t)
           C == {n + j : j \in B}
           f == [j \in B |-> n + j]
<1>0. n \in Nat /\ Len(t) \in Nat
  BY SeqLen
<1>1. AnswersIn(s \o t) = A \cup C
  <2>1. /\ Len(s \o t) = n + Len(t)
        /\ \A i \in 1 .. n : (s \o t)[i] = s[i]
        /\ \A i \in 1 .. Len(t) : (s \o t)[n + i] = t[i]
    BY SeqConcat
  <2>2. ASSUME NEW i \in A PROVE i \in AnswersIn(s \o t)
    BY <1>0, <2>1 DEF AnswersIn, IsAnswer
  <2>3. ASSUME NEW j \in B PROVE n + j \in AnswersIn(s \o t)
    BY <1>0, <2>1 DEF AnswersIn, IsAnswer
  <2>4. ASSUME NEW i \in AnswersIn(s \o t) PROVE i \in A \cup C
    <3>1. CASE i \in 1 .. n
      BY <2>1, <3>1 DEF AnswersIn, IsAnswer
    <3>2. CASE i \notin 1 .. n
      <4>1. i - n \in 1 .. Len(t) /\ n + (i - n) = i
        BY <1>0, <2>1, <3>2 DEF AnswersIn
      <4>2. IsAnswer(s \o t, i)
        BY DEF AnswersIn
      <4>3. i - n \in B
        BY <2>1, <4>1, <4>2 DEF AnswersIn, IsAnswer
      <4> QED BY <4>1, <4>3
    <3> QED BY <3>1, <3>2
  <2> HIDE DEF A, B
  <2> QED BY <2>2, <2>3, <2>4
<1>2. IsFiniteSet(A) /\ IsFiniteSet(B) /\ A \subseteq 1 .. n /\ B \subseteq 1 .. Len(t)
  BY AnswersFinite DEF AnswersIn
<1> HIDE DEF A, B, n
<1>3. f \in Bijection(B, C)
  <2>1. \A x, y \in B : n + x = n + y => x = y
    BY <1>0, <1>2
  <2>2. f \in [B -> C]
    OBVIOUS
  <2>3. \A x, y \in B : f[x] = f[y] => x = y
    BY <2>1
  <2>4. \A y \in C : \E x \in B : f[x] = y
    OBVIOUS
  <2> QED BY <2>2, <2>3, <2>4 DEF Bijection, Injection, Surjection, IsInjective
<1>4. IsFiniteSet(C) /\ Cardinality(C) = Cardinality(B)
  <2> HIDE DEF f, C
  <2>1. ExistsBijection(B, C)
    BY <1>3 DEF ExistsBijection
  <2> QED BY <1>2, <2>1, FS_Bijection
<1>5. A \cap C = {}
  BY <1>0, <1>2
<1> HIDE DEF C
<1>6. Cardinality(A \cup C) = Cardinality(A) + Cardinality(C)
  <2>1. Cardinality(A \cup C) = Cardinality(A) + Cardinality(C) - Cardinality(A \cap C)
    BY <1>2, <1>4, FS_Union
  <2>2. Cardinality(A \cap C) = 0
    BY <1>5, FS_EmptySet
  <2>3. Cardinality(A) \in Nat /\ Cardinality(C) \in Nat
    BY <1>2, <1>4, FS_CardinalityType
  <2> QED BY <2>1, <2>2, <2>3
<1> QED BY <1>1, <1>4, <1>6 DEF Answers, A, B

LEMMA AnswersOne ==
  ASSUME NEW x
  PROVE  Answers(<<x>>) = IF x.kind = "answer" THEN 1 ELSE 0
<1>1. Len(<<x>>) = 1 /\ <<x>>[1] = x
  OBVIOUS
<1>2. AnswersIn(<<x>>) = IF x.kind = "answer" THEN {1} ELSE {}
  BY <1>1 DEF AnswersIn, IsAnswer
<1> QED BY <1>2, FS_EmptySet, FS_Singleton DEF Answers

-----------------------------------------------------------------------------
(* The calls of the client, and the answers that fit them.                 *)

Hows ==
  {"vmd", "domain", "attributes", "read", "write", "read-multiple", "write-multiple", "define",
   "list", "delete", "read-list", "write-list", "directory", "open", "file", "close", "unlink",
   "rename", "obtain", "journal", "conclude", "abort"}

(* A call whose line follows the rule of its service.                      *)
GoodCall(q) ==
  /\ q = Call(q.how, q.say, q.on, q.at, q.vals)
  /\ q.how \in Hows
  /\ q.say \in {"plain", "raw", "checked", "write", "items", "partial", "lost"}
  /\ q.say = "plain" => q.how \notin {"read", "write", "write-multiple", "write-list"}
  /\ q.say \in {"raw", "checked"} => q.how = "read"
  /\ q.say = "write" => q.how = "write"

GoodRequest(q) == GoodCall(q) /\ q.how # "abort"

(* From the answer to q its line can be told: a service with one result    *)
(* has failed with an error, and a read or a write has one result.         *)
RightAnswer(q, r) ==
  /\ q.say = "plain" /\ q.how \notin {"read-multiple", "read-list"} /\ r.err = "none" =>
       \A i \in DOMAIN r.items : r.items[i] = Success
  /\ q.say \in {"checked", "write"} /\ r.err = "none" => DOMAIN r.items = {1}

LEMMA ResultFields ==
  ASSUME NEW e, NEW items, NEW d, NEW m
  PROVE  /\ Result(e, items, d, m).err = e /\ Result(e, items, d, m).items = items
         /\ Refused(e).err = e /\ Refused(e).items = << >>
         /\ Done(items, d).err = "none" /\ Done(items, d).items = items
  BY DEF Result, Refused, Done

LEMMA RefusedRight ==
  ASSUME NEW q, NEW e, e # "none"
  PROVE  RightAnswer(q, Refused(e))
  BY ResultFields DEF RightAnswer

LEMMA DoneRight ==
  ASSUME NEW q, NEW d
  PROVE  RightAnswer(q, Done(<<Success>>, d))
<1>1. DOMAIN <<Success>> = {1} /\ <<Success>>[1] = Success
  OBVIOUS
<1> QED BY <1>1, ResultFields DEF RightAnswer

(* What the C server answers.                                              *)
LEMMA AnswerRight ==
  ASSUME NEW q, GoodRequest(q)
  PROVE  RightAnswer(q, AnswerTo(q))
<1>1. CASE q.how = "read"
  <2>1. AnswerTo(q) = Done(<<ReadItem(q.on, q.at)>>, ReadData(q.on, q.at))
    BY <1>1 DEF AnswerTo
  <2>2. q.say # "plain" /\ DOMAIN <<ReadItem(q.on, q.at)>> = {1}
    BY <1>1 DEF GoodRequest, GoodCall
  <2> QED BY <2>1, <2>2, ResultFields DEF RightAnswer
<1>2. CASE q.how = "write"
  <2>1. AnswerTo(q) = SingleWrite(WriteItem(cache, q.on, q.at, q.vals[1]))
    BY <1>2 DEF AnswerTo
  <2>2. q.say # "plain" /\ DOMAIN <<WriteItem(cache, q.on, q.at, q.vals[1])>> = {1}
    BY <1>2 DEF GoodRequest, GoodCall
  <2>3. AnswerTo(q).items = <<WriteItem(cache, q.on, q.at, q.vals[1])>>
    BY <2>1 DEF SingleWrite, Result
  <2> QED BY <2>2, <2>3 DEF RightAnswer
<1>3. CASE q.how \in {"read-multiple", "write-multiple", "read-list", "write-list"}
  BY <1>3 DEF GoodRequest, GoodCall, RightAnswer
<1>4. CASE q.how \in {"vmd", "conclude", "close", "domain", "attributes", "define", "list", "delete",
                      "open", "unlink", "rename", "obtain"}
  <2>1. \/ AnswerTo(q) = Done(<<Success>>, << >>)
        \/ AnswerTo(q) = Refused("mms-error") \/ AnswerTo(q) = Refused("file-non-existent")
    BY <1>4, Zenon DEF AnswerTo
  <2> QED BY <2>1, DoneRight, RefusedRight
<1>5. CASE q.how \in {"directory", "file"}
  <2>1. AnswerTo(q).items = << >>
    <3>1. \/ \E d, m : AnswerTo(q) = Result("none", << >>, d, m)
          \/ AnswerTo(q) = Refused("file-non-existent") \/ AnswerTo(q) = Refused("file-other")
      BY <1>5, Zenon DEF AnswerTo
    <3> QED BY <3>1, ResultFields
  <2>2. q.say \notin {"checked", "write"}
    BY <1>5 DEF GoodRequest, GoodCall
  <2> QED BY <2>1, <2>2 DEF RightAnswer
<1>6. CASE q.how = "journal"
  <2>1. AnswerTo(q) = Refused("mms-error") \/ \E d : AnswerTo(q) = Done(<<Success>>, d)
    BY <1>6, Zenon DEF AnswerTo
  <2> QED BY <2>1, DoneRight, RefusedRight
<1> QED BY <1>1, <1>2, <1>3, <1>4, <1>5, <1>6 DEF GoodRequest, GoodCall, Hows

(* What any other server may answer.                                       *)
LEMMA AnyRight ==
  ASSUME NEW q, GoodRequest(q), NEW r, r \in AnyAnswers(q)
  PROVE  RightAnswer(q, r)
<1>1. CASE q.how \in {"directory", "file"}
  <2>1. r = Refused("mms-error") \/ \E d, m : r = Result("none", << >>, d, m)
    <3>1. r = Refused("mms-error") \/ r \in AnyListing \/ r \in AnyBytes(q)
      BY <1>1 DEF AnyAnswers
    <3>2. r \in AnyListing => \E d, m : r = Result("none", << >>, d, m)
      BY DEF AnyListing
    <3>3. r \in AnyBytes(q) => \E d, m : r = Result("none", << >>, d, m)
      BY DEF AnyBytes
    <3> QED BY <3>1, <3>2, <3>3
  <2>2. q.say \notin {"checked", "write"}
    BY <1>1 DEF GoodRequest, GoodCall
  <2>3. CASE r = Refused("mms-error")
    BY <2>3, RefusedRight
  <2>4. CASE \E d, m : r = Result("none", << >>, d, m)
    BY <2>2, <2>4, ResultFields DEF RightAnswer
  <2> QED BY <2>1, <2>3, <2>4
<1>2. CASE q.how \in {"read", "write"}
  <2>1. \/ r = Done(<<Success>>, << >>) \/ r = Refused("mms-error")
        \/ r = Done(<<"object-non-existent">>, << >>)
        \/ r = Result("mms-error", <<"object-access-denied">>, << >>, FALSE)
    BY <1>2 DEF AnyAnswers
  <2>2. q.say # "plain"
    BY <1>2 DEF GoodRequest, GoodCall
  <2>3. DOMAIN <<"object-non-existent">> = {1}
    OBVIOUS
  <2>4. CASE r = Done(<<"object-non-existent">>, << >>)
    BY <2>2, <2>3, <2>4, ResultFields DEF RightAnswer
  <2>5. CASE r = Result("mms-error", <<"object-access-denied">>, << >>, FALSE)
    BY <2>5 DEF RightAnswer, Result
  <2> QED BY <2>1, <2>4, <2>5, DoneRight, RefusedRight
<1>3. CASE q.how \in {"write-multiple", "write-list"}
  BY <1>3 DEF GoodRequest, GoodCall, RightAnswer
<1>4. CASE q.how \notin {"directory", "file", "read", "write", "write-multiple", "write-list"}
  <2>1. r = Done(<<Success>>, << >>) \/ r = Refused("mms-error")
    BY <1>4 DEF AnyAnswers
  <2> QED BY <2>1, DoneRight, RefusedRight
<1> QED BY <1>1, <1>2, <1>3, <1>4

(* The write that makes a server send reports.                             *)
Triggers(q) == q.how = "write" /\ q.on = "report-trigger"

(* Neither that write nor the end of the association by the client.        *)
Tame(q) == ~Triggers(q) /\ q.how # "abort"

(* Sequences of calls, as the scripts are, and of calls without a report.  *)
GoodCalls(s) == IsSeq(s) /\ \A i \in 1 .. Len(s) : GoodCall(s[i])
QuietCalls(s) == GoodCalls(s) /\ \A i \in 1 .. Len(s) : Tame(s[i])

LEMMA GoodCallsConcat ==
  ASSUME NEW s, NEW t, GoodCalls(s), GoodCalls(t)
  PROVE  GoodCalls(s \o t) /\ Len(s \o t) = Len(s) + Len(t)
<1>1. IsSeq(s) /\ IsSeq(t) /\ Len(s) \in Nat /\ Len(t) \in Nat
  BY SeqLen DEF GoodCalls
<1>2. /\ IsSeq(s \o t) /\ Len(s \o t) = Len(s) + Len(t)
      /\ \A i \in 1 .. Len(s) : (s \o t)[i] = s[i]
      /\ \A i \in 1 .. Len(t) : (s \o t)[Len(s) + i] = t[i]
  BY <1>1, SeqConcat
<1>3. ASSUME NEW i \in 1 .. Len(s \o t) PROVE GoodCall((s \o t)[i])
  <2>1. CASE i <= Len(s)
    BY <1>1, <1>2, <2>1 DEF GoodCalls
  <2>2. CASE i > Len(s)
    <3>1. i - Len(s) \in 1 .. Len(t) /\ Len(s) + (i - Len(s)) = i
      BY <1>1, <1>2, <2>2
    <3>2. (s \o t)[i] = t[i - Len(s)]
      BY <1>2, <3>1
    <3> QED BY <3>1, <3>2 DEF GoodCalls
  <2> QED BY <1>1, <2>1, <2>2
<1> QED BY <1>2, <1>3 DEF GoodCalls

LEMMA AskGood ==
  ASSUME NEW how \in Hows \ {"read", "write", "write-multiple", "write-list"}, NEW on
  PROVE  GoodCall(Ask(how, on))
  BY DEF GoodCall, Ask, Call, Hows

LEMMA CallGood ==
  ASSUME NEW how, NEW say, NEW on, NEW at, NEW vals, how \in Hows,
         \/ say = "plain" /\ how \notin {"read", "write", "write-multiple", "write-list"}
         \/ say \in {"raw", "checked"} /\ how = "read"
         \/ say = "write" /\ how = "write"
         \/ say \in {"items", "partial", "lost"}
  PROVE  GoodCall(Call(how, say, on, at, vals))
  BY DEF GoodCall, Call

LEMMA QuietCallsConcat ==
  ASSUME NEW s, NEW t, QuietCalls(s), QuietCalls(t)
  PROVE  QuietCalls(s \o t) /\ Len(s \o t) = Len(s) + Len(t)
<1>1. GoodCalls(s \o t) /\ Len(s \o t) = Len(s) + Len(t)
  BY GoodCallsConcat DEF QuietCalls
<1>2. IsSeq(s) /\ IsSeq(t) /\ Len(s) \in Nat /\ Len(t) \in Nat
  BY SeqLen DEF QuietCalls, GoodCalls
<1>3. /\ \A i \in 1 .. Len(s) : (s \o t)[i] = s[i]
      /\ \A i \in 1 .. Len(t) : (s \o t)[Len(s) + i] = t[i]
  BY <1>2, SeqConcat
<1>4. ASSUME NEW i \in 1 .. Len(s \o t) PROVE Tame((s \o t)[i])
  <2>1. CASE i <= Len(s)
    BY <1>1, <1>2, <1>3, <2>1 DEF QuietCalls
  <2>2. CASE i > Len(s)
    <3>1. i - Len(s) \in 1 .. Len(t) /\ Len(s) + (i - Len(s)) = i
      BY <1>1, <1>2, <2>2
    <3>2. (s \o t)[i] = t[i - Len(s)]
      BY <1>3, <3>1
    <3> QED BY <3>1, <3>2 DEF QuietCalls
  <2> QED BY <1>1, <1>2, <2>1, <2>2
<1> QED BY <1>1, <1>4 DEF QuietCalls

(* The two facts about a call of a script.                                 *)
QuietCall(q) == GoodCall(q) /\ Tame(q)

LEMMA AskQuiet ==
  ASSUME NEW how \in Hows \ {"read", "write", "write-multiple", "write-list", "abort"}, NEW on
  PROVE  QuietCall(Ask(how, on))
<1>1. Tame(Ask(how, on))
  BY DEF Tame, Triggers, Ask, Call
<1> QED BY <1>1, AskGood DEF QuietCall

LEMMA CallQuiet ==
  ASSUME NEW how, NEW say, NEW on, NEW at, NEW vals, how \in Hows,
         \/ say = "plain" /\ how \notin {"read", "write", "write-multiple", "write-list"}
         \/ say \in {"raw", "checked"} /\ how = "read"
         \/ say = "write" /\ how = "write"
         \/ say \in {"items", "partial", "lost"},
         how # "abort", how = "write" => on # "report-trigger"
  PROVE  QuietCall(Call(how, say, on, at, vals))
<1>1. Tame(Call(how, say, on, at, vals))
  BY DEF Tame, Triggers, Call
<1> QED BY <1>1, CallGood DEF QuietCall

LEMMA Phase1AQuiet == QuietCalls(Phase1A) /\ Len(Phase1A) = 10
<1>1. Phase1A \in Seq({Phase1A[i] : i \in 1 .. 10}) /\ Len(Phase1A) = 10
  BY DEF Phase1A
<1>2. \A i \in 1 .. 10 : QuietCall(Phase1A[i])
  BY AskQuiet, CallQuiet DEF Phase1A, RawRead, Read, Write, Open, NewName, List, WriteList, Hows
<1> QED BY <1>1, <1>2 DEF QuietCalls, GoodCalls, QuietCall, IsSeq

LEMMA ScalarTypesQuiet == QuietCalls(ScalarTypes) /\ Len(ScalarTypes) = 9
<1>1. ScalarTypes \in Seq({ScalarTypes[i] : i \in 1 .. 9}) /\ Len(ScalarTypes) = 9
  BY DEF ScalarTypes
<1>2. \A i \in 1 .. 9 : QuietCall(ScalarTypes[i])
  BY AskQuiet, CallQuiet DEF ScalarTypes, RawRead, Read, Write, Open, NewName, List, WriteList, Hows
<1> QED BY <1>1, <1>2 DEF QuietCalls, GoodCalls, QuietCall, IsSeq

LEMMA DataModelQuiet == QuietCalls(DataModel) /\ Len(DataModel) = 6
<1>1. DataModel \in Seq({DataModel[i] : i \in 1 .. 6}) /\ Len(DataModel) = 6
  BY DEF DataModel
<1>2. \A i \in 1 .. 6 : QuietCall(DataModel[i])
  BY AskQuiet, CallQuiet DEF DataModel, RawRead, Read, Write, Open, NewName, List, WriteList, Hows
<1> QED BY <1>1, <1>2 DEF QuietCalls, GoodCalls, QuietCall, IsSeq

LEMMA NegativeTestsQuiet == QuietCalls(NegativeTests) /\ Len(NegativeTests) = 3
<1>1. NegativeTests \in Seq({NegativeTests[i] : i \in 1 .. 3}) /\ Len(NegativeTests) = 3
  BY DEF NegativeTests
<1>2. \A i \in 1 .. 3 : QuietCall(NegativeTests[i])
  BY AskQuiet, CallQuiet DEF NegativeTests, RawRead, Read, Write, Open, NewName, List, WriteList, Hows
<1> QED BY <1>1, <1>2 DEF QuietCalls, GoodCalls, QuietCall, IsSeq

LEMMA svc_statusQuiet == QuietCalls(svc_status) /\ Len(svc_status) = 2
<1>1. svc_status \in Seq({svc_status[i] : i \in 1 .. 2}) /\ Len(svc_status) = 2
  BY DEF svc_status
<1>2. \A i \in 1 .. 2 : QuietCall(svc_status[i])
  BY AskQuiet, CallQuiet DEF svc_status, RawRead, Read, Write, Open, NewName, List, WriteList, Hows
<1> QED BY <1>1, <1>2 DEF QuietCalls, GoodCalls, QuietCall, IsSeq

LEMMA svc_name_listsQuiet == QuietCalls(svc_name_lists) /\ Len(svc_name_lists) = 3
<1>1. svc_name_lists \in Seq({svc_name_lists[i] : i \in 1 .. 3}) /\ Len(svc_name_lists) = 3
  BY DEF svc_name_lists
<1>2. \A i \in 1 .. 3 : QuietCall(svc_name_lists[i])
  BY AskQuiet, CallQuiet DEF svc_name_lists, RawRead, Read, Write, Open, NewName, List, WriteList, Hows
<1> QED BY <1>1, <1>2 DEF QuietCalls, GoodCalls, QuietCall, IsSeq

LEMMA svc_type_specsQuiet == QuietCalls(svc_type_specs) /\ Len(svc_type_specs) = 2
<1>1. svc_type_specs \in Seq({svc_type_specs[i] : i \in 1 .. 2}) /\ Len(svc_type_specs) = 2
  BY DEF svc_type_specs
<1>2. \A i \in 1 .. 2 : QuietCall(svc_type_specs[i])
  BY AskQuiet, CallQuiet DEF svc_type_specs, RawRead, Read, Write, Open, NewName, List, WriteList, Hows
<1> QED BY <1>1, <1>2 DEF QuietCalls, GoodCalls, QuietCall, IsSeq

LEMMA svc_alternate_accessQuiet == QuietCalls(svc_alternate_access) /\ Len(svc_alternate_access) = 8
<1>1. svc_alternate_access \in Seq({svc_alternate_access[i] : i \in 1 .. 8}) /\ Len(svc_alternate_access) = 8
  BY DEF svc_alternate_access
<1>2. \A i \in 1 .. 8 : QuietCall(svc_alternate_access[i])
  BY AskQuiet, CallQuiet DEF svc_alternate_access, RawRead, Read, Write, Open, NewName, List, WriteList, Hows
<1> QED BY <1>1, <1>2 DEF QuietCalls, GoodCalls, QuietCall, IsSeq

LEMMA svc_named_variable_listsQuiet == QuietCalls(svc_named_variable_lists) /\ Len(svc_named_variable_lists) = 19
<1>1. svc_named_variable_lists \in Seq({svc_named_variable_lists[i] : i \in 1 .. 19}) /\ Len(svc_named_variable_lists) = 19
  BY DEF svc_named_variable_lists
<1>2. \A i \in 1 .. 19 : QuietCall(svc_named_variable_lists[i])
  BY AskQuiet, CallQuiet DEF svc_named_variable_lists, RawRead, Read, Write, Open, NewName, List, WriteList, Hows
<1> QED BY <1>1, <1>2 DEF QuietCalls, GoodCalls, QuietCall, IsSeq

LEMMA svc_filesQuiet == QuietCalls(svc_files) /\ Len(svc_files) = 12
<1>1. svc_files \in Seq({svc_files[i] : i \in 1 .. 12}) /\ Len(svc_files) = 12
  BY DEF svc_files
<1>2. \A i \in 1 .. 12 : QuietCall(svc_files[i])
  BY AskQuiet, CallQuiet DEF svc_files, RawRead, Read, Write, Open, NewName, List, WriteList, Hows
<1> QED BY <1>1, <1>2 DEF QuietCalls, GoodCalls, QuietCall, IsSeq

LEMMA svc_journalsQuiet == QuietCalls(svc_journals) /\ Len(svc_journals) = 3
<1>1. svc_journals \in Seq({svc_journals[i] : i \in 1 .. 3}) /\ Len(svc_journals) = 3
  BY DEF svc_journals
<1>2. \A i \in 1 .. 3 : QuietCall(svc_journals[i])
  BY AskQuiet, CallQuiet DEF svc_journals, RawRead, Read, Write, Open, NewName, List, WriteList, Hows
<1> QED BY <1>1, <1>2 DEF QuietCalls, GoodCalls, QuietCall, IsSeq

LEMMA ConcludeQuiet == QuietCalls(Conclude) /\ Len(Conclude) = 1
<1>1. Conclude \in Seq({Conclude[i] : i \in 1 .. 1}) /\ Len(Conclude) = 1
  BY DEF Conclude
<1>2. \A i \in 1 .. 1 : QuietCall(Conclude[i])
  BY AskQuiet, CallQuiet DEF Conclude, RawRead, Read, Write, Open, NewName, List, WriteList, Hows
<1> QED BY <1>1, <1>2 DEF QuietCalls, GoodCalls, QuietCall, IsSeq

LEMMA svc_reportsGood ==
  /\ GoodCalls(svc_reports) /\ Len(svc_reports) = 2
  /\ Tame(svc_reports[2]) /\ svc_reports[1].how # "abort"
<1>1. svc_reports \in Seq({svc_reports[i] : i \in 1 .. 2}) /\ Len(svc_reports) = 2
  BY DEF svc_reports
<1>2. \A i \in 1 .. 2 : GoodCall(svc_reports[i])
  BY CallGood DEF svc_reports, Read, Write, Hows
<1>3. Tame(svc_reports[2]) /\ svc_reports[1].how # "abort"
  BY DEF svc_reports, Read, Write, Call, Tame, Triggers
<1> QED BY <1>1, <1>2, <1>3 DEF GoodCalls, IsSeq

(* The calls before those of svc_reports, and the place of its write.      *)
Before ==
  svc_status \o svc_name_lists \o svc_type_specs \o svc_alternate_access
    \o svc_named_variable_lists \o svc_files \o svc_journals

TriggerPos == Len(OwnCalls) + Len(run_services) - 1

LEMMA OwnCallsQuiet == QuietCalls(OwnCalls) /\ Len(OwnCalls) = 28
<1> DEFINE s2 == Phase1A \o ScalarTypes
           s3 == s2 \o DataModel
           s4 == s3 \o NegativeTests
<1> HIDE DEF s2, s3, s4
<1>1. QuietCalls(s2) /\ Len(s2) = Len(Phase1A) + Len(ScalarTypes)
  BY Phase1AQuiet, ScalarTypesQuiet, QuietCallsConcat, Zenon DEF s2
<1>2. QuietCalls(s2) /\ Len(s2) = 19
  BY <1>1, Phase1AQuiet, ScalarTypesQuiet
<1>3. QuietCalls(s3) /\ Len(s3) = Len(s2) + Len(DataModel)
  BY <1>2, DataModelQuiet, QuietCallsConcat, Zenon DEF s3
<1>4. QuietCalls(s3) /\ Len(s3) = 25
  BY <1>3, <1>2, DataModelQuiet
<1>5. QuietCalls(s4) /\ Len(s4) = Len(s3) + Len(NegativeTests)
  BY <1>4, NegativeTestsQuiet, QuietCallsConcat, Zenon DEF s4
<1>6. QuietCalls(s4) /\ Len(s4) = 28
  BY <1>5, <1>4, NegativeTestsQuiet
<1>7. OwnCalls = s4
  BY DEF OwnCalls, s4, s3, s2
<1> QED BY <1>6, <1>7

LEMMA BeforeQuiet == QuietCalls(Before) /\ Len(Before) = 49
<1> DEFINE s2 == svc_status \o svc_name_lists
           s3 == s2 \o svc_type_specs
           s4 == s3 \o svc_alternate_access
           s5 == s4 \o svc_named_variable_lists
           s6 == s5 \o svc_files
           s7 == s6 \o svc_journals
<1> HIDE DEF s2, s3, s4, s5, s6, s7
<1>1. QuietCalls(s2) /\ Len(s2) = Len(svc_status) + Len(svc_name_lists)
  BY svc_statusQuiet, svc_name_listsQuiet, QuietCallsConcat, Zenon DEF s2
<1>2. QuietCalls(s2) /\ Len(s2) = 5
  BY <1>1, svc_statusQuiet, svc_name_listsQuiet
<1>3. QuietCalls(s3) /\ Len(s3) = Len(s2) + Len(svc_type_specs)
  BY <1>2, svc_type_specsQuiet, QuietCallsConcat, Zenon DEF s3
<1>4. QuietCalls(s3) /\ Len(s3) = 7
  BY <1>3, <1>2, svc_type_specsQuiet
<1>5. QuietCalls(s4) /\ Len(s4) = Len(s3) + Len(svc_alternate_access)
  BY <1>4, svc_alternate_accessQuiet, QuietCallsConcat, Zenon DEF s4
<1>6. QuietCalls(s4) /\ Len(s4) = 15
  BY <1>5, <1>4, svc_alternate_accessQuiet
<1>7. QuietCalls(s5) /\ Len(s5) = Len(s4) + Len(svc_named_variable_lists)
  BY <1>6, svc_named_variable_listsQuiet, QuietCallsConcat, Zenon DEF s5
<1>8. QuietCalls(s5) /\ Len(s5) = 34
  BY <1>7, <1>6, svc_named_variable_listsQuiet
<1>9. QuietCalls(s6) /\ Len(s6) = Len(s5) + Len(svc_files)
  BY <1>8, svc_filesQuiet, QuietCallsConcat, Zenon DEF s6
<1>10. QuietCalls(s6) /\ Len(s6) = 46
  BY <1>9, <1>8, svc_filesQuiet
<1>11. QuietCalls(s7) /\ Len(s7) = Len(s6) + Len(svc_journals)
  BY <1>10, svc_journalsQuiet, QuietCallsConcat, Zenon DEF s7
<1>12. QuietCalls(s7) /\ Len(s7) = 49
  BY <1>11, <1>10, svc_journalsQuiet
<1>13. Before = s7
  BY DEF Before, s7, s6, s5, s4, s3, s2
<1> QED BY <1>12, <1>13

(* Two sequences one after the other, with their lengths.                  *)
Chained(u, s, t) ==
  /\ Len(u) = Len(s) + Len(t)
  /\ \A i \in 1 .. Len(s) : u[i] = s[i]
  /\ \A i \in 1 .. Len(t) : u[Len(s) + i] = t[i]

LEMMA Joined ==
  ASSUME NEW s, NEW t, NEW u, u = s \o t, GoodCalls(s), GoodCalls(t)
  PROVE  GoodCalls(u) /\ Chained(u, s, t)
<1>1. IsSeq(s) /\ IsSeq(t)
  BY DEF GoodCalls
<1>2. /\ Len(s \o t) = Len(s) + Len(t)
      /\ \A i \in 1 .. Len(s) : (s \o t)[i] = s[i]
      /\ \A i \in 1 .. Len(t) : (s \o t)[Len(s) + i] = t[i]
  BY <1>1, SeqConcat
<1>3. GoodCalls(u)
  BY GoodCallsConcat, Zenon
<1> QED BY <1>2, <1>3 DEF Chained

LEMMA ServicesGood ==
  /\ GoodCalls(run_services) /\ Len(run_services) = 51
  /\ \A i \in 1 .. 51 : i # 50 => Tame(run_services[i])
  /\ run_services[50].how # "abort"
<1>1. run_services = Before \o svc_reports
  BY DEF run_services, Before
<1>2. /\ GoodCalls(Before) /\ Len(Before) = 49 /\ \A i \in 1 .. 49 : Tame(Before[i])
      /\ GoodCalls(svc_reports) /\ Len(svc_reports) = 2
  BY BeforeQuiet, svc_reportsGood DEF QuietCalls
<1>3. GoodCalls(run_services) /\ Chained(run_services, Before, svc_reports)
  BY <1>1, <1>2, Joined, Zenon
<1>4. run_services[51] = svc_reports[2] /\ run_services[50] = svc_reports[1]
  <2>1. run_services[49 + 2] = svc_reports[2] /\ run_services[49 + 1] = svc_reports[1]
    BY <1>2, <1>3 DEF Chained
  <2> QED BY <2>1
<1>5. ASSUME NEW i \in 1 .. 51, i # 50 PROVE Tame(run_services[i])
  <2>1. CASE i <= 49
    BY <1>2, <1>3, <2>1 DEF Chained
  <2>2. CASE i = 51
    BY <1>4, <2>2, svc_reportsGood
  <2> QED BY <1>5, <2>1, <2>2
<1> QED BY <1>2, <1>3, <1>4, <1>5, svc_reportsGood DEF Chained

LEMMA FullGood ==
  /\ GoodCalls(run_sequence_full) /\ Len(run_sequence_full) = 80 /\ TriggerPos = 78
  /\ \A i \in 1 .. 80 : i # 78 => Tame(run_sequence_full[i])
  /\ run_sequence_full[78].how # "abort"
<1> DEFINE first == OwnCalls \o run_services
           full == run_sequence_full
<1> HIDE DEF first, full
<1>1. first = OwnCalls \o run_services /\ full = first \o Conclude
  BY DEF run_sequence_full, first, full
<1>2. TriggerPos = 78
  BY OwnCallsQuiet, ServicesGood DEF TriggerPos
<1>3. /\ GoodCalls(OwnCalls) /\ Len(OwnCalls) = 28 /\ \A i \in 1 .. 28 : Tame(OwnCalls[i])
      /\ GoodCalls(run_services) /\ Len(run_services) = 51
      /\ GoodCalls(Conclude) /\ Len(Conclude) = 1 /\ \A i \in 1 .. 1 : Tame(Conclude[i])
  BY OwnCallsQuiet, ServicesGood, ConcludeQuiet DEF QuietCalls
<1>4. GoodCalls(first) /\ Chained(first, OwnCalls, run_services)
  <2>1. /\ first = OwnCalls \o run_services /\ GoodCalls(OwnCalls) /\ GoodCalls(run_services)
    BY <1>1, <1>3
  <2> QED BY <2>1, Joined, Zenon
<1>5. Len(first) = 79
  BY <1>3, <1>4 DEF Chained
<1>6. GoodCalls(full) /\ Chained(full, first, Conclude)
  <2>1. /\ full = first \o Conclude /\ GoodCalls(first) /\ GoodCalls(Conclude)
    BY <1>1, <1>3, <1>4
  <2> QED BY <2>1, Joined, Zenon
<1>7. ASSUME NEW i \in 1 .. 80, i # 78 PROVE Tame(full[i])
  <2>1. CASE i <= 28
    <3>1. full[i] = OwnCalls[i]
      BY <1>3, <1>4, <1>5, <1>6, <2>1 DEF Chained
    <3> QED BY <1>3, <2>1, <3>1
  <2>2. CASE i > 28 /\ i <= 79
    <3>1. i - 28 \in 1 .. 51 /\ 28 + (i - 28) = i /\ i - 28 # 50
      BY <1>7, <2>2
    <3>2. first[28 + (i - 28)] = run_services[i - 28]
      BY <1>3, <1>4, <3>1 DEF Chained
    <3>3. full[i] = run_services[i - 28]
      <4>1. i \in 1 .. Len(first)
        BY <1>5, <2>2
      <4>2. full[i] = first[i]
        BY <1>6, <4>1 DEF Chained
      <4> QED BY <3>1, <3>2, <4>2
    <3> QED BY <3>1, <3>3, ServicesGood
  <2>3. CASE i = 80
    <3>1. full[79 + 1] = Conclude[1]
      BY <1>3, <1>5, <1>6 DEF Chained
    <3> QED BY <1>3, <2>3, <3>1
  <2> QED BY <2>1, <2>2, <2>3
<1>8. GoodCalls(full) /\ Len(full) = 80
  BY <1>3, <1>5, <1>6 DEF Chained
<1>9. full[78].how # "abort"
  <2>1. first[28 + 50] = run_services[50] /\ full[78] = first[78]
    BY <1>3, <1>4, <1>5, <1>6 DEF Chained
  <2> QED BY <2>1, ServicesGood
<1> QED BY <1>2, <1>7, <1>8, <1>9 DEF full

LEMMA ShortGood ==
  /\ GoodCalls(run_sequence_short) /\ Len(run_sequence_short) > 0
  /\ GoodCalls(run_abort) /\ Len(run_abort) > 0
  /\ GoodCalls(run_server_abort) /\ Len(run_server_abort) > 0
<1>1. GoodCalls(<<RawRead("boolean")>>) /\ Len(<<RawRead("boolean")>>) = 1
  BY SeqOne, CallGood DEF GoodCalls, RawRead, Hows
<1>2. GoodCalls(run_sequence_short) /\ Len(run_sequence_short) > 0
  <2>1. GoodCalls(Conclude) /\ Len(Conclude) = 1
    BY ConcludeQuiet DEF QuietCalls
  <2>2. run_sequence_short = <<RawRead("boolean")>> \o Conclude
    BY DEF run_sequence_short
  <2>3. GoodCalls(run_sequence_short)
        /\ Chained(run_sequence_short, <<RawRead("boolean")>>, Conclude)
    BY <1>1, <2>1, <2>2, Joined, Zenon
  <2> QED BY <1>1, <2>1, <2>3 DEF Chained
<1>3. GoodCalls(run_server_abort) /\ Len(run_server_abort) > 0
  BY SeqOne, CallGood DEF GoodCalls, run_server_abort, Hows
<1>4. GoodCalls(run_abort) /\ Len(run_abort) > 0
  <2>1. run_abort \in Seq({run_abort[i] : i \in 1 .. 2}) /\ Len(run_abort) = 2
    BY DEF run_abort
  <2>2. \A i \in 1 .. 2 : GoodCall(run_abort[i])
    BY CallGood, AskGood DEF run_abort, Read, Hows
  <2> QED BY <2>1, <2>2 DEF GoodCalls, IsSeq
<1> QED BY <1>2, <1>3, <1>4

LEMMA ScriptsGood ==
  /\ \A c \in 1 .. 4 : GoodCalls(Scripts[c]) /\ Len(Scripts[c]) \in Nat /\ Len(Scripts[c]) > 0
  /\ Scripts[1] = run_sequence_full
<1>1. /\ Scripts[1] = run_sequence_full /\ Scripts[2] = run_sequence_short
      /\ Scripts[3] = run_abort /\ Scripts[4] = run_server_abort
  BY DEF Scripts
<1>2. ASSUME NEW c \in 1 .. 4 PROVE GoodCalls(Scripts[c]) /\ Len(Scripts[c]) > 0
  <2>1. Len(run_sequence_full) > 0
    BY FullGood
  <2>2. c = 1 \/ c = 2 \/ c = 3 \/ c = 4
    OBVIOUS
  <2> QED BY <1>1, <2>1, <2>2, FullGood, ShortGood, Zenon
<1> QED BY <1>1, <1>2, SeqLen DEF GoodCalls

-----------------------------------------------------------------------------
(* The answers on their way to the client.                                 *)

(* The last answer in s is one to the call q.                              *)
LastRight(s, q) ==
  \A i \in AnswersIn(s) : (\A j \in AnswersIn(s) : j <= i) => RightAnswer(q, s[i].result)

LEMMA TailAnswers ==
  ASSUME NEW s, IsSeq(s), s # << >>
  PROVE  Answers(s) = Answers(Tail(s)) + (IF Head(s).kind = "answer" THEN 1 ELSE 0)
<1>1. IsSeq(Tail(s)) /\ s = <<Head(s)>> \o Tail(s)
  BY SeqTail
<1>2. IsSeq(<<Head(s)>>) /\ Answers(<<Head(s)>>) = IF Head(s).kind = "answer" THEN 1 ELSE 0
  BY SeqOne, AnswersOne
<1>3. Answers(<<Head(s)>> \o Tail(s)) = Answers(<<Head(s)>>) + Answers(Tail(s))
  BY <1>1, <1>2, AnswersConcat, Zenon
<1>4. Answers(Tail(s)) \in Nat
  BY <1>1, AnswersFinite
<1> DEFINE a == Answers(<<Head(s)>>)
           b == Answers(Tail(s))
<1> HIDE DEF a, b
<1>5. Answers(s) = a + b
  BY <1>1, <1>3 DEF a, b
<1>6. a = (IF Head(s).kind = "answer" THEN 1 ELSE 0) /\ b \in Nat
  BY <1>2, <1>4 DEF a, b
<1>7. Answers(s) = b + (IF Head(s).kind = "answer" THEN 1 ELSE 0)
  BY <1>5, <1>6
<1> QED BY <1>7 DEF b

(* Taking the first PDU does not change which answer is the last.          *)
LEMMA TailLast ==
  ASSUME NEW s, NEW q, IsSeq(s), s # << >>, LastRight(s, q)
  PROVE  LastRight(Tail(s), q)
<1> DEFINE t == Tail(s)
<1>1. /\ IsSeq(t) /\ Len(t) = Len(s) - 1 /\ Len(s) \in Nat /\ Len(s) > 0
      /\ \A i \in 1 .. Len(t) : t[i] = s[i + 1]
  BY SeqTail, SeqLen
<1> HIDE DEF t
<1> SUFFICES ASSUME NEW i \in AnswersIn(t), \A j \in AnswersIn(t) : j <= i
             PROVE  RightAnswer(q, t[i].result)
  BY DEF LastRight, t
<1>2. i \in 1 .. Len(t) /\ i + 1 \in 1 .. Len(s) /\ t[i] = s[i + 1]
  BY <1>1 DEF AnswersIn
<1>3. i + 1 \in AnswersIn(s)
  BY <1>2 DEF AnswersIn, IsAnswer
<1>4. ASSUME NEW j \in AnswersIn(s) PROVE j <= i + 1
  <2>1. CASE j = 1
    BY <1>2, <2>1
  <2>2. CASE j # 1
    <3>1. j \in 1 .. Len(s) /\ j - 1 \in 1 .. Len(t) /\ (j - 1) + 1 = j
      BY <1>1, <2>2 DEF AnswersIn
    <3>2. t[j - 1] = s[j]
      BY <1>1, <3>1
    <3>3. j - 1 \in AnswersIn(t)
      BY <3>1, <3>2 DEF AnswersIn, IsAnswer
    <3>4. j - 1 <= i
      BY <3>3
    <3> QED BY <1>2, <3>1, <3>4
  <2> QED BY <2>1, <2>2
<1> QED BY <1>2, <1>3, <1>4 DEF LastRight

(* The answer that comes last is the last.                                 *)
LEMMA EndAnswer ==
  ASSUME NEW s, NEW q, NEW r, IsSeq(s), RightAnswer(q, r)
  PROVE  /\ IsSeq(s \o <<Answer(r)>>) /\ Answers(s \o <<Answer(r)>>) = Answers(s) + 1
         /\ LastRight(s \o <<Answer(r)>>, q)
<1> DEFINE x == Answer(r)
           u == s \o <<x>>
<1>1. x.kind = "answer" /\ x.result = r
  BY DEF Answer
<1>2. IsSeq(<<x>>) /\ Len(<<x>>) = 1 /\ <<x>>[1] = x /\ Answers(<<x>>) = 1
  BY <1>1, SeqOne, AnswersOne
<1> HIDE DEF x
<1>3. Answers(s \o <<x>>) = Answers(s) + Answers(<<x>>)
  BY <1>2, AnswersConcat, Zenon
<1>4. /\ IsSeq(s \o <<x>>) /\ Len(s \o <<x>>) = Len(s) + Len(<<x>>)
      /\ \A i \in 1 .. Len(<<x>>) : (s \o <<x>>)[Len(s) + i] = <<x>>[i]
  BY <1>2, SeqConcat
<1> HIDE DEF u
<1>5. IsSeq(u) /\ Len(u) = Len(s) + 1 /\ u[Len(s) + 1] = x /\ Len(s) \in Nat
  BY <1>2, <1>4, SeqLen DEF u
<1>6. Len(u) \in AnswersIn(u)
  BY <1>1, <1>5 DEF AnswersIn, IsAnswer
<1>7. ASSUME NEW i \in AnswersIn(u), \A j \in AnswersIn(u) : j <= i
      PROVE  RightAnswer(q, u[i].result)
  <2>1. Len(u) <= i /\ i \in 1 .. Len(u)
    BY <1>6, <1>7 DEF AnswersIn
  <2>2. u[i] = x
    BY <1>5, <2>1
  <2> QED BY <1>1, <2>2
<1>8. LastRight(u, q)
  BY <1>7 DEF LastRight
<1> QED BY <1>2, <1>3, <1>5, <1>8 DEF u, x

(* A report is no answer.                                                  *)
LEMMA EndReport ==
  ASSUME NEW s, IsSeq(s)
  PROVE  /\ IsSeq(s \o <<Report>>) /\ Answers(s \o <<Report>>) = Answers(s)
         /\ \A q : LastRight(s, q) => LastRight(s \o <<Report>>, q)
<1> DEFINE x == Report
           u == s \o <<x>>
<1>1. x.kind # "answer"
  BY DEF Report
<1>2. IsSeq(<<x>>) /\ Len(<<x>>) = 1 /\ <<x>>[1] = x /\ Answers(<<x>>) = 0
  BY <1>1, SeqOne, AnswersOne
<1> HIDE DEF x
<1>3. Answers(s \o <<x>>) = Answers(s) + Answers(<<x>>) /\ Answers(s) \in Nat
  BY <1>2, AnswersConcat, AnswersFinite, Zenon
<1>4. /\ IsSeq(s \o <<x>>) /\ Len(s \o <<x>>) = Len(s) + Len(<<x>>)
      /\ \A i \in 1 .. Len(s) : (s \o <<x>>)[i] = s[i]
      /\ \A i \in 1 .. Len(<<x>>) : (s \o <<x>>)[Len(s) + i] = <<x>>[i]
  BY <1>2, SeqConcat
<1> HIDE DEF u
<1>5. /\ IsSeq(u) /\ Len(u) = Len(s) + 1 /\ u[Len(s) + 1] = x /\ Len(s) \in Nat
      /\ \A i \in 1 .. Len(s) : u[i] = s[i]
  BY <1>2, <1>4, SeqLen DEF u
<1>6. AnswersIn(u) = AnswersIn(s)
  BY <1>1, <1>5 DEF AnswersIn, IsAnswer
<1>7. ASSUME NEW q, LastRight(s, q) PROVE LastRight(u, q)
  BY <1>5, <1>6, <1>7 DEF LastRight, AnswersIn
<1>8. Answers(u) = Answers(s)
  BY <1>6 DEF Answers
<1> QED BY <1>5, <1>7, <1>8 DEF u, x

LEMMA SeqAssoc ==
  ASSUME NEW s, NEW t, NEW u, IsSeq(s), IsSeq(t), IsSeq(u)
  PROVE  s \o (t \o u) = (s \o t) \o u
<1>1. PICK S, T, U : s \in Seq(S) /\ t \in Seq(T) /\ u \in Seq(U)
  BY DEF IsSeq
<1>2. s \in Seq(S \cup T \cup U) /\ t \in Seq(S \cup T \cup U) /\ u \in Seq(S \cup T \cup U)
  BY <1>1
<1> QED BY <1>2, ConcatAssociative

(* The reports of a fixture are finitely many.                             *)
ReportsInv ==
  /\ root \in DOMAIN Fixtures
  /\ spc \in {"files", "serve"} => IsFiniteSet(DOMAIN fix.reports)

LEMMA ReportsStep ==
  ASSUME ReportsInv, [MmsNext]_mmsVars
  PROVE  ReportsInv'
<1>1. CASE UNCHANGED server
  BY <1>1 DEF ReportsInv, server
<1>2. CASE Load
  <2>1. fix' # Null => DOMAIN fix'.reports = DOMAIN Fixtures[root].reports
    BY <1>2 DEF Load, fixture_load
  <2>2. IsFiniteSet(DOMAIN Fixtures[root].reports)
    BY ServerAssumption DEF ReportsInv
  <2> QED BY <1>2, <2>1, <2>2 DEF Load, ReportsInv
<1>3. CASE Populate \/ Serve \/ Cleanup
  BY <1>3 DEF ReportsInv, Populate, Serve, Cleanup
<1>4. CASE Start \/ StartFails \/ OtherWrite \/ Stop \/ Killed
  BY <1>4 DEF ReportsInv, Start, StartFails, OtherWrite, Stop, Killed
<1> QED BY <1>1, <1>2, <1>3, <1>4, ServerSteps DEF Server, Environment

LEMMA ReportsAnswerNothing ==
  ASSUME NEW n, ReportsInv, spc = "serve"
  PROVE  IsSeq(send_reports(n)) /\ Answers(send_reports(n)) = 0
<1>1. CASE n # "report-trigger"
  BY <1>1, SeqEmpty DEF send_reports
<1>2. CASE n = "report-trigger"
  <2> DEFINE K == {i \in DOMAIN fix.reports : fix.reports[i].vmd_list}
             k == Cardinality(K)
             s == [i \in 1 .. k |-> Report]
  <2>1. send_reports(n) = s
    BY <1>2 DEF send_reports
  <2>2. IsFiniteSet(K)
    BY FS_Subset DEF ReportsInv
  <2>3. k \in Nat
    BY <2>2, FS_CardinalityType
  <2> HIDE DEF k, K
  <2>4. s \in Seq({Report}) /\ Len(s) = k
    BY <2>3
  <2>5. AnswersIn(s) = {}
    BY <2>3, <2>4 DEF AnswersIn, IsAnswer, Report
  <2> HIDE DEF s
  <2> QED BY <2>1, <2>4, <2>5, FS_EmptySet DEF IsSeq, Answers
<1> QED BY <1>1, <1>2

(* The PDUs of a request end with its answer.                              *)
LEMMA PdusRight ==
  ASSUME NEW q, NEW s, IsSeq(s), GoodRequest(q), ReportsInv, spc = "serve"
  PROVE  /\ IsSeq(s \o Pdus(q)) /\ Answers(s \o Pdus(q)) = Answers(s) + 1
         /\ LastRight(s \o Pdus(q), q)
<1> DEFINE pre == IF q.how = "write" /\ Served(AnswerTo(q)) THEN send_reports(q.on) ELSE << >>
           r == AnswerTo(q)
           x == <<Answer(r)>>
           t == s \o pre
<1>1. Pdus(q) = pre \o x
  BY DEF Pdus
<1>2. IsSeq(pre) /\ Answers(pre) = 0
  BY ReportsAnswerNothing, SeqEmpty
<1>3. IsSeq(x) /\ RightAnswer(q, r)
  BY SeqOne, AnswerRight
<1> HIDE DEF pre, r, x
<1>4. s \o (pre \o x) = (s \o pre) \o x
  <2>1. IsSeq(s) /\ IsSeq(pre) /\ IsSeq(x)
    BY <1>2, <1>3
  <2> QED BY <2>1, SeqAssoc
<1>5. IsSeq(s \o pre) /\ Answers(s \o pre) = Answers(s) + Answers(pre) /\ Answers(s) \in Nat
  <2>1. IsSeq(s \o pre)
    BY <1>2, SeqConcat, Zenon
  <2>2. Answers(s \o pre) = Answers(s) + Answers(pre) /\ Answers(s) \in Nat
    BY <1>2, AnswersConcat, AnswersFinite, Zenon
  <2> QED BY <2>1, <2>2
<1> HIDE DEF t
<1>6. IsSeq(t) /\ Answers(t) = Answers(s)
  BY <1>2, <1>5 DEF t
<1>7. IsSeq(t \o x) /\ Answers(t \o x) = Answers(t) + 1 /\ LastRight(t \o x, q)
  BY <1>3, <1>6, EndAnswer, Zenon DEF x
<1>8. s \o Pdus(q) = t \o x
  BY <1>1, <1>4 DEF t
<1> HIDE DEF t
<1> QED BY <1>6, <1>7, <1>8

-----------------------------------------------------------------------------
(* The client: which answer belongs to which call.                         *)

LinkInv ==
  /\ IsSeq(inbox) /\ IsSeq(requests) /\ stale \in Nat
  /\ link # "up" => inbox = << >> /\ requests = << >>
  /\ main = "connect" => link # "up" /\ stale = 0

(* Every request under way is one that the client waits for, or has given  *)
(* up.                                                                     *)
CountInv ==
  link = "up" => Answers(inbox) + Len(requests) = stale + (IF main = "wait" THEN 1 ELSE 0)

(* The last of them is the call being made.                                *)
MatchInv ==
  main = "wait" /\ link = "up" =>
    /\ requests # << >> => requests[Len(requests)] = cur
    /\ requests = << >> => LastRight(inbox, cur)

CallInv ==
  /\ conn \in 1 .. 4 /\ pos \in Nat \ {0}
  /\ main \in {"call", "wait", "print"} => GoodCall(cur)
  /\ main = "wait" => cur.how # "abort"
  /\ \A i \in 1 .. Len(requests) : GoodRequest(requests[i])

PrintInv == main = "print" => RightAnswer(cur, resp)

LostInv == lost /\ main \notin {"connect", "exit"} => link = "lost"

TellInv ==
  LinkInv /\ CountInv /\ MatchInv /\ CallInv /\ PrintInv /\ LostInv /\ CheckedLinesTell

(* The variables these are about.                                          *)
callVars == <<main, conn, pos, cur, resp, lost, stale, line>>

LEMMA TellQuiet ==
  ASSUME TellInv, UNCHANGED <<association, callVars>>
  PROVE  TellInv'
<1>1. LinkInv' /\ CountInv' /\ MatchInv'
  BY DEF TellInv, LinkInv, CountInv, MatchInv, association, callVars
<1>2. CallInv' /\ PrintInv' /\ LostInv'
  BY DEF TellInv, CallInv, PrintInv, LostInv, association, callVars
<1>3. CheckedLinesTell'
  BY DEF TellInv, CheckedLinesTell, LineTells, association, callVars
<1> QED BY <1>1, <1>2, <1>3 DEF TellInv

LEMMA TellLoss ==
  ASSUME TellInv, Loss, UNCHANGED callVars
  PROVE  TellInv'
<1>1. link' # "up" /\ requests' = << >> /\ inbox' = << >> /\ (link = "lost" => link' = "lost")
      /\ (link # "up" => link' = link)
  BY DEF Loss
<1>2. LinkInv' /\ CountInv' /\ MatchInv'
  BY <1>1, SeqEmpty DEF TellInv, LinkInv, CountInv, MatchInv, callVars
<1>3. CallInv' /\ PrintInv' /\ LostInv'
  <2>1. Len(requests') = 0
    BY <1>1
  <2> QED BY <1>1, <2>1 DEF TellInv, CallInv, PrintInv, LostInv, callVars
<1>4. CheckedLinesTell'
  BY DEF TellInv, CheckedLinesTell, LineTells, callVars
<1> QED BY <1>2, <1>3, <1>4 DEF TellInv

(* A server has answered the first request.                                *)
AnswerTaken ==
  /\ link = "up" /\ link' = link /\ requests # << >> /\ requests' = Tail(requests)
  /\ IsSeq(inbox') /\ Answers(inbox') = Answers(inbox) + 1
  /\ LastRight(inbox', Head(requests))
  /\ UNCHANGED callVars

LEMMA TellAnswered ==
  ASSUME TellInv, AnswerTaken
  PROVE  TellInv'
<1> DEFINE t == Tail(requests)
<1>1. /\ IsSeq(requests) /\ Len(requests) \in Nat /\ Len(requests) > 0 /\ IsSeq(t)
      /\ Len(t) = Len(requests) - 1 /\ requests[1] = Head(requests)
      /\ \A i \in 1 .. Len(t) : t[i] = requests[i + 1]
  BY SeqTail, SeqLen DEF AnswerTaken, TellInv, LinkInv
<1>3. requests' = t
  BY DEF AnswerTaken
<1> HIDE DEF t
<1>2. t = << >> <=> Len(t) = 0
  BY <1>1, SeqNil
<1>4. LinkInv'
  BY <1>1, <1>3 DEF TellInv, LinkInv, AnswerTaken, callVars
<1>5. CountInv'
  <2>1. Answers(inbox) \in Nat
    BY AnswersFinite DEF TellInv, LinkInv
  <2> DEFINE a == Answers(inbox)
             n == Len(requests)
             w == IF main = "wait" THEN 1 ELSE 0
  <2>2. a + n = stale + w /\ w \in Nat /\ stale \in Nat /\ n \in Nat /\ a \in Nat
    BY <1>1, <2>1 DEF TellInv, CountInv, LinkInv, AnswerTaken
  <2>3. Answers(inbox') = a + 1 /\ Len(requests') = n - 1
    BY <1>1, <1>3 DEF AnswerTaken
  <2> HIDE DEF a, n, w
  <2>4. Answers(inbox') + Len(requests') = stale + w
    BY <2>2, <2>3
  <2> QED BY <2>4 DEF CountInv, AnswerTaken, callVars, w
<1>6. MatchInv'
  <2> SUFFICES ASSUME main = "wait"
               PROVE  /\ t # << >> => t[Len(t)] = cur
                      /\ t = << >> => LastRight(inbox', cur)
    BY <1>3 DEF MatchInv, AnswerTaken, callVars
  <2>1. requests[Len(requests)] = cur
    BY DEF TellInv, MatchInv, AnswerTaken
  <2>2. CASE t # << >>
    <3>1. Len(t) \in 1 .. Len(t) /\ Len(t) + 1 = Len(requests)
      BY <1>1, <1>2, <2>2
    <3>2. t[Len(t)] = requests[Len(t) + 1]
      BY <1>1, <3>1
    <3> QED BY <2>1, <2>2, <3>1, <3>2
  <2>3. CASE t = << >>
    <3>1. Len(requests) = 1
      BY <1>1, <1>2, <2>3
    <3>2. Head(requests) = cur
      BY <1>1, <2>1, <3>1
    <3> QED BY <2>3, <3>2 DEF AnswerTaken
  <2> QED BY <2>2, <2>3
<1>7. CallInv'
  <2>1. \A i \in 1 .. Len(t) : GoodRequest(t[i])
    BY <1>1 DEF TellInv, CallInv
  <2> QED BY <1>3, <2>1 DEF TellInv, CallInv, AnswerTaken, callVars
<1>8. PrintInv' /\ LostInv' /\ CheckedLinesTell'
  BY DEF TellInv, PrintInv, LostInv, CheckedLinesTell, LineTells, AnswerTaken, callVars
<1> QED BY <1>4, <1>5, <1>6, <1>7, <1>8 DEF TellInv

(* A server has sent a report.                                             *)
LEMMA TellReport ==
  ASSUME TellInv, AnyReport
  PROVE  TellInv'
<1>1. /\ link = "up" /\ link' = link /\ requests' = requests /\ inbox' = Append(inbox, Report)
      /\ UNCHANGED callVars
  BY DEF AnyReport, client, history, callVars
<1>2. IsSeq(inbox) /\ inbox' = inbox \o <<Report>>
  BY <1>1, SeqAppend DEF TellInv, LinkInv
<1>3. /\ IsSeq(inbox') /\ Answers(inbox') = Answers(inbox)
      /\ \A q : LastRight(inbox, q) => LastRight(inbox', q)
  BY <1>2, EndReport
<1>4. LinkInv' /\ CountInv' /\ MatchInv'
  BY <1>1, <1>3 DEF TellInv, LinkInv, CountInv, MatchInv, callVars
<1>5. CallInv' /\ PrintInv' /\ LostInv' /\ CheckedLinesTell'
  BY <1>1 DEF TellInv, CallInv, PrintInv, LostInv, CheckedLinesTell, LineTells, callVars
<1> QED BY <1>4, <1>5 DEF TellInv

LEMMA TellConnect ==
  ASSUME TellInv, NEW up, Connect(up)
  PROVE  TellInv'
<1>1. /\ main = "connect" /\ link # "up" /\ stale = 0 /\ inbox = << >> /\ requests = << >>
      /\ inbox' = inbox /\ requests' = requests /\ stale' = stale /\ pos' = pos /\ resp' = resp
      /\ line' = line /\ lost' = FALSE /\ conn \in 1 .. 4
  BY DEF TellInv, LinkInv, CallInv, Connect, history
<1>2. CASE up
  <2>1. link' = "up" /\ main' = "call" /\ cur' = Scripts[conn][1] /\ conn' = conn
    BY <1>2 DEF Connect
  <2>2. LinkInv' /\ MatchInv' /\ PrintInv' /\ LostInv'
    BY <1>1, <2>1, SeqEmpty DEF TellInv, LinkInv, MatchInv, PrintInv, LostInv
  <2>3. CountInv'
    <3>1. Answers(inbox') = 0 /\ Len(requests') = 0
      BY <1>1, SeqEmpty
    <3> QED BY <1>1, <2>1, <3>1 DEF CountInv
  <2>4. CallInv'
    <3>1. GoodCall(Scripts[conn][1])
      BY <1>1, ScriptsGood DEF GoodCalls
    <3> QED BY <1>1, <2>1, <3>1 DEF TellInv, CallInv
  <2>5. CheckedLinesTell'
    BY <1>1 DEF TellInv, CheckedLinesTell, LineTells
  <2> QED BY <2>2, <2>3, <2>4, <2>5 DEF TellInv
<1>3. CASE ~up
  <2>1. link' = link /\ cur' = cur /\ main' \in {"connect", "exit"} /\ conn' \in 1 .. 4
    BY <1>1, <1>3 DEF Connect
  <2>2. LinkInv' /\ CountInv' /\ MatchInv' /\ PrintInv' /\ LostInv'
    BY <1>1, <2>1 DEF TellInv, LinkInv, CountInv, MatchInv, PrintInv, LostInv
  <2>3. CallInv'
    BY <1>1, <2>1 DEF TellInv, CallInv
  <2>4. CheckedLinesTell'
    BY <1>1 DEF TellInv, CheckedLinesTell, LineTells
  <2> QED BY <2>2, <2>3, <2>4 DEF TellInv
<1> QED BY <1>2, <1>3

LEMMA TellSend ==
  ASSUME TellInv, Send
  PROVE  TellInv'
<1>1. /\ main = "call" /\ link' = link /\ inbox' = inbox /\ conn' = conn /\ pos' = pos /\ cur' = cur
      /\ lost' = lost /\ stale' = stale /\ line' = line /\ GoodCall(cur)
  BY DEF TellInv, CallInv, Send, history
<1>2. CheckedLinesTell'
  BY <1>1 DEF TellInv, CheckedLinesTell, LineTells
<1>3. CASE link = "up" /\ cur.how # "abort"
  <2>1. requests' = Append(requests, cur) /\ main' = "wait" /\ resp' = resp
    BY <1>3 DEF Send
  <2> DEFINE c == cur
             n == Len(requests)
  <2>2. IsSeq(requests) /\ n \in Nat /\ requests' = requests \o <<c>>
    BY <2>1, SeqAppend, SeqLen DEF TellInv, LinkInv
  <2>3. /\ IsSeq(requests') /\ Len(requests') = n + 1 /\ requests'[n + 1] = c
        /\ \A i \in 1 .. n : requests'[i] = requests[i]
    <3> HIDE DEF c
    <3>1. IsSeq(<<c>>) /\ Len(<<c>>) = 1 /\ <<c>>[1] = c
      BY SeqOne
    <3>2. /\ IsSeq(requests \o <<c>>) /\ Len(requests \o <<c>>) = n + Len(<<c>>)
          /\ \A i \in 1 .. n : (requests \o <<c>>)[i] = requests[i]
          /\ \A i \in 1 .. Len(<<c>>) : (requests \o <<c>>)[n + i] = <<c>>[i]
      BY <2>2, <3>1, SeqConcat
    <3> QED BY <2>2, <3>1, <3>2
  <2>4. LinkInv' /\ PrintInv' /\ LostInv'
    BY <1>1, <1>3, <2>1, <2>3 DEF TellInv, LinkInv, PrintInv, LostInv
  <2>5. CountInv'
    <3> DEFINE a == Answers(inbox)
    <3>1. a + n = stale /\ a \in Nat /\ stale \in Nat
      BY <1>1, <1>3, AnswersFinite DEF TellInv, CountInv, LinkInv
    <3> HIDE DEF a, n
    <3>2. a + (n + 1) = stale + 1
      BY <2>2, <3>1
    <3> QED BY <1>1, <2>1, <2>3, <3>2 DEF CountInv, a
  <2>6. MatchInv'
    <3>1. requests' # << >>
      BY <2>2, <2>3, SeqNil
    <3>2. requests'[Len(requests')] = cur
      BY <2>3
    <3> QED BY <1>1, <3>1, <3>2 DEF MatchInv
  <2>7. CallInv'
    <3>1. ASSUME NEW i \in 1 .. Len(requests') PROVE GoodRequest(requests'[i])
      <4>1. CASE i = n + 1
        BY <1>1, <1>3, <2>3, <4>1 DEF GoodRequest
      <4>2. CASE i # n + 1
        BY <2>2, <2>3, <4>2 DEF TellInv, CallInv
      <4> QED BY <4>1, <4>2
    <3> QED BY <1>1, <1>3, <3>1 DEF TellInv, CallInv
  <2> QED BY <1>2, <2>4, <2>5, <2>6, <2>7 DEF TellInv
<1>4. CASE ~(link = "up" /\ cur.how # "abort")
  <2>1. /\ requests' = requests /\ main' = "print"
        /\ resp' = IF link = "up" THEN Done(<<Success>>, << >>) ELSE Refused("connection-lost")
    BY <1>4 DEF Send
  <2>2. RightAnswer(cur, resp')
    BY <2>1, DoneRight, RefusedRight
  <2>3. LinkInv' /\ CountInv' /\ MatchInv' /\ PrintInv' /\ LostInv'
    BY <1>1, <2>1, <2>2 DEF TellInv, LinkInv, CountInv, MatchInv, PrintInv, LostInv
  <2>4. CallInv'
    BY <1>1, <2>1 DEF TellInv, CallInv
  <2> QED BY <1>2, <2>3, <2>4 DEF TellInv
<1> QED BY <1>3, <1>4

(* The answer taken is the one to the call being made.                     *)
LEMMA TellReceive ==
  ASSUME TellInv, Receive
  PROVE  TellInv'
<1>1. /\ inbox # << >> /\ Head(inbox).kind = "answer" /\ stale = 0 /\ main = "wait" /\ main' = "print"
      /\ resp' = Head(inbox).result /\ inbox' = Tail(inbox) /\ link' = link /\ requests' = requests
      /\ conn' = conn /\ pos' = pos /\ cur' = cur /\ lost' = lost /\ stale' = stale /\ line' = line
  BY DEF Receive, history
<1>2. /\ IsSeq(inbox) /\ IsSeq(requests) /\ Len(requests) \in Nat /\ link = "up" /\ GoodCall(cur)
  BY <1>1, SeqLen DEF TellInv, LinkInv, CallInv
<1> DEFINE a == Answers(inbox)
           b == Answers(Tail(inbox))
           n == Len(requests)
<1>3. IsSeq(Tail(inbox)) /\ a = b + 1 /\ b \in Nat /\ n \in Nat /\ a + n = 1
  <2>1. IsSeq(Tail(inbox)) /\ a = b + 1
    BY <1>1, <1>2, SeqTail, TailAnswers
  <2>2. b \in Nat
    BY <2>1, AnswersFinite
  <2>3. a + n = 0 + 1
    BY <1>1, <1>2 DEF TellInv, CountInv
  <2> QED BY <1>2, <2>1, <2>2, <2>3
<1> HIDE DEF a, b, n
<1>4. b = 0 /\ n = 0
  BY <1>3
<1>5. requests = << >> /\ AnswersIn(Tail(inbox)) = {}
  BY <1>2, <1>3, <1>4, SeqNil, AnswersFinite DEF b, n
<1>6. RightAnswer(cur, Head(inbox).result)
  <2>1. LastRight(inbox, cur)
    BY <1>1, <1>2, <1>5 DEF TellInv, MatchInv
  <2>2. /\ Len(inbox) \in Nat /\ Len(inbox) > 0 /\ inbox[1] = Head(inbox)
        /\ Len(Tail(inbox)) = Len(inbox) - 1
        /\ \A i \in 1 .. Len(Tail(inbox)) : Tail(inbox)[i] = inbox[i + 1]
    BY <1>1, <1>2, SeqTail, SeqLen
  <2>3. 1 \in AnswersIn(inbox)
    BY <1>1, <2>2 DEF AnswersIn, IsAnswer
  <2>4. ASSUME NEW j \in AnswersIn(inbox) PROVE j <= 1
    <3>1. j \in 1 .. Len(inbox) /\ IsAnswer(inbox, j)
      BY DEF AnswersIn
    <3>2. SUFFICES ASSUME j # 1 PROVE FALSE
      BY <3>1
    <3>3. j - 1 \in 1 .. Len(Tail(inbox)) /\ (j - 1) + 1 = j
      BY <2>2, <3>1, <3>2
    <3>4. Tail(inbox)[j - 1] = inbox[j]
      BY <2>2, <3>3
    <3>5. j - 1 \in AnswersIn(Tail(inbox))
      BY <3>1, <3>3, <3>4 DEF AnswersIn, IsAnswer
    <3> QED BY <1>5, <3>5
  <2> QED BY <2>1, <2>2, <2>3, <2>4 DEF LastRight
<1>7. LinkInv' /\ MatchInv' /\ PrintInv' /\ LostInv'
  BY <1>1, <1>2, <1>3, <1>6 DEF TellInv, LinkInv, MatchInv, PrintInv, LostInv
<1>8. CountInv'
  BY <1>1, <1>4 DEF CountInv, b, n
<1>9. CallInv'
  BY <1>1 DEF TellInv, CallInv
<1>10. CheckedLinesTell'
  BY <1>1 DEF TellInv, CheckedLinesTell, LineTells
<1> QED BY <1>7, <1>8, <1>9, <1>10 DEF TellInv

(* Dropping a late answer, or taking a report.                             *)
LEMMA TellTake ==
  ASSUME TellInv, Drop \/ ReportBegin
  PROVE  TellInv'
<1>1. /\ inbox # << >> /\ inbox' = Tail(inbox) /\ link' = link /\ requests' = requests
      /\ main' = main /\ conn' = conn /\ pos' = pos /\ cur' = cur /\ resp' = resp /\ lost' = lost
      /\ line' = line
      /\ \/ Head(inbox).kind = "answer" /\ stale > 0 /\ stale' = stale - 1
         \/ Head(inbox).kind = "report" /\ stale' = stale
  BY DEF Drop, ReportBegin, history
<1>2. IsSeq(inbox) /\ link = "up" /\ stale \in Nat /\ Len(requests) \in Nat /\ main # "connect"
  BY <1>1, SeqLen DEF TellInv, LinkInv
<1> DEFINE a == Answers(inbox)
           b == Answers(Tail(inbox))
           n == Len(requests)
           w == IF main = "wait" THEN 1 ELSE 0
<1>3. IsSeq(Tail(inbox)) /\ a = b + (IF Head(inbox).kind = "answer" THEN 1 ELSE 0) /\ b \in Nat
  BY <1>1, <1>2, SeqTail, TailAnswers, AnswersFinite
<1>4. \A q : LastRight(inbox, q) => LastRight(Tail(inbox), q)
  BY <1>1, <1>2, TailLast
<1>5. a + n = stale + w /\ w \in Nat
  BY <1>2 DEF TellInv, CountInv
<1> HIDE DEF a, b, n, w
<1>6. b + n = stale' + w /\ stale' \in Nat
  BY <1>1, <1>2, <1>3, <1>5 DEF n
<1>7. LinkInv'
  BY <1>1, <1>2, <1>3, <1>6 DEF TellInv, LinkInv
<1>8. CountInv'
  BY <1>1, <1>6 DEF CountInv, b, n, w
<1>9. MatchInv'
  BY <1>1, <1>4 DEF TellInv, MatchInv
<1>10. CallInv' /\ PrintInv' /\ LostInv' /\ CheckedLinesTell'
  BY <1>1 DEF TellInv, CallInv, PrintInv, LostInv, CheckedLinesTell, LineTells
<1> QED BY <1>7, <1>8, <1>9, <1>10 DEF TellInv

LEMMA TellGiveUp ==
  ASSUME TellInv, CallLost \/ Timeout
  PROVE  TellInv'
<1>1. /\ main = "wait" /\ main' = "print" /\ resp' = Refused("service-timeout")
      /\ link' = link /\ requests' = requests /\ inbox' = inbox /\ conn' = conn /\ pos' = pos
      /\ cur' = cur /\ lost' = lost /\ line' = line
      /\ \/ link = "lost" /\ stale' = stale
         \/ link = "up" /\ stale' = stale + 1
  BY DEF CallLost, Timeout, association, history
<1>2. RightAnswer(cur, resp')
  BY <1>1, RefusedRight
<1>3. LinkInv' /\ MatchInv' /\ PrintInv' /\ LostInv'
  BY <1>1, <1>2 DEF TellInv, LinkInv, MatchInv, PrintInv, LostInv
<1>4. CountInv'
  <2> DEFINE a == Answers(inbox) + Len(requests)
  <2>1. link = "up" => a = stale + 1
    BY <1>1 DEF TellInv, CountInv
  <2>2. a = Answers(inbox') + Len(requests') /\ stale \in Nat
    BY <1>1 DEF TellInv, LinkInv
  <2> HIDE DEF a
  <2>3. link' = "up" => a = stale' + 0
    BY <1>1, <2>1, <2>2
  <2> QED BY <1>1, <2>2, <2>3 DEF CountInv
<1>5. CallInv'
  BY <1>1 DEF TellInv, CallInv
<1>6. CheckedLinesTell'
  BY <1>1 DEF TellInv, CheckedLinesTell, LineTells
<1> QED BY <1>3, <1>4, <1>5, <1>6 DEF TellInv

LEMMA TellConnectionLost ==
  ASSUME TellInv, ConnectionLost
  PROVE  TellInv'
<1>1. /\ link = "lost" /\ UNCHANGED <<link, requests, inbox, main, conn, pos, cur, resp, stale, line>>
  BY DEF ConnectionLost, association, history
<1>2. LinkInv' /\ CountInv' /\ MatchInv' /\ PrintInv' /\ LostInv'
  BY <1>1 DEF TellInv, LinkInv, CountInv, MatchInv, PrintInv, LostInv
<1>3. CallInv' /\ CheckedLinesTell'
  BY <1>1 DEF TellInv, CallInv, CheckedLinesTell, LineTells
<1> QED BY <1>2, <1>3 DEF TellInv

(* The main thread goes on with another call, or closes.                   *)
GoesTo(c) ==
  /\ main \in {"print", "quiet"} /\ main' \in {"call", "quiet", "close"} /\ pos' \in Nat \ {0}
  /\ cur' = c /\ (main' = "call" => GoodCall(c))
  /\ UNCHANGED <<association, conn, resp, lost, stale>>

LEMMA TellGoesTo ==
  ASSUME TellInv, NEW c, GoesTo(c), CheckedLinesTell'
  PROVE  TellInv'
<1>1. LinkInv' /\ MatchInv' /\ PrintInv' /\ LostInv'
  BY DEF TellInv, LinkInv, MatchInv, PrintInv, LostInv, GoesTo, association
<1>2. CountInv'
  BY DEF TellInv, CountInv, GoesTo, association
<1>3. CallInv'
  BY DEF TellInv, CallInv, GoesTo, association
<1> QED BY <1>1, <1>2, <1>3 DEF TellInv

LEMMA NextGoes ==
  ASSUME TellInv, Next1, main \in {"print", "quiet"}, UNCHANGED <<association, conn, resp, lost, stale>>
  PROVE  GoesTo(cur')
<1>1. conn \in 1 .. 4 /\ pos \in Nat \ {0}
  BY DEF TellInv, CallInv
<1>2. GoodCalls(Scripts[conn]) /\ Len(Scripts[conn]) \in Nat
  BY <1>1, ScriptsGood
<1> DEFINE n == Len(Scripts[conn])
<1>3. CASE pos < n
  <2>1. pos' = pos + 1 /\ cur' = Scripts[conn][pos + 1] /\ main' = "call" /\ pos + 1 \in 1 .. n
    BY <1>1, <1>2, <1>3 DEF Next1
  <2>2. GoodCall(cur')
    BY <1>2, <2>1 DEF GoodCalls
  <2> QED BY <1>1, <2>1, <2>2 DEF GoesTo
<1>4. CASE ~(pos < n)
  BY <1>1, <1>4 DEF Next1, GoesTo
<1> QED BY <1>3, <1>4

LEMMA TellContinue ==
  ASSUME TellInv, Continue
  PROVE  TellInv'
<1>1. /\ main = "print" /\ main' = "call" /\ GoodCall(cur) /\ pos \in Nat \ {0} /\ pos' = pos
      /\ UNCHANGED <<association, conn, resp, lost, stale, line>> /\ GoesOn
  BY DEF TellInv, CallInv, Continue, history
<1>2. cur.how \in {"directory", "open", "file"}
  BY <1>1 DEF GoesOn
<1>3. GoodCall(cur')
  <2>1. \/ \E x : cur' = [cur EXCEPT !.on = x]
        \/ cur.how = "open" /\ cur' = [cur EXCEPT !.how = "file"]
        \/ \E x : cur' = [cur EXCEPT !.at = x]
    <3>1. CASE cur.how = "directory"
      BY <3>1 DEF Continue
    <3>2. CASE cur.how = "open"
      BY <3>2 DEF Continue
    <3>3. CASE cur.how = "file"
      <4>1. cur' = [cur EXCEPT !.at = <<@[1] + Len(resp.data)>>]
        BY <3>3 DEF Continue
      <4>2. cur' = [cur EXCEPT !.at = <<cur.at[1] + Len(resp.data)>>]
        BY <1>1, <4>1 DEF GoodCall, Call
      <4> QED BY <4>2
    <3> QED BY <1>2, <3>1, <3>2, <3>3
  <2>2. ASSUME NEW x, cur' = [cur EXCEPT !.on = x] PROVE GoodCall(cur')
    BY <1>1, <2>2 DEF GoodCall, Call
  <2>3. ASSUME cur.how = "open", cur' = [cur EXCEPT !.how = "file"] PROVE GoodCall(cur')
    BY <1>1, <2>3 DEF GoodCall, Call, Hows
  <2>4. ASSUME NEW x, cur' = [cur EXCEPT !.at = x] PROVE GoodCall(cur')
    BY <1>1, <2>4 DEF GoodCall, Call
  <2> QED BY <2>1, <2>2, <2>3, <2>4
<1>4. GoesTo(cur')
  BY <1>1, <1>3 DEF GoesTo
<1>5. CheckedLinesTell'
  BY <1>1 DEF TellInv, CheckedLinesTell, LineTells
<1> QED BY <1>4, <1>5, TellGoesTo

(* The rules for the lines say what the answer was.                        *)
LEMMA LineRight ==
  ASSUME NEW q, NEW r, NEW gone, GoodCall(q), RightAnswer(q, r), q.say \notin {"raw", "lost"},
         q.how \notin {"read-multiple", "read-list"}
  PROVE  LineOk(q.say, r, gone) <=> Served(r)
<1>1. CASE q.say = "plain"
  BY <1>1 DEF LineOk, RightAnswer, Served
<1>2. CASE q.say \in {"checked", "write"}
  BY <1>2 DEF LineOk, RightAnswer, Served
<1>3. CASE q.say \in {"items", "partial"}
  BY <1>3 DEF LineOk, Failing, Served
<1> QED BY <1>1, <1>2, <1>3 DEF GoodCall

LEMMA TellPrint ==
  ASSUME TellInv, PrintLine
  PROVE  TellInv'
<1>1. /\ main = "print" /\ GoodCall(cur) /\ RightAnswer(cur, resp) /\ pos \in Nat \ {0}
      /\ UNCHANGED <<association, conn, resp, lost, stale>>
      /\ line' = [call |-> cur, ok |-> LineOk(cur.say, resp, lost), resp |-> resp,
                  got |-> Collected, link |-> link]
  BY DEF TellInv, CallInv, PrintInv, PrintLine
<1>2. /\ line'.call = cur /\ line'.ok = LineOk(cur.say, resp, lost) /\ line'.resp = resp
      /\ line'.link = link
  BY <1>1
<1>3. CheckedLinesTell'
  <2>1. CASE cur.say = "lost"
    <3>1. line'.ok => lost
      BY <1>2, <2>1 DEF LineOk
    <3>2. lost => link = "lost"
      BY <1>1 DEF TellInv, LostInv
    <3> QED BY <1>2, <2>1, <3>1, <3>2 DEF CheckedLinesTell, LineTells
  <2>2. CASE cur.say = "raw" \/ cur.how \in {"read-multiple", "read-list"}
    BY <1>2, <2>2 DEF CheckedLinesTell
  <2>3. CASE ~(cur.say = "lost") /\ ~(cur.say = "raw" \/ cur.how \in {"read-multiple", "read-list"})
    <3>1. line'.ok <=> Served(line'.resp)
      BY <1>1, <1>2, <2>3, LineRight
    <3>2. cur.how # "none"
      BY <1>1 DEF GoodCall, Hows
    <3> QED BY <1>2, <2>3, <3>1, <3>2 DEF CheckedLinesTell, LineTells
  <2> QED BY <2>1, <2>2, <2>3
<1>4. GoesTo(cur')
  <2>1. CASE cur.how = "file"
    <3>1. cur' = [cur EXCEPT !.how = "close"] /\ main' = "call" /\ pos' = pos
      BY <2>1 DEF PrintLine, IsTrigger
    <3>2. GoodCall(cur')
      BY <1>1, <2>1, <3>1 DEF GoodCall, Call, Hows
    <3> QED BY <1>1, <3>1, <3>2 DEF GoesTo
  <2>2. CASE cur.how # "file" /\ IsTrigger
    <3>1. main' = "quiet" /\ pos' = pos
      BY <2>2, Zenon DEF PrintLine
    <3> QED BY <1>1, <3>1 DEF GoesTo
  <2>3. CASE cur.how # "file" /\ ~IsTrigger
    <3>1. Next1
      BY <2>3, Zenon DEF PrintLine
    <3> QED BY <1>1, <3>1, NextGoes
  <2> QED BY <2>1, <2>2, <2>3
<1> QED BY <1>3, <1>4, TellGoesTo

LEMMA TellWaitOver ==
  ASSUME TellInv, WaitOver
  PROVE  TellInv'
<1>1. Next1 /\ main = "quiet" /\ UNCHANGED <<association, conn, resp, lost, stale, line>>
  BY DEF WaitOver, history
<1>2. CheckedLinesTell'
  BY <1>1 DEF TellInv, CheckedLinesTell, LineTells
<1> QED BY <1>1, <1>2, NextGoes, TellGoesTo

LEMMA TellDestroy ==
  ASSUME TellInv, Destroy
  PROVE  TellInv'
<1>1. /\ link' = "off" /\ requests' = << >> /\ inbox' = << >> /\ stale' = 0 /\ pos' = 1
      /\ main' \in {"connect", "exit"} /\ conn' \in 1 .. 4 /\ UNCHANGED <<resp, lost, line>>
  BY DEF TellInv, CallInv, Destroy, history
<1>2. LinkInv' /\ CountInv' /\ MatchInv' /\ PrintInv' /\ LostInv'
  BY <1>1, SeqEmpty DEF LinkInv, CountInv, MatchInv, PrintInv, LostInv
<1>3. CallInv'
  <2>1. Len(requests') = 0
    BY <1>1
  <2> QED BY <1>1, <2>1 DEF CallInv
<1>4. CheckedLinesTell'
  BY <1>1 DEF TellInv, CheckedLinesTell, LineTells
<1> QED BY <1>2, <1>3, <1>4 DEF TellInv

LEMMA ServeAnswers ==
  ASSUME TellInv, ReportsInv, Serve, UNCHANGED callVars
  PROVE  AnswerTaken
<1>1. /\ spc = "serve" /\ link = "up" /\ requests # << >> /\ link' = link
      /\ requests' = Tail(requests) /\ inbox' = inbox \o Pdus(Head(requests))
  BY DEF Serve
<1> DEFINE q == Head(requests)
<1>2. IsSeq(inbox) /\ GoodRequest(q)
  <2>1. Len(requests) \in Nat /\ Len(requests) > 0 /\ requests[1] = Head(requests)
    BY <1>1, SeqTail, SeqLen DEF TellInv, LinkInv
  <2> QED BY <2>1 DEF TellInv, LinkInv, CallInv
<1> HIDE DEF q
<1>3. /\ IsSeq(inbox \o Pdus(q)) /\ Answers(inbox \o Pdus(q)) = Answers(inbox) + 1
      /\ LastRight(inbox \o Pdus(q), q)
  BY <1>1, <1>2, PdusRight
<1>4. inbox' = inbox \o Pdus(q)
  BY <1>1 DEF q
<1>5. IsSeq(inbox') /\ Answers(inbox') = Answers(inbox) + 1 /\ LastRight(inbox', q)
  BY <1>3, <1>4
<1> QED BY <1>1, <1>5 DEF AnswerTaken, q

LEMMA AnyServeAnswers ==
  ASSUME TellInv, AnyServe
  PROVE  AnswerTaken \/ (Loss /\ UNCHANGED callVars)
<1> DEFINE q == Head(requests)
<1>1. /\ link = "up" /\ requests # << >> /\ UNCHANGED callVars
      /\ \E r \in AnyAnswers(q) :
           \/ Loss
           \/ inbox' = Append(inbox, Answer(r)) /\ requests' = Tail(requests) /\ link' = link
  BY DEF AnyServe, client, history, callVars
<1>2. IsSeq(inbox) /\ GoodRequest(q)
  <2>1. Len(requests) \in Nat /\ Len(requests) > 0 /\ requests[1] = Head(requests)
    BY <1>1, SeqTail, SeqLen DEF TellInv, LinkInv
  <2> QED BY <2>1 DEF TellInv, LinkInv, CallInv
<1>3. PICK r \in AnyAnswers(q) :
        \/ Loss
        \/ inbox' = Append(inbox, Answer(r)) /\ requests' = Tail(requests) /\ link' = link
  BY <1>1
<1> HIDE DEF q
<1>4. CASE ~Loss
  <2>1. inbox' = inbox \o <<Answer(r)>> /\ RightAnswer(q, r)
    BY <1>2, <1>3, <1>4, SeqAppend, AnyRight
  <2>2. /\ IsSeq(inbox \o <<Answer(r)>>) /\ Answers(inbox \o <<Answer(r)>>) = Answers(inbox) + 1
        /\ LastRight(inbox \o <<Answer(r)>>, q)
    BY <1>2, <2>1, EndAnswer, Zenon
  <2>3. IsSeq(inbox') /\ Answers(inbox') = Answers(inbox) + 1 /\ LastRight(inbox', q)
    BY <2>1, <2>2, Zenon
  <2> QED BY <1>1, <1>3, <1>4, <2>3 DEF AnswerTaken, q
<1> QED BY <1>1, <1>4

LEMMA TellStep ==
  ASSUME TellInv, ReportsInv, [MmsNext]_mmsVars
  PROVE  TellInv'
<1>1. CASE ClientStep
  <2>1. CASE Connects
    BY <2>1, TellConnect DEF Connects
  <2>2. CASE Prints
    BY <2>2, TellPrint DEF Prints
  <2>3. CASE Rounds
    <3>1. UNCHANGED <<association, callVars>>
      BY <2>3 DEF Rounds, WaitRound, history, callVars
    <3> QED BY <3>1, TellQuiet
  <2>4. CASE Send \/ Continue \/ WaitOver \/ Destroy
    BY <2>4, TellSend, TellContinue, TellWaitOver, TellDestroy
  <2> QED BY <1>1, <2>1, <2>2, <2>3, <2>4 DEF ClientStep
<1>2. CASE ThreadStep \/ TimeoutStep
  <2>1. CASE ReportEnd
    <3>1. UNCHANGED <<association, callVars>>
      BY <2>1 DEF ReportEnd, history, callVars
    <3> QED BY <3>1, TellQuiet
  <2>2. CASE Receive \/ Drop \/ CallLost \/ ConnectionLost \/ ReportBegin \/ Timeout
    BY <2>2, TellReceive, TellTake, TellGiveUp, TellConnectionLost
  <2> QED BY <1>2, <2>1, <2>2 DEF ThreadStep, TimeoutStep, ConnectionThread
<1>3. CASE Cut
  <2>1. Loss /\ UNCHANGED callVars
    BY <1>3 DEF Cut, client, history, callVars
  <2> QED BY <2>1, TellLoss
<1>4. CASE AnyServe
  BY <1>4, AnyServeAnswers, TellAnswered, TellLoss
<1>5. CASE AnyReport
  BY <1>5, TellReport
<1>6. CASE ServerStep
  <2>1. UNCHANGED callVars
    BY <1>6 DEF ServerStep, client, history, callVars
  <2>2. CASE Serve
    BY <2>1, <2>2, ServeAnswers, TellAnswered
  <2>3. CASE Load \/ Populate \/ Cleanup
    <3>1. UNCHANGED association
      BY <2>3 DEF Load, Populate, Cleanup
    <3> QED BY <2>1, <3>1, TellQuiet
  <2> QED BY <1>6, <2>2, <2>3 DEF ServerStep, Server
<1>7. CASE EnvironmentStep
  <2>1. UNCHANGED callVars
    BY <1>7 DEF EnvironmentStep, client, history, callVars
  <2>2. CASE Stop \/ Killed
    <3>1. Loss
      BY <2>2 DEF Stop, Killed
    <3> QED BY <2>1, <3>1, TellLoss
  <2>3. CASE Start \/ StartFails \/ OtherWrite
    <3>1. UNCHANGED association
      BY <2>3 DEF Start, StartFails, OtherWrite
    <3> QED BY <2>1, <3>1, TellQuiet
  <2> QED BY <1>7, <2>2, <2>3 DEF EnvironmentStep, Environment
<1>8. CASE UNCHANGED mmsVars
  <2>1. UNCHANGED <<association, callVars>>
    BY <1>8 DEF mmsVars, client, history, callVars
  <2> QED BY <2>1, TellQuiet
<1> QED
  BY <1>1, <1>2, <1>3, <1>4, <1>5, <1>6, <1>7, <1>8 DEF MmsNext, MmsProgress

LEMMA TellStart ==
  ASSUME MmsInit
  PROVE  TellInv /\ ReportsInv
<1>1. /\ link = "off" /\ requests = << >> /\ inbox = << >> /\ main = "connect" /\ conn = 1 /\ pos = 1
      /\ lost = FALSE /\ stale = 0 /\ line = NoLine
  BY DEF MmsInit, ClientInit
<1>2. Len(requests) = 0
  BY <1>1
<1>3. LinkInv /\ CountInv /\ MatchInv /\ CallInv /\ PrintInv /\ LostInv
  BY <1>1, <1>2, SeqEmpty DEF LinkInv, CountInv, MatchInv, CallInv, PrintInv, LostInv
<1>4. CheckedLinesTell
  <2>1. line.call.how = "none" /\ line.call.say = "plain" /\ line.ok = FALSE
    BY <1>1 DEF NoLine, NoCall, Ask, Call
  <2> QED BY <2>1 DEF CheckedLinesTell, LineTells
<1>5. ReportsInv
  BY DEF MmsInit, ServerInit, ReportsInv
<1> QED BY <1>3, <1>4, <1>5 DEF TellInv

(***************************************************************************)
(* Every checked line of the C mms-client tells the truth                  *)
(* (CheckedLinesTell): it says ok exactly if the server performed the call *)
(* it names, on every item, and the server-abort line says ok only after   *)
(* the connection was lost.  In particular the answer to a call that timed *)
(* out is never taken for the answer to a later one, however many calls    *)
(* time out, and whether the peer is the C server, stopped, killed and     *)
(* restarted at any time, or any server that answers in order.             *)
(***************************************************************************)
THEOREM LinesTellTruth == MmsSpec => []CheckedLinesTell
<1>1. MmsInit => TellInv /\ ReportsInv
  BY TellStart
<1>2. TellInv /\ ReportsInv /\ [MmsNext]_mmsVars => (TellInv /\ ReportsInv)'
  BY TellStep, ReportsStep
<1>3. TellInv /\ ReportsInv => CheckedLinesTell
  BY DEF TellInv
<1> QED
  BY <1>1, <1>2, <1>3, PTL DEF MmsSpec

-----------------------------------------------------------------------------
(* The reports on their way to the client.                                 *)

NoReports(s) == \A i \in 1 .. Len(s) : s[i].kind # "report"

EndsAnswer(s) == s # << >> /\ s[Len(s)].kind = "answer"

LEMMA NoReportsTail ==
  ASSUME NEW s, IsSeq(s), s # << >>, NoReports(s)
  PROVE  NoReports(Tail(s)) /\ Head(s).kind # "report"
<1>1. /\ Len(s) \in Nat /\ Len(s) > 0 /\ s[1] = Head(s) /\ Len(Tail(s)) = Len(s) - 1
      /\ \A i \in 1 .. Len(Tail(s)) : Tail(s)[i] = s[i + 1]
  BY SeqTail, SeqLen
<1> QED BY <1>1 DEF NoReports

LEMMA EndsAnswerTail ==
  ASSUME NEW s, IsSeq(s), EndsAnswer(s), Head(s).kind # "answer"
  PROVE  EndsAnswer(Tail(s))
<1> DEFINE t == Tail(s)
<1>1. /\ IsSeq(t) /\ Len(s) \in Nat /\ Len(s) > 0 /\ s[1] = Head(s) /\ Len(t) = Len(s) - 1
      /\ \A i \in 1 .. Len(t) : t[i] = s[i + 1]
  BY SeqTail, SeqLen DEF EndsAnswer
<1> HIDE DEF t
<1>2. Len(s) # 1
  BY <1>1 DEF EndsAnswer
<1>3. Len(t) \in 1 .. Len(t) /\ Len(t) + 1 = Len(s)
  BY <1>1, <1>2
<1>4. t[Len(t)] = s[Len(s)]
  BY <1>1, <1>3
<1>5. t # << >>
  BY <1>1, <1>3, SeqNil
<1> QED BY <1>4, <1>5 DEF EndsAnswer, t

(* One more answer: it is the last, and no report.                         *)
LEMMA OneMore ==
  ASSUME NEW s, NEW r, IsSeq(s)
  PROVE  /\ EndsAnswer(s \o <<Answer(r)>>)
         /\ NoReports(s) => NoReports(s \o <<Answer(r)>>)
<1> DEFINE x == Answer(r)
           u == s \o <<x>>
<1>1. x.kind = "answer"
  BY DEF Answer
<1> HIDE DEF x
<1>2. IsSeq(<<x>>) /\ Len(<<x>>) = 1 /\ <<x>>[1] = x
  BY SeqOne
<1>3. /\ IsSeq(s \o <<x>>) /\ Len(s \o <<x>>) = Len(s) + Len(<<x>>)
      /\ \A i \in 1 .. Len(s) : (s \o <<x>>)[i] = s[i]
      /\ \A i \in 1 .. Len(<<x>>) : (s \o <<x>>)[Len(s) + i] = <<x>>[i]
  BY <1>2, SeqConcat
<1> HIDE DEF u
<1>4. /\ IsSeq(u) /\ Len(u) = Len(s) + 1 /\ u[Len(s) + 1] = x /\ Len(s) \in Nat
      /\ \A i \in 1 .. Len(s) : u[i] = s[i]
  BY <1>2, <1>3, SeqLen DEF u
<1>5. u # << >>
  BY <1>4, SeqNil
<1>6. EndsAnswer(u)
  BY <1>1, <1>4, <1>5 DEF EndsAnswer
<1>7. NoReports(s) => NoReports(u)
  BY <1>1, <1>4 DEF NoReports
<1> QED BY <1>6, <1>7 DEF u, x

(* What a request makes the C server send: reports only for the trigger.   *)
LEMMA PdusEnd ==
  ASSUME NEW q, NEW s, IsSeq(s), ReportsInv, spc = "serve"
  PROVE  /\ EndsAnswer(s \o Pdus(q))
         /\ ~Triggers(q) /\ NoReports(s) => NoReports(s \o Pdus(q))
<1> DEFINE pre == IF q.how = "write" /\ Served(AnswerTo(q)) THEN send_reports(q.on) ELSE << >>
           r == AnswerTo(q)
           x == <<Answer(r)>>
           t == s \o pre
<1>1. Pdus(q) = pre \o x
  BY DEF Pdus
<1>2. IsSeq(pre) /\ IsSeq(x)
  BY ReportsAnswerNothing, SeqEmpty, SeqOne
<1>3. ~Triggers(q) => pre = << >>
  BY DEF Triggers, send_reports
<1> HIDE DEF pre, r, x
<1>4. s \o (pre \o x) = (s \o pre) \o x
  <2>1. IsSeq(s) /\ IsSeq(pre) /\ IsSeq(x)
    BY <1>2
  <2> QED BY <2>1, SeqAssoc
<1>5. IsSeq(s \o pre)
  BY <1>2, SeqConcat, Zenon
<1>6. pre = << >> => s \o pre = s
  <2>1. PICK S : s \in Seq(S)
    BY DEF IsSeq
  <2> QED BY <2>1, ConcatEmptySeq
<1> HIDE DEF t
<1>7. IsSeq(t) /\ (~Triggers(q) => t = s)
  BY <1>3, <1>5, <1>6 DEF t
<1>8. EndsAnswer(t \o x) /\ (NoReports(t) => NoReports(t \o x))
  BY <1>7, OneMore, Zenon DEF x
<1>9. s \o Pdus(q) = t \o x
  BY <1>1, <1>4 DEF t
<1> QED BY <1>7, <1>8, <1>9

-----------------------------------------------------------------------------
(* Where reports may be, and where the client may print without the lock.  *)

Settled == link = "up" => NoReports(inbox) /\ owed = 0

(* Before the write of svc_reports there are no reports, ...               *)
EarlyInv ==
  conn = 1 /\ pos < TriggerPos =>
    /\ Settled /\ reporter = "idle"
    /\ \A i \in 1 .. Len(requests) : ~Triggers(requests[i])

(* ... and after the read that follows it there are none any more.         *)
LateInv ==
  conn = 1 /\ ~timedout =>
    /\ pos = TriggerPos + 1 /\ main = "wait" /\ link = "up" /\ requests = << >> =>
         owed = 0 /\ EndsAnswer(inbox)
    /\ pos = TriggerPos + 1 /\ main = "print" => Settled
    /\ pos = TriggerPos + 2 => Settled /\ reporter = "idle"

PlaceInv ==
  /\ conn # 1 => reporter = "idle"
  /\ conn = 1 => pos <= TriggerPos + 2
  /\ conn = 1 /\ main \in {"call", "wait", "print"} =>
       cur.how # "abort" /\ (Triggers(cur) => pos = TriggerPos)
  /\ main = "quiet" => conn = 1 /\ pos = TriggerPos
  /\ peer \in {"c", "any"} /\ (peer = "c" => owed = 0)
  /\ ~timedout => stale = 0

TornInv == EarlyInv /\ LateInv /\ PlaceInv /\ WholeLines

tornVars == <<main, conn, pos, cur, stale, reporter, timedout, torn>>

LEMMA TornQuiet ==
  ASSUME TornInv, UNCHANGED <<association, tornVars, peer, owed>>
  PROVE  TornInv'
<1>1. Settled' <=> Settled
  BY DEF Settled, association
<1>2. EarlyInv' /\ LateInv' /\ PlaceInv' /\ WholeLines'
  BY <1>1 DEF TornInv, EarlyInv, LateInv, PlaceInv, WholeLines, association, tornVars
<1> QED BY <1>2 DEF TornInv

LEMMA TornLoss ==
  ASSUME TornInv, Loss, UNCHANGED <<tornVars, peer>>, peer = "c" => owed' = owed
  PROVE  TornInv'
<1>1. link' # "up" /\ requests' = << >> /\ inbox' = << >> /\ Settled' /\ Len(requests') = 0
  BY DEF Loss, Settled
<1>2. EarlyInv' /\ LateInv' /\ PlaceInv' /\ WholeLines'
  BY <1>1 DEF TornInv, EarlyInv, LateInv, PlaceInv, WholeLines, tornVars
<1> QED BY <1>2 DEF TornInv

(* The C server, or any other, answers the first request.                  *)
LEMMA TornAnswer ==
  ASSUME TornInv, TellInv, UNCHANGED <<tornVars, peer>>, link = "up", link' = link,
         requests # << >>, requests' = Tail(requests), EndsAnswer(inbox'),
         peer = "any" => owed = 0,
         ~Triggers(Head(requests)) => owed' = owed /\ (NoReports(inbox) => NoReports(inbox')),
         peer = "c" => owed' = owed
  PROVE  TornInv'
<1> DEFINE t == Tail(requests)
           q == Head(requests)
<1>1. /\ IsSeq(requests) /\ Len(requests) \in Nat /\ Len(requests) > 0
      /\ Len(t) = Len(requests) - 1 /\ requests[1] = q
      /\ \A i \in 1 .. Len(t) : t[i] = requests[i + 1]
  BY SeqTail, SeqLen DEF TellInv, LinkInv
<1>2. owed = 0 /\ (~Triggers(q) => owed' = 0)
  BY DEF TornInv, PlaceInv
<1>3. requests' = t
  OBVIOUS
<1>4. ~timedout => main = "wait" /\ q = cur
  <2> SUFFICES ASSUME ~timedout PROVE main = "wait" /\ q = cur
    OBVIOUS
  <2> DEFINE a == Answers(inbox)
             n == Len(requests)
  <2>1. a \in Nat /\ a + n = 0 + (IF main = "wait" THEN 1 ELSE 0)
    BY AnswersFinite DEF TellInv, LinkInv, CountInv, TornInv, PlaceInv
  <2> HIDE DEF a
  <2>2. main = "wait" /\ n = 1
    BY <1>1, <2>1
  <2>3. requests[Len(requests)] = cur
    BY <2>2 DEF TellInv, MatchInv
  <2> QED BY <1>1, <2>2, <2>3
<1>5. EarlyInv'
  <2> SUFFICES ASSUME conn = 1, pos < TriggerPos
               PROVE  /\ Settled' /\ reporter = "idle"
                      /\ \A i \in 1 .. Len(t) : ~Triggers(t[i])
    BY <1>3 DEF EarlyInv, tornVars
  <2>1. Settled /\ reporter = "idle" /\ \A i \in 1 .. Len(requests) : ~Triggers(requests[i])
    BY DEF TornInv, EarlyInv
  <2>2. ~Triggers(q)
    BY <1>1, <2>1
  <2>3. Settled'
    BY <1>2, <2>1, <2>2 DEF Settled
  <2>4. \A i \in 1 .. Len(t) : ~Triggers(t[i])
    <3> HIDE DEF t
    <3> QED BY <1>1, <2>1
  <2> QED BY <2>1, <2>3, <2>4
<1>6. LateInv'
  <2> SUFFICES ASSUME conn = 1, ~timedout, pos \in {TriggerPos + 1, TriggerPos + 2}
               PROVE  /\ owed' = 0 /\ EndsAnswer(inbox')
                      /\ pos = TriggerPos + 2 => Settled' /\ reporter = "idle"
    <3>1. UNCHANGED <<conn, timedout, main, pos, reporter>>
      BY DEF tornVars
    <3>2. ~timedout => main' = "wait"
      BY <1>4, <3>1
    <3> QED BY <3>1, <3>2 DEF LateInv
  <2>1. ~Triggers(q)
    <3>1. TriggerPos = 78
      BY FullGood
    <3>2. Triggers(cur) => pos = TriggerPos
      BY <1>4 DEF TornInv, PlaceInv
    <3>3. q = cur
      BY <1>4
    <3> HIDE DEF q
    <3> QED BY <3>1, <3>2, <3>3
  <2>2. owed' = 0
    BY <1>2, <2>1
  <2>3. pos = TriggerPos + 2 => Settled' /\ reporter = "idle"
    BY <2>1, <2>2 DEF TornInv, LateInv, Settled
  <2> QED BY <2>2, <2>3
<1>7. PlaceInv' /\ WholeLines'
  BY <1>2 DEF TornInv, PlaceInv, WholeLines, tornVars
<1> QED BY <1>5, <1>6, <1>7 DEF TornInv

LEMMA TornReport ==
  ASSUME TornInv, TellInv, AnyReport
  PROVE  TornInv'
<1>1. /\ owed > 0 /\ link = "up" /\ UNCHANGED <<link, requests, tornVars, peer>>
  BY DEF AnyReport, client, thread, history, tornVars
<1>2. owed # 0 /\ ~Settled
  BY <1>1 DEF Settled
<1>3. ~(conn = 1 /\ pos < TriggerPos) /\ peer # "c"
  BY <1>2 DEF TornInv, EarlyInv, PlaceInv
<1>4. LateInv'
  BY <1>1, <1>2 DEF TornInv, LateInv, tornVars
<1>5. EarlyInv' /\ PlaceInv' /\ WholeLines'
  BY <1>1, <1>3 DEF TornInv, EarlyInv, PlaceInv, WholeLines, tornVars
<1> QED BY <1>4, <1>5 DEF TornInv

(* Facts about the script of the first association.                        *)
LEMMA FullFacts ==
  /\ TriggerPos = 78 /\ Len(Scripts[1]) = 80
  /\ \A i \in 1 .. 80 :
       Scripts[1][i].how # "abort" /\ (Triggers(Scripts[1][i]) => i = TriggerPos)
<1>1. Scripts[1] = run_sequence_full
  BY ScriptsGood
<1>2. TriggerPos = 78 /\ Len(run_sequence_full) = 80
  BY FullGood
<1>3. ASSUME NEW i \in 1 .. 80
      PROVE  run_sequence_full[i].how # "abort" /\ (Triggers(run_sequence_full[i]) => i = 78)
  <2>1. CASE i = 78
    BY <2>1, FullGood
  <2>2. CASE i # 78
    BY <2>2, FullGood DEF Tame
  <2> QED BY <2>1, <2>2
<1> QED BY <1>1, <1>2, <1>3

LEMMA TornConnect ==
  ASSUME TornInv, TellInv, Connects
  PROVE  TornInv'
<1>1. /\ owed' = 0 /\ inbox' = << >> /\ requests' = << >> /\ Len(requests') = 0 /\ Len(inbox') = 0
      /\ peer' = peer
      /\ UNCHANGED <<pos, stale, reporter, timedout, torn>>
      /\ \/ main' = "call" /\ conn' = conn /\ cur' = Scripts[conn][1]
         \/ main' \in {"connect", "exit"} /\ conn' = IF conn = 3 THEN 4 ELSE conn
      /\ conn \in 1 .. 4
  BY DEF Connects, Connect, TellInv, LinkInv, CallInv, thread, history
<1>2. Settled'
  BY <1>1 DEF Settled, NoReports
<1>3. (conn' = 1 <=> conn = 1) /\ (conn' = 1 /\ main' = "call" => cur' = Scripts[1][1])
  BY <1>1
<1>4. Scripts[1][1].how # "abort" /\ ~Triggers(Scripts[1][1])
  BY FullFacts
<1>5. EarlyInv'
  BY <1>1, <1>2, <1>3 DEF TornInv, EarlyInv
<1>6. LateInv'
  BY <1>1, <1>2, <1>3 DEF TornInv, LateInv
<1>7. PlaceInv' /\ WholeLines'
  BY <1>1, <1>3, <1>4 DEF TornInv, PlaceInv, WholeLines
<1> QED BY <1>5, <1>6, <1>7 DEF TornInv

LEMMA TornSend ==
  ASSUME TornInv, TellInv, Send, UNCHANGED station
  PROVE  TornInv'
<1>1. /\ main = "call" /\ UNCHANGED <<link, inbox, conn, pos, cur, stale, reporter, timedout, torn,
                                      peer, owed>>
      /\ IsSeq(requests) /\ pos \in Nat
  BY DEF Send, thread, history, station, TellInv, LinkInv, CallInv
<1>2. Settled' <=> Settled
  BY <1>1 DEF Settled
<1>3. WholeLines'
  BY <1>1 DEF TornInv, WholeLines
<1>4. CASE link = "up" /\ cur.how # "abort"
  <2>1. main' = "wait" /\ requests' = requests \o <<cur>>
    BY <1>1, <1>4, SeqAppend DEF Send
  <2> DEFINE c == cur
             u == requests \o <<c>>
             n == Len(requests)
  <2>2. /\ IsSeq(u) /\ Len(u) = n + 1 /\ u[n + 1] = c /\ n \in Nat
        /\ \A i \in 1 .. n : u[i] = requests[i]
    <3> HIDE DEF c
    <3>1. IsSeq(<<c>>) /\ Len(<<c>>) = 1 /\ <<c>>[1] = c /\ n \in Nat
      BY <1>1, SeqOne, SeqLen
    <3>2. /\ IsSeq(requests \o <<c>>) /\ Len(requests \o <<c>>) = n + Len(<<c>>)
          /\ \A i \in 1 .. n : (requests \o <<c>>)[i] = requests[i]
          /\ \A i \in 1 .. Len(<<c>>) : (requests \o <<c>>)[n + i] = <<c>>[i]
      BY <1>1, <3>1, SeqConcat
    <3> QED BY <3>1, <3>2
  <2>3. requests' = u
    BY <2>1
  <2> HIDE DEF u
  <2>4. requests' # << >>
    BY <2>2, <2>3, SeqNil
  <2>5. EarlyInv'
    <3> SUFFICES ASSUME conn = 1, pos < TriggerPos
                 PROVE  Settled' /\ reporter = "idle" /\ \A i \in 1 .. Len(u) : ~Triggers(u[i])
      BY <1>1, <2>3 DEF EarlyInv
    <3>1. Settled /\ reporter = "idle" /\ \A i \in 1 .. n : ~Triggers(requests[i])
      BY DEF TornInv, EarlyInv
    <3>2. ~Triggers(c)
      <4>1. pos # TriggerPos
        BY <1>1, FullFacts
      <4> QED BY <1>1, <4>1 DEF TornInv, PlaceInv
    <3> HIDE DEF c, n
    <3>3. ASSUME NEW i \in 1 .. Len(u) PROVE ~Triggers(u[i])
      <4>1. i = n + 1 \/ i \in 1 .. n
        BY <2>2
      <4> QED BY <2>2, <3>1, <3>2, <4>1
    <3> QED BY <1>2, <3>1, <3>3
  <2>6. LateInv' /\ PlaceInv'
    BY <1>1, <1>2, <2>1, <2>4 DEF TornInv, LateInv, PlaceInv
  <2> QED BY <1>3, <2>5, <2>6 DEF TornInv
<1>5. CASE ~(link = "up" /\ cur.how # "abort")
  <2>1. main' = "print" /\ requests' = requests
    BY <1>5 DEF Send
  <2>2. conn = 1 => Settled'
    BY <1>1, <1>5 DEF TornInv, PlaceInv, Settled
  <2>3. EarlyInv'
    BY <1>1, <1>2, <2>1 DEF TornInv, EarlyInv
  <2>4. LateInv'
    BY <1>1, <1>2, <2>1, <2>2 DEF TornInv, LateInv
  <2>5. PlaceInv'
    BY <1>1, <2>1 DEF TornInv, PlaceInv
  <2> QED BY <1>3, <2>3, <2>4, <2>5 DEF TornInv
<1> QED BY <1>4, <1>5

LEMMA TornReceive ==
  ASSUME TornInv, TellInv, Receive, UNCHANGED station
  PROVE  TornInv'
<1>1. /\ inbox # << >> /\ Head(inbox).kind = "answer" /\ stale = 0 /\ main = "wait" /\ main' = "print"
      /\ inbox' = Tail(inbox) /\ UNCHANGED <<link, requests, conn, pos, cur, stale, reporter,
                                             timedout, torn, peer, owed>>
      /\ IsSeq(inbox) /\ IsSeq(requests) /\ link = "up"
  BY DEF Receive, thread, history, station, TellInv, LinkInv
<1> DEFINE a == Answers(inbox)
           b == Answers(Tail(inbox))
           n == Len(requests)
           t == Tail(inbox)
<1>2. IsSeq(t) /\ a = b + 1 /\ b \in Nat /\ n \in Nat /\ a + n = 1
  <2>1. IsSeq(t) /\ a = b + 1
    BY <1>1, SeqTail, TailAnswers
  <2>2. b \in Nat /\ n \in Nat
    BY <1>1, <2>1, AnswersFinite, SeqLen
  <2>3. a + n = 0 + 1
    BY <1>1 DEF TellInv, CountInv
  <2> QED BY <2>1, <2>2, <2>3
<1>3. b = 0 /\ n = 0
  <2> HIDE DEF a, b, n
  <2> QED BY <1>2
<1>4. requests = << >> /\ AnswersIn(t) = {}
  BY <1>1, <1>2, <1>3, SeqNil, AnswersFinite
<1>5. NoReports(inbox) => NoReports(t)
  BY <1>1, NoReportsTail
<1>6. EndsAnswer(inbox) => t = << >>
  <2>1. /\ Len(inbox) \in Nat /\ Len(inbox) > 0 /\ Len(t) = Len(inbox) - 1
        /\ \A i \in 1 .. Len(t) : t[i] = inbox[i + 1]
    BY <1>1, SeqTail, SeqLen
  <2> HIDE DEF t
  <2>2. ASSUME Len(t) # 0, EndsAnswer(inbox) PROVE FALSE
    <3>1. Len(t) \in 1 .. Len(t) /\ Len(t) + 1 = Len(inbox)
      BY <2>1, <2>2
    <3>2. t[Len(t)] = inbox[Len(inbox)]
      BY <2>1, <3>1
    <3>3. Len(t) \in AnswersIn(t)
      BY <2>2, <3>1, <3>2 DEF AnswersIn, IsAnswer, EndsAnswer
    <3> QED BY <1>4, <3>3
  <2> QED BY <1>2, <2>2, SeqNil
<1>7. EarlyInv'
  BY <1>1, <1>5 DEF TornInv, EarlyInv, Settled
<1>8. LateInv'
  <2> SUFFICES ASSUME conn = 1, ~timedout
               PROVE  /\ pos = TriggerPos + 1 => Settled'
                      /\ pos = TriggerPos + 2 => Settled' /\ reporter = "idle"
    BY <1>1 DEF LateInv
  <2>1. ASSUME pos = TriggerPos + 1 PROVE Settled'
    <3>1. owed = 0 /\ EndsAnswer(inbox)
      BY <1>1, <1>4, <2>1 DEF TornInv, LateInv
    <3>2. inbox' = << >> /\ Len(inbox') = 0
      BY <1>1, <1>6, <3>1
    <3>3. NoReports(inbox')
      BY <3>2 DEF NoReports
    <3>4. owed' = 0
      BY <1>1, <3>1
    <3> QED BY <3>3, <3>4 DEF Settled
  <2>2. ASSUME pos = TriggerPos + 2 PROVE Settled' /\ reporter = "idle"
    BY <1>1, <1>5, <2>2 DEF TornInv, LateInv, Settled
  <2> QED BY <2>1, <2>2
<1>9. PlaceInv' /\ WholeLines'
  BY <1>1 DEF TornInv, PlaceInv, WholeLines
<1> QED BY <1>7, <1>8, <1>9 DEF TornInv

LEMMA TornDrop ==
  ASSUME TornInv, TellInv, Drop, UNCHANGED station
  PROVE  TornInv'
<1>1. /\ inbox # << >> /\ inbox' = Tail(inbox) /\ IsSeq(inbox) /\ reporter = "idle"
      /\ UNCHANGED <<link, requests, main, conn, pos, cur, reporter, timedout, torn, peer, owed>>
      /\ stale \in Nat
      /\ \/ Head(inbox).kind = "answer" /\ stale > 0 /\ stale' = stale - 1
         \/ Head(inbox).kind = "report" /\ conn # 1 /\ stale' = stale
  BY DEF Drop, thread, history, station, TellInv, LinkInv
<1>2. Settled => Settled'
  BY <1>1, NoReportsTail DEF Settled
<1>3. conn = 1 => timedout
  BY <1>1 DEF TornInv, PlaceInv
<1>4. ~timedout => stale' = 0
  BY <1>1 DEF TornInv, PlaceInv
<1>5. EarlyInv'
  BY <1>1, <1>2 DEF TornInv, EarlyInv
<1>6. LateInv'
  BY <1>1, <1>3 DEF LateInv
<1>7. PlaceInv' /\ WholeLines'
  BY <1>1, <1>4 DEF TornInv, PlaceInv, WholeLines
<1> QED BY <1>5, <1>6, <1>7 DEF TornInv

LEMMA TornReportBegin ==
  ASSUME TornInv, TellInv, ReportBegin, UNCHANGED station
  PROVE  TornInv'
<1>1. /\ inbox # << >> /\ inbox' = Tail(inbox) /\ IsSeq(inbox) /\ conn = 1 /\ link = "up"
      /\ Head(inbox).kind = "report" /\ reporter' = "mid"
      /\ UNCHANGED <<link, requests, main, conn, pos, cur, stale, timedout, torn, peer, owed>>
  BY DEF ReportBegin, history, station, TellInv, LinkInv
<1>2. ~Settled
  BY <1>1, NoReportsTail DEF Settled
<1>3. ~(pos < TriggerPos)
  BY <1>1, <1>2 DEF TornInv, EarlyInv
<1>4. EndsAnswer(inbox) => EndsAnswer(inbox')
  BY <1>1, EndsAnswerTail
<1>5. EarlyInv'
  BY <1>1, <1>3 DEF EarlyInv
<1>6. LateInv'
  BY <1>1, <1>2, <1>4 DEF TornInv, LateInv
<1>7. PlaceInv' /\ WholeLines'
  BY <1>1 DEF TornInv, PlaceInv, WholeLines
<1> QED BY <1>5, <1>6, <1>7 DEF TornInv

LEMMA TornReportEnd ==
  ASSUME TornInv, ReportEnd, UNCHANGED station
  PROVE  TornInv'
<1>1. /\ reporter' = "idle"
      /\ UNCHANGED <<link, requests, inbox, main, conn, pos, cur, stale, timedout, torn, peer, owed>>
  BY DEF ReportEnd, association, history, station
<1>2. Settled' <=> Settled
  BY <1>1 DEF Settled
<1>3. EarlyInv' /\ LateInv' /\ PlaceInv' /\ WholeLines'
  BY <1>1, <1>2 DEF TornInv, EarlyInv, LateInv, PlaceInv, WholeLines
<1> QED BY <1>3 DEF TornInv

LEMMA TornGiveUp ==
  ASSUME TornInv, CallLost \/ Timeout, UNCHANGED station
  PROVE  TornInv'
<1>1. /\ main = "wait" /\ main' = "print"
      /\ UNCHANGED <<link, requests, inbox, conn, pos, cur, reporter, torn, peer, owed>>
      /\ \/ link = "lost" /\ UNCHANGED <<stale, timedout>>
         \/ timedout' = TRUE
  BY DEF CallLost, Timeout, association, thread, history, station
<1>2. Settled' <=> Settled
  BY <1>1 DEF Settled
<1>3. ~timedout' => Settled'
  BY <1>1 DEF Settled
<1>4. EarlyInv'
  BY <1>1, <1>2 DEF TornInv, EarlyInv
<1>5. LateInv'
  BY <1>1, <1>2, <1>3 DEF TornInv, LateInv
<1>6. PlaceInv' /\ WholeLines'
  BY <1>1 DEF TornInv, PlaceInv, WholeLines
<1> QED BY <1>4, <1>5, <1>6 DEF TornInv

LEMMA TornContinue ==
  ASSUME TornInv, TellInv, Continue, UNCHANGED station
  PROVE  TornInv'
<1>1. /\ main = "print" /\ main' = "call" /\ GoodCall(cur) /\ GoesOn
      /\ UNCHANGED <<link, requests, inbox, conn, pos, stale, reporter, timedout, torn, peer, owed>>
  BY DEF TellInv, CallInv, Continue, association, thread, history, station
<1>2. cur'.how \in {"directory", "file"}
  <2>1. CASE cur.how = "directory"
    <3>1. \E x : cur' = [cur EXCEPT !.on = x]
      BY <2>1 DEF Continue
    <3> QED BY <1>1, <2>1, <3>1 DEF GoodCall, Call
  <2>2. CASE cur.how = "open"
    <3>1. cur' = [cur EXCEPT !.how = "file"]
      BY <2>2 DEF Continue
    <3> QED BY <1>1, <3>1 DEF GoodCall, Call
  <2>3. CASE cur.how = "file"
    <3>1. cur' = [cur EXCEPT !.at = <<@[1] + Len(resp.data)>>]
      BY <2>3 DEF Continue
    <3>2. cur' = [cur EXCEPT !.at = <<cur.at[1] + Len(resp.data)>>]
      BY <1>1, <3>1 DEF GoodCall, Call
    <3> QED BY <1>1, <2>3, <3>2 DEF GoodCall, Call
  <2> QED BY <1>1, <2>1, <2>2, <2>3 DEF GoesOn
<1>3. cur'.how # "abort" /\ ~Triggers(cur')
  BY <1>2 DEF Triggers
<1>4. Settled' <=> Settled
  BY <1>1 DEF Settled
<1>5. EarlyInv'
  BY <1>1, <1>4 DEF TornInv, EarlyInv
<1>6. LateInv'
  BY <1>1, <1>4 DEF TornInv, LateInv
<1>7. PlaceInv' /\ WholeLines'
  BY <1>1, <1>3 DEF TornInv, PlaceInv, WholeLines
<1> QED BY <1>5, <1>6, <1>7 DEF TornInv

(* The place after the next operation of the first association.            *)
LEMMA NextPlace ==
  ASSUME TellInv, Next1, conn = 1, pos <= 80
  PROVE  /\ main' \in {"call", "close"} /\ pos' <= 80 /\ pos' \in Nat
         /\ pos < 80 => pos' = pos + 1
         /\ main' = "call" => cur'.how # "abort" /\ (Triggers(cur') => pos' = TriggerPos)
         /\ pos >= 80 => pos' = pos /\ main' = "close"
<1> DEFINE s == Scripts[1]
<1>1. Len(s) = 80 /\ pos \in Nat \ {0}
  BY FullFacts DEF TellInv, CallInv
<1>2. \A i \in 1 .. 80 : s[i].how # "abort" /\ (Triggers(s[i]) => i = TriggerPos)
  BY FullFacts
<1>3. IF pos < Len(s) THEN pos' = pos + 1 /\ cur' = s[pos + 1] /\ main' = "call"
      ELSE pos' = pos /\ main' = "close"
  BY DEF Next1
<1> HIDE DEF s
<1>4. CASE pos < 80
  BY <1>1, <1>2, <1>3, <1>4
<1>5. CASE pos >= 80
  BY <1>1, <1>3, <1>5
<1> QED BY <1>1, <1>4, <1>5

(* The next operation, when no line was torn.                              *)
LEMMA TornNext ==
  ASSUME TornInv, TellInv, Next1, main \in {"print", "quiet"}, ~timedout => ~torn',
         conn = 1 /\ pos = TriggerPos + 1 /\ main = "print" => reporter = "idle",
         UNCHANGED <<link, requests, inbox, conn, stale, reporter, timedout, peer, owed>>
  PROVE  TornInv'
<1>1. Settled' <=> Settled
  BY DEF Settled
<1>2. WholeLines'
  BY DEF WholeLines
<1>3. CASE conn # 1
  BY <1>1, <1>2, <1>3 DEF TornInv, EarlyInv, LateInv, PlaceInv, Next1
<1>4. CASE conn = 1
  <2>1. TriggerPos = 78 /\ pos <= 80 /\ pos \in Nat
    BY <1>4, FullFacts DEF TornInv, PlaceInv, TellInv, CallInv
  <2>2. /\ main' \in {"call", "close"} /\ pos' <= 80 /\ pos' \in Nat
        /\ pos < 80 => pos' = pos + 1
        /\ main' = "call" => cur'.how # "abort" /\ (Triggers(cur') => pos' = TriggerPos)
        /\ pos >= 80 => pos' = pos /\ main' = "close"
    BY <1>4, <2>1, NextPlace
  <2>3. EarlyInv'
    <3>1. pos' < TriggerPos => pos < TriggerPos
      BY <2>1, <2>2
    <3> QED BY <1>1, <3>1 DEF TornInv, EarlyInv
  <2>4. LateInv'
    <3>1. ASSUME pos' = TriggerPos + 2, ~timedout PROVE Settled' /\ reporter = "idle"
      <4>1. CASE pos = TriggerPos + 2
        BY <1>1, <1>4, <3>1, <4>1 DEF TornInv, LateInv
      <4>2. CASE pos = TriggerPos + 1
        <5>1. main = "print"
          BY <2>1, <4>2 DEF TornInv, PlaceInv
        <5> QED BY <1>1, <1>4, <3>1, <4>2, <5>1 DEF TornInv, LateInv
      <4> QED BY <2>1, <2>2, <3>1, <4>1, <4>2
    <3> QED BY <2>2, <3>1 DEF LateInv
  <2>5. PlaceInv'
    BY <1>4, <2>1, <2>2 DEF TornInv, PlaceInv
  <2> QED BY <1>2, <2>3, <2>4, <2>5 DEF TornInv
<1> QED BY <1>3, <1>4

LEMMA TornPrint ==
  ASSUME TornInv, TellInv, PrintLine, UNCHANGED <<peer, owed>>
  PROVE  TornInv'
<1>1. /\ main = "print" /\ (Locked(conn, pos) => reporter = "idle")
      /\ torn' = (torn \/ reporter = "mid") /\ GoodCall(cur) /\ pos \in Nat
      /\ UNCHANGED <<link, requests, inbox, conn, stale, reporter, timedout>>
  BY DEF PrintLine, association, thread, TellInv, CallInv
<1>2. conn = 1 /\ pos \in {TriggerPos, TriggerPos + 1} => reporter = "idle"
  <2>1. TriggerPos = Len(OwnCalls) + Len(run_services) - 1
        /\ Len(OwnCalls) = 28 /\ Len(run_services) = 51
    BY OwnCallsQuiet, ServicesGood DEF TriggerPos
  <2>2. conn = 1 /\ pos \in {TriggerPos, TriggerPos + 1} => Locked(conn, pos)
    BY <1>1, <2>1 DEF Locked
  <2> QED BY <1>1, <2>2
<1>3. ~timedout => reporter # "mid"
  <2> SUFFICES ASSUME ~timedout PROVE reporter # "mid"
    OBVIOUS
  <2>1. CASE conn # 1
    BY <2>1 DEF TornInv, PlaceInv
  <2>2. CASE conn = 1
    <3>1. TriggerPos = 78 /\ pos <= TriggerPos + 2
      BY <2>2, FullFacts DEF TornInv, PlaceInv
    <3>2. pos < TriggerPos \/ pos \in {TriggerPos, TriggerPos + 1} \/ pos = TriggerPos + 2
      BY <1>1, <3>1
    <3>3. pos < TriggerPos => reporter = "idle"
      BY <2>2 DEF TornInv, EarlyInv
    <3>4. pos = TriggerPos + 2 => reporter = "idle"
      BY <2>2 DEF TornInv, LateInv
    <3> QED BY <1>2, <2>2, <3>2, <3>3, <3>4
  <2> QED BY <2>1, <2>2
<1>4. ~timedout => ~torn'
  BY <1>1, <1>3 DEF TornInv, WholeLines
<1>5. Settled' <=> Settled
  BY <1>1 DEF Settled
<1>6. CASE cur.how = "file"
  <2>1. cur' = [cur EXCEPT !.how = "close"] /\ main' = "call" /\ pos' = pos
    BY <1>6 DEF PrintLine, IsTrigger
  <2>2. cur'.how = "close"
    BY <1>1, <2>1 DEF GoodCall, Call
  <2>3. cur'.how # "abort" /\ ~Triggers(cur')
    BY <2>2 DEF Triggers
  <2>4. EarlyInv' /\ LateInv'
    BY <1>1, <1>5, <2>1 DEF TornInv, EarlyInv, LateInv
  <2>5. PlaceInv' /\ WholeLines'
    BY <1>1, <1>4, <2>1, <2>3 DEF TornInv, PlaceInv, WholeLines
  <2> QED BY <2>4, <2>5 DEF TornInv
<1>7. CASE cur.how # "file" /\ IsTrigger
  <2>1. main' = "quiet" /\ pos' = pos
    BY <1>7, Zenon DEF PrintLine
  <2>2. conn = 1 /\ pos = TriggerPos
    BY <1>1, <1>7 DEF IsTrigger, TornInv, PlaceInv, Triggers
  <2>3. EarlyInv' /\ LateInv'
    BY <1>1, <1>5, <2>1 DEF TornInv, EarlyInv, LateInv
  <2>4. PlaceInv' /\ WholeLines'
    BY <1>1, <1>4, <2>1, <2>2 DEF TornInv, PlaceInv, WholeLines
  <2> QED BY <2>3, <2>4 DEF TornInv
<1>8. CASE cur.how # "file" /\ ~IsTrigger
  <2>1. Next1
    BY <1>8, Zenon DEF PrintLine
  <2> QED BY <1>1, <1>2, <1>4, <2>1, TornNext
<1> QED BY <1>6, <1>7, <1>8

LEMMA TornWaitOver ==
  ASSUME TornInv, TellInv, WaitOver, UNCHANGED station
  PROVE  TornInv'
<1>1. /\ main = "quiet" /\ Next1 /\ torn' = torn
      /\ UNCHANGED <<link, requests, inbox, conn, stale, reporter, timedout, peer, owed>>
  BY DEF WaitOver, association, thread, history, station
<1>2. ~timedout => ~torn'
  BY <1>1 DEF TornInv, WholeLines
<1> QED BY <1>1, <1>2, TornNext

LEMMA TornDestroy ==
  ASSUME TornInv, TellInv, Destroy, UNCHANGED station
  PROVE  TornInv'
<1>1. /\ main' \in {"connect", "exit"} /\ conn' # 1 /\ reporter' = "idle" /\ stale' = 0
      /\ UNCHANGED <<timedout, torn, peer, owed>>
  BY DEF Destroy, thread, history, station, TellInv, CallInv
<1>2. EarlyInv' /\ LateInv' /\ PlaceInv' /\ WholeLines'
  BY <1>1 DEF TornInv, EarlyInv, LateInv, PlaceInv, WholeLines
<1> QED BY <1>2 DEF TornInv

LEMMA TornServe ==
  ASSUME TornInv, TellInv, ReportsInv, Serve, UNCHANGED <<client, station>>, peer = "c"
  PROVE  TornInv'
<1> DEFINE q == Head(requests)
<1>1. /\ spc = "serve" /\ link = "up" /\ requests # << >> /\ link' = link
      /\ requests' = Tail(requests) /\ inbox' = inbox \o Pdus(q)
      /\ UNCHANGED <<tornVars, peer, owed>> /\ IsSeq(inbox)
  BY DEF Serve, client, thread, history, station, tornVars, TellInv, LinkInv
<1> HIDE DEF q
<1>2. /\ EndsAnswer(inbox \o Pdus(q))
      /\ ~Triggers(q) /\ NoReports(inbox) => NoReports(inbox \o Pdus(q))
  BY <1>1, PdusEnd
<1>3. EndsAnswer(inbox') /\ (~Triggers(q) /\ NoReports(inbox) => NoReports(inbox'))
  BY <1>1, <1>2
<1> QED BY <1>1, <1>3, TornAnswer DEF q

LEMMA TornAnyServe ==
  ASSUME TornInv, TellInv, AnyServe
  PROVE  TornInv'
<1> DEFINE q == Head(requests)
<1>1. /\ peer = "any" /\ link = "up" /\ requests # << >> /\ owed = 0
      /\ UNCHANGED <<tornVars, peer>> /\ IsSeq(inbox)
  BY DEF AnyServe, client, thread, history, tornVars, TellInv, LinkInv
<1>2. \E r : /\ \/ Loss
                \/ inbox' = Append(inbox, Answer(r)) /\ requests' = Tail(requests) /\ link' = link
             /\ owed' = IF q.how = "write" /\ q.on = "report-trigger" /\ Served(r)
                          THEN Reports ELSE owed
  BY DEF AnyServe
<1>3. PICK r : /\ \/ Loss
                  \/ inbox' = Append(inbox, Answer(r)) /\ requests' = Tail(requests) /\ link' = link
               /\ owed' = IF q.how = "write" /\ q.on = "report-trigger" /\ Served(r)
                            THEN Reports ELSE owed
  BY <1>2
<1> HIDE DEF q
<1>4. CASE Loss
  BY <1>1, <1>4, TornLoss
<1>5. CASE ~Loss
  <2>1. inbox' = inbox \o <<Answer(r)>> /\ requests' = Tail(requests) /\ link' = link
    BY <1>1, <1>3, <1>5, SeqAppend
  <2>2. /\ EndsAnswer(inbox \o <<Answer(r)>>)
        /\ NoReports(inbox) => NoReports(inbox \o <<Answer(r)>>)
    BY <1>1, OneMore, Zenon
  <2>3. EndsAnswer(inbox') /\ (NoReports(inbox) => NoReports(inbox'))
    BY <2>1, <2>2, Zenon
  <2>4. ~Triggers(q) => owed' = owed
    BY <1>3 DEF Triggers
  <2> QED BY <1>1, <2>1, <2>3, <2>4, TornAnswer DEF q
<1> QED BY <1>4, <1>5

LEMMA TornStep ==
  ASSUME TornInv, TellInv, ReportsInv, [MmsNext]_mmsVars
  PROVE  TornInv'
<1>1. CASE ClientStep
  <2>1. CASE Connects
    BY <2>1, TornConnect
  <2>2. CASE Prints
    BY <2>2, TornPrint DEF Prints
  <2>3. CASE Rounds
    <3>1. UNCHANGED <<association, tornVars, peer, owed>>
      BY <2>3 DEF Rounds, WaitRound, thread, history, tornVars
    <3> QED BY <3>1, TornQuiet
  <2>4. CASE (Send \/ Continue \/ WaitOver \/ Destroy) /\ UNCHANGED <<server, station>>
    BY <2>4, TornSend, TornContinue, TornWaitOver, TornDestroy
  <2> QED BY <1>1, <2>1, <2>2, <2>3, <2>4 DEF ClientStep
<1>2. CASE ThreadStep \/ TimeoutStep
  <2>1. UNCHANGED station
    BY <1>2 DEF ThreadStep, TimeoutStep
  <2>2. CASE ConnectionLost
    <3>1. UNCHANGED <<association, tornVars, peer, owed>>
      BY <2>1, <2>2 DEF ConnectionLost, thread, history, tornVars, station
    <3> QED BY <3>1, TornQuiet
  <2>3. CASE Receive \/ Drop \/ CallLost \/ Timeout \/ ReportBegin \/ ReportEnd
    BY <2>1, <2>3, TornReceive, TornDrop, TornGiveUp, TornReportBegin, TornReportEnd
  <2> QED BY <1>2, <2>2, <2>3 DEF ThreadStep, TimeoutStep, ConnectionThread
<1>3. CASE Cut
  <2>1. Loss /\ UNCHANGED <<tornVars, peer, owed>>
    BY <1>3 DEF Cut, client, thread, history, station, tornVars
  <2> QED BY <2>1, TornLoss
<1>4. CASE AnyServe
  BY <1>4, TornAnyServe
<1>5. CASE AnyReport
  BY <1>5, TornReport
<1>6. CASE ServerStep
  <2>1. UNCHANGED <<tornVars, peer, owed>> /\ peer = "c" /\ UNCHANGED <<client, station>>
    BY <1>6 DEF ServerStep, client, thread, history, station, tornVars
  <2>2. CASE Serve
    BY <2>1, <2>2, TornServe
  <2>3. CASE Load \/ Populate \/ Cleanup
    <3>1. UNCHANGED association
      BY <2>3 DEF Load, Populate, Cleanup
    <3> QED BY <2>1, <3>1, TornQuiet
  <2> QED BY <1>6, <2>2, <2>3 DEF ServerStep, Server
<1>7. CASE EnvironmentStep
  <2>1. UNCHANGED <<tornVars, peer, owed>>
    BY <1>7 DEF EnvironmentStep, client, thread, history, tornVars
  <2>2. CASE Stop \/ Killed
    <3>1. Loss
      BY <2>2 DEF Stop, Killed
    <3> QED BY <2>1, <3>1, TornLoss
  <2>3. CASE Start \/ StartFails \/ OtherWrite
    <3>1. UNCHANGED association
      BY <2>3 DEF Start, StartFails, OtherWrite
    <3> QED BY <2>1, <3>1, TornQuiet
  <2> QED BY <1>7, <2>2, <2>3 DEF EnvironmentStep, Environment
<1>8. CASE UNCHANGED mmsVars
  <2>1. UNCHANGED <<association, tornVars, peer, owed>>
    BY <1>8 DEF mmsVars, client, thread, history, station, tornVars
  <2> QED BY <2>1, TornQuiet
<1> QED
  BY <1>1, <1>2, <1>3, <1>4, <1>5, <1>6, <1>7, <1>8 DEF MmsNext, MmsProgress

LEMMA TornStart ==
  ASSUME MmsInit
  PROVE  TornInv
<1>1. /\ link = "off" /\ requests = << >> /\ main = "connect" /\ conn = 1 /\ pos = 1 /\ stale = 0
      /\ reporter = "idle" /\ torn = FALSE /\ peer \in {"c", "any"} /\ owed = 0
  BY DEF MmsInit, ClientInit
<1>2. TriggerPos = 78 /\ Len(requests) = 0
  BY <1>1, FullFacts
<1>3. Settled
  BY <1>1 DEF Settled
<1> QED BY <1>1, <1>2, <1>3 DEF TornInv, EarlyInv, LateInv, PlaceInv, WholeLines

(***************************************************************************)
(* No line of the C mms-client is torn (WholeLines): unless a call timed   *)
(* out, the connection thread never stands inside a report's line while    *)
(* the main thread prints one without g_out_mu, however many reports there *)
(* are and however slowly they come.                                       *)
(***************************************************************************)
THEOREM NoLineTorn == MmsSpec => []WholeLines
<1>1. MmsInit => TornInv /\ TellInv /\ ReportsInv
  BY TornStart, TellStart
<1>2. TornInv /\ TellInv /\ ReportsInv /\ [MmsNext]_mmsVars => (TornInv /\ TellInv /\ ReportsInv)'
  BY TornStep, TellStep, ReportsStep
<1>3. TornInv /\ TellInv /\ ReportsInv => WholeLines
  BY DEF TornInv
<1> QED
  BY <1>1, <1>2, <1>3, PTL DEF MmsSpec
=============================================================================
