----------------------------- MODULE MmsFixtureC -----------------------------
(***************************************************************************)
(* How the C mms-server loads its fixture (fixture.c): from JSON to        *)
(* variables with a type specification, an access right and a value, and   *)
(* to files, journals and reports.  A JSON object is a record whose domain *)
(* is the set of keys it has; names are strings.  The fixture has one      *)
(* domain, as fixtures/mms/interop.json.                                   *)
(*                                                                         *)
(* A JSON scalar is a sequence: of one number, or of the hex digits or     *)
(* bits of a string, Bad standing for any other character.  Texts are      *)
(* numbered, floats are counted in parts of Ulp.                           *)
(***************************************************************************)
EXTENDS Integers, SequencesExt

CONSTANTS
  Word,         (* Number of values of an int32_t (2^32).                  *)
  Ulp           (* What a float32 rounds to.                               *)

ASSUME FixtureAssumption == {Word, Ulp} \subseteq Nat \ {0}

Null == [type |-> "NULL"]      (* A NULL pointer.                          *)
Bad == -1

Scalars == {"boolean", "integer", "unsigned", "float32", "visible-string",
            "octet-string", "bit-string", "utc-time"}

Has(obj, key) == key \in DOMAIN obj

(* The bytes of a hex string; NULL, here Bad, for an odd or other string.  *)
hex_decode(s) ==
  IF Len(s) % 2 = 1 \/ Bad \in Range(s) THEN <<Bad>>
  ELSE [i \in 1 .. Len(s) \div 2 |-> 16 * s[2 * i - 1] + s[2 * i]]

(* Milliseconds of a time; 0 for a string that is none.                    *)
parse_utc_ms(s) == IF s = Bad THEN 0 ELSE s

(* Type and element types: what a client is told of a variable.            *)
make_spec(type) ==
  IF type \in Scalars \cup {"array", "structure"} THEN [type |-> type, elems |-> << >>] ELSE Null

Signed(n) == ((n + Word \div 2) % Word) - Word \div 2

(* The value of a scalar; arrays and structures are the caller's.          *)
make_value(type, j) ==
  IF type \notin Scalars THEN Null
  ELSE [type |-> type, elems |-> << >>,
        v |-> CASE type = "boolean" -> <<IF j[1] # 0 THEN 1 ELSE 0>>
                [] type = "integer" -> <<Signed(j[1])>>
                [] type = "unsigned" -> <<j[1] % Word>>
                [] type = "float32" -> <<(j[1] \div Ulp) * Ulp>>
                [] type = "octet-string" ->
                     IF hex_decode(j) = <<Bad>> THEN << >> ELSE hex_decode(j)
                [] type = "bit-string" -> [i \in 1 .. Len(j) |-> IF j[i] = 1 THEN 1 ELSE 0]
                [] type = "utc-time" -> <<parse_utc_ms(j[1])>>
                [] OTHER -> j]

(* The number of elements is the fixture's "count", if it has a good one.  *)
build_array_spec(obj) ==
  LET count == IF Has(obj, "count") /\ obj.count > 0 THEN obj.count ELSE Len(obj.value)
  IN  IF make_spec(obj.elementType) = Null THEN Null
      ELSE [type |-> "array", elems |-> [i \in 1 .. count |-> obj.elementType]]

build_array_value(obj) ==
  LET elem(i) == make_value(obj.elementType, <<obj.value[i]>>)
  IN  IF \E i \in DOMAIN obj.value : elem(i) = Null THEN Null
      ELSE [type |-> "array", elems |-> [i \in DOMAIN obj.value |-> obj.elementType],
            v |-> [i \in DOMAIN obj.value |-> elem(i).v[1]]]

build_structure_spec(jcomps) ==
  IF \E i \in DOMAIN jcomps : ~Has(jcomps[i], "type") \/ make_spec(jcomps[i].type) = Null THEN Null
  ELSE [type |-> "structure", elems |-> [i \in DOMAIN jcomps |-> jcomps[i].type]]

build_structure_value(jcomps) ==
  LET elem(i) == make_value(jcomps[i].type, <<jcomps[i].value>>)
  IN  IF \E i \in DOMAIN jcomps : ~Has(jcomps[i], "value") \/ elem(i) = Null THEN Null
      ELSE [type |-> "structure", elems |-> [i \in DOMAIN jcomps |-> jcomps[i].type],
            v |-> [i \in DOMAIN jcomps |-> elem(i).v[1]]]

(* One variable of the fixture; Null is skipped with a message.            *)
load_variable(obj) ==
  LET composite == Has(obj, "type") /\ obj.type \in {"array", "structure"}
      spec == CASE ~composite -> make_spec(obj.type)
                [] obj.type = "array" ->
                     IF Has(obj, "elementType") THEN build_array_spec(obj) ELSE Null
                [] OTHER -> build_structure_spec(obj.value)
      value == CASE ~composite -> make_value(obj.type, obj.value)
                 [] obj.type = "array" -> build_array_value(obj)
                 [] OTHER -> build_structure_value(obj.value)
  IN  IF ~Has(obj, "type") \/ ~Has(obj, "value") THEN Null
      ELSE IF spec = Null THEN Null
      ELSE IF value = Null THEN Null
      ELSE [type |-> "variable", spec |-> spec, value |-> value,
            writable |-> Has(obj, "writable") /\ obj.writable]

(* The file's bytes; Null fails the whole fixture.                         *)
load_file(obj) ==
  CASE Has(obj, "content") -> [type |-> "file", data |-> obj.content]
    [] Has(obj, "hex") /\ ~Has(obj, "content") ->
         IF hex_decode(obj.hex) = <<Bad>> THEN Null
         ELSE [type |-> "file", data |-> hex_decode(obj.hex)]
    [] Has(obj, "size") /\ ~Has(obj, "content") /\ ~Has(obj, "hex") ->
         [type |-> "file", data |-> [i \in 1 .. obj.size |-> (i - 1) % 251]]
    [] OTHER -> Null

(* An entry of a journal, complete and with a good value or Null.          *)
load_entry(obj) ==
  IF {"entryId", "occurrenceTime", "tag", "type", "value"} \subseteq DOMAIN obj
    THEN LET value == make_value(obj.type, obj.value)
         IN  IF value = Null THEN Null
             ELSE [type |-> "entry", entry_id |-> obj.entryId,
                   time_ms |-> parse_utc_ms(obj.occurrenceTime), value |-> value]
    ELSE Null

load_journal(obj) ==
  IF ~Has(obj, "entries") THEN Null
  ELSE IF \E i \in DOMAIN obj.entries : load_entry(obj.entries[i]) = Null THEN Null
  ELSE [type |-> "journal", entries |-> [i \in DOMAIN obj.entries |-> load_entry(obj.entries[i])]]

(* A report without "vmdList" has the listOfVariable form.                 *)
load_report(obj) ==
  IF ~Has(obj, "variables") THEN Null
  ELSE [type |-> "report", vmd_list |-> Has(obj, "vmdList"), variables |-> obj.variables]

(* The model the server is built from.  A bad file, report or journal      *)
(* fails the load; a bad variable is left out.                             *)
fixture_load(root) ==
  LET files == [n \in DOMAIN root.files |-> load_file(root.files[n])]
      journals == [n \in DOMAIN root.journals |-> load_journal(root.journals[n])]
      reports == [i \in DOMAIN root.reports |-> load_report(root.reports[i])]
      vars == [n \in DOMAIN root.variables |-> load_variable(root.variables[n])]
  IN  IF \/ ~root.domains
         \/ \E n \in DOMAIN files : files[n] = Null
         \/ \E n \in DOMAIN journals : journals[n] = Null
         \/ \E i \in DOMAIN reports : reports[i] = Null
      THEN Null
      ELSE [type |-> "fixture",
            files |-> [n \in DOMAIN files |-> files[n].data],
            journals |-> journals, reports |-> reports,
            vars |-> [n \in {n \in DOMAIN vars : vars[n] # Null} |-> vars[n]]]
=============================================================================
