---------------------------- MODULE TypedValues ----------------------------
(***************************************************************************)
(* The typed values of the C GOOSE and SV programs: JSON to MmsValue       *)
(* (goose_value_from_json, publisher) and back (goose_value_to_json,       *)
(* subscriber), with the times and the quality bits.                       *)
(*                                                                         *)
(* JSON is [json, v].  A text is given by what the code looks for in it:   *)
(* hex digits and bits as sequences of numbers (Wrong is any other         *)
(* character), a time as [secs, digits, zulu].  Floats count the smallest  *)
(* float32 step.                                                           *)
(***************************************************************************)
EXTENDS Integers, Sequences, SequencesExt

CONSTANTS
  UnsignedEnd,  (* 2^32, scaled down.                                      *)
  Step32,       (* float32 keeps multiples of it, float64 every value.     *)
  SecsEnd,      (* Seconds a UtcTime counts (2^32), scaled down like the   *)
                (* next three, which are about BinaryTime:                 *)
  Epoch84,      (* its epoch, in seconds (441763200, 1984-01-01),          *)
  DaySecs,      (* the seconds of a day,                                   *)
  DaysEnd       (* and the days it counts (2^16).                          *)

Wrong == -1
NoValue == [mms |-> "none"]

-----------------------------------------------------------------------------
(* Times.                                                                  *)

(* Mutant: the fraction is cut off.                                        *)
MsMutant(ns) == ns \div 1000000

(* Nanoseconds to milliseconds, rounded.                                   *)
Ms(ns) == (ns + 500000) \div 1000000

Number(digits) == FoldLeft(LAMBDA n, d : 10 * n + d, 0, digits)

(* Up to nine digits count, missing ones are zero.                         *)
Nanoseconds(digits) ==
  LET used == SubSeq(digits, 1, IF Len(digits) < 9 THEN Len(digits) ELSE 9)
  IN  Number(used) * 10 ^ (9 - Len(used))

(* The milliseconds of a text, or Wrong (times from 1970 on).              *)
parse_time_ms(t) == IF ~t.zulu THEN Wrong ELSE t.secs * 1000 + Ms(Nanoseconds(t.digits))

DigitsOf(n, len) == [i \in 1 .. len |-> (n \div 10 ^ (len - i)) % 10]

format_time_ms(ms) == [secs |-> ms \div 1000, digits |-> DigitsOf(ms % 1000, 3), zulu |-> TRUE]

(* libiec61850: a UtcTime has 32 bits of seconds and 24 of fraction.       *)
MmsValue_newUtcTimeByMsTime(ms) ==
  LET rest == ms % 1000
  IN  [secs |-> (ms \div 1000) % SecsEnd, frac |-> rest * 16777 + (rest * 216) \div 1000]

(* libiec61850: a BinaryTime has 16 bits of days and the ms of the day.    *)
DayMs == DaySecs * 1000

MmsValue_setBinaryTime(ms) ==
  LET since == ms - Epoch84 * 1000
  IN  [days |-> (since \div DayMs) % DaysEnd, ms |-> since % DayMs]

MmsValue_getBinaryTimeAsUtcMs(time) == Epoch84 * 1000 + time.days * DayMs + time.ms

(* (frac * 10^9) >> 24, in 32 bits.                                        *)
NsOf(frac) ==
  LET a == frac \div 32768
      b == frac % 32768
  IN  a * 1953125 + b * 59 + (b * 19813) \div 32768

utc_ms_rounded(raw) == raw.secs * 1000 + Ms(NsOf(raw.frac))

(* All nine digits but the zeros at the end.                               *)
sv_format_ns(secs, ns) ==
  LET all == DigitsOf(ns, 9)
      len == CHOOSE n \in 0 .. 9 : /\ \A i \in n + 1 .. 9 : all[i] = 0
                                   /\ n = 0 \/ all[n] # 0
  IN  [secs |-> secs, digits |-> SubSeq(all, 1, len), zulu |-> TRUE]

goose_format_utc_ns(raw) == sv_format_ns(raw.secs, NsOf(raw.frac))

-----------------------------------------------------------------------------
(* Values.                                                                 *)

Nearest32(x) == Step32 * ((x + Step32 \div 2) \div Step32)

Octets(s) == [i \in 1 .. Len(s) \div 2 |-> s[2 * i - 1] * 16 + s[2 * i]]
HexDigits(b) == [i \in 1 .. 2 * Len(b) |-> IF i % 2 = 1 THEN b[(i + 1) \div 2] \div 16 ELSE b[i \div 2] % 16]

Typed(type, json, v) == [type |-> type, value |-> [json |-> json, v |-> v]]
Mms(mms, v) == [mms |-> mms, v |-> v]

RECURSIVE goose_value_from_json(_)
goose_value_from_json(typed) ==
  LET jv == typed.value
      is(kind) == jv.json = kind
      elem(i) == goose_value_from_json(jv.v[i])
      good ==
        CASE typed.type = "boolean" -> is("boolean")
          [] typed.type = "integer" -> is("int")
          [] typed.type = "unsigned" -> is("int") /\ jv.v >= 0 /\ jv.v < UnsignedEnd
          [] typed.type \in {"float32", "float64"} -> is("double") \/ is("int")
          [] typed.type \in {"visible-string", "mms-string"} -> is("string")
          [] typed.type = "octet-string" ->
               is("string") /\ Len(jv.v) % 2 = 0 /\ \A i \in DOMAIN jv.v : jv.v[i] \in 0 .. 15
          [] typed.type = "bit-string" -> is("string") /\ \A i \in DOMAIN jv.v : jv.v[i] \in 0 .. 1
          [] typed.type \in {"utc-time", "binary-time"} -> is("string") /\ parse_time_ms(jv.v) # Wrong
          [] typed.type \in {"array", "structure"} ->
               is("array") /\ \A i \in DOMAIN jv.v : elem(i) # NoValue
          [] OTHER -> FALSE
  IN  IF {"type", "value"} \subseteq DOMAIN typed /\ good
        THEN Mms(typed.type,
                 CASE typed.type = "float32" -> Nearest32(jv.v)
                   [] typed.type = "octet-string" -> Octets(jv.v)
                   [] typed.type = "utc-time" -> MmsValue_newUtcTimeByMsTime(parse_time_ms(jv.v))
                   [] typed.type = "binary-time" -> MmsValue_setBinaryTime(parse_time_ms(jv.v))
                   [] typed.type \in {"array", "structure"} -> [i \in DOMAIN jv.v |-> elem(i)]
                   [] OTHER -> jv.v)
        ELSE NoValue

(* All the values of a publisher's command, or none.                       *)
goose_values_from_json(array) ==
  LET vs == [i \in DOMAIN array |-> goose_value_from_json(array[i])]
  IN  IF \E i \in DOMAIN vs : vs[i] = NoValue THEN << >> ELSE vs

RECURSIVE goose_value_to_json(_)
goose_value_to_json(v) ==
  CASE v.mms = "boolean" -> Typed(v.mms, "boolean", v.v)
    [] v.mms \in {"integer", "unsigned"} -> Typed(v.mms, "int", v.v)
    [] v.mms \in {"float32", "float64"} -> Typed(v.mms, "double", v.v)
    [] v.mms \in {"visible-string", "mms-string", "bit-string"} -> Typed(v.mms, "string", v.v)
    [] v.mms = "octet-string" -> Typed(v.mms, "string", HexDigits(v.v))
    [] v.mms = "utc-time" -> Typed(v.mms, "string", format_time_ms(utc_ms_rounded(v.v)))
    [] v.mms = "binary-time" -> Typed(v.mms, "string", format_time_ms(MmsValue_getBinaryTimeAsUtcMs(v.v)))
    [] v.mms \in {"array", "structure"} ->
         Typed(v.mms, "array", [i \in DOMAIN v.v |-> goose_value_to_json(v.v[i])])

-----------------------------------------------------------------------------
(* Quality: 13 bits of a word.                                             *)

sv_quality_from_value(bits) ==
  FoldLeft(LAMBDA q, i : q + bits[i] * 2 ^ (i - 1), 0,
           [i \in 1 .. (IF Len(bits) < 13 THEN Len(bits) ELSE 13) |-> i])

sv_quality_to_value(word) == [i \in 1 .. 13 |-> (word \div 2 ^ (i - 1)) % 2]

-----------------------------------------------------------------------------

(* A time type can hold these milliseconds.                                *)
Holds(type, ms) ==
  IF type = "utc-time" THEN ms < SecsEnd * 1000
  ELSE Epoch84 * 1000 <= ms /\ ms < Epoch84 * 1000 + DaysEnd * DayMs

(***************************************************************************)
(* What a subscriber prints is what the publisher was given: a value that  *)
(* goose_value_from_json accepts comes back with its type and unchanged (a *)
(* float32 as the float it was made).  Times are the exception: they are   *)
(* accepted whether or not their type can hold them, and come back to the  *)
(* millisecond exactly if it can.  A list with one bad element is refused  *)
(* as a whole.                                                             *)
(***************************************************************************)
ValueKept(typed) ==
  LET v == goose_value_from_json(typed)
      back == goose_value_to_json(v)
  IN  IF v = NoValue THEN goose_values_from_json(<<Typed("boolean", "boolean", TRUE), typed>>) = << >>
      ELSE /\ back.type = typed.type /\ goose_value_from_json(back) = v
           /\ CASE typed.type \in {"utc-time", "binary-time"} ->
                     LET given == parse_time_ms(typed.value.v)
                     IN  parse_time_ms(back.value.v) = given <=> Holds(typed.type, given)
                [] typed.type \in {"float32", "array", "structure"} -> TRUE
                [] OTHER -> back.value.v = typed.value.v

(***************************************************************************)
(* A time given to the millisecond is printed to the same millisecond, if  *)
(* its type can hold it: through the 24 bits of fraction of a UtcTime, or  *)
(* the days and milliseconds of a BinaryTime, and back.  The two ways of   *)
(* printing a UtcTime, in values and in "t", mean the same millisecond.    *)
(***************************************************************************)
TimeKept(ms, frac) ==
  /\ \A type \in {"utc-time", "binary-time"} : ValueKept(Typed(type, "string", format_time_ms(ms)))
  /\ LET raw == [secs |-> 1, frac |-> frac]
     IN  parse_time_ms(goose_format_utc_ns(raw)) = utc_ms_rounded(raw)

(***************************************************************************)
(* Quality words and their 13 bits correspond one to one; bits beyond the  *)
(* thirteenth are ignored.                                                 *)
(***************************************************************************)
QualityKept(word) ==
  LET bits == sv_quality_to_value(word)
  IN  sv_quality_from_value(bits) = word % 8192 /\ sv_quality_from_value(bits \o <<1>>) = word % 8192
=============================================================================
