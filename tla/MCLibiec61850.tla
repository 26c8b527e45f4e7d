--------------------------- MODULE MCLibiec61850 ---------------------------
(***************************************************************************)
(* The C programs over MMS, each group on its own: "mms" is the mms-client *)
(* with its peer, "ied" the ied-server with two programs, "values" the     *)
(* conversions of typed values, one sample at a time.                      *)
(***************************************************************************)
EXTENDS MmsStationC, IedStationC, TypedValues

VARIABLES
  program,
  sample        (* "values": a number that stands for a time or a word.    *)

vars == <<program, sample, mmsVars, iedVars>>

-----------------------------------------------------------------------------
(* Constants of the instance.                                              *)

Obj(type, value, writable) == [type |-> type, value |-> value, writable |-> writable]

Variables ==
  [boolean |-> Obj("boolean", <<1>>, TRUE), integer |-> Obj("integer", <<-123>>, TRUE),
   unsigned |-> Obj("unsigned", <<456>>, TRUE), float32 |-> Obj("float32", <<21>>, TRUE)]
  @@ ("visible-string" :> Obj("visible-string", <<1>>, TRUE))
  @@ ("octet-string" :> [type |-> "octet-string", value |-> <<13, 14, 10, 13>>])
  @@ ("bit-string" :> [type |-> "bit-string", value |-> <<1, 0, 1>>])
  @@ ("utc-time" :> [type |-> "utc-time", value |-> <<7>>])
  @@ ("array" :> [type |-> "array", elementType |-> "integer", count |-> 5, value |-> <<1, 2, 3, 4, 5>>])
  @@ ("structure" :> [type |-> "structure",
                      value |-> <<[type |-> "boolean", value |-> 1], [type |-> "integer", value |-> 42]>>])
  @@ ("array-rw" :> [type |-> "array", elementType |-> "integer", value |-> <<10, 20, 30, 40>>, writable |-> TRUE])
  @@ ("structure-rw" :> [type |-> "structure", writable |-> TRUE,
                         value |-> <<[type |-> "boolean", value |-> 0], [type |-> "integer", value |-> 5]>>])
  @@ ("report-trigger" :> Obj("integer", <<0>>, TRUE))

Entry(n) == [entryId |-> n, occurrenceTime |-> n, tag |-> "t", type |-> "integer", value |-> <<n>>]

Good ==
  [domains |-> TRUE,
   variables |-> Variables,
   journals |-> [log1 |-> [entries |-> <<Entry(1), Entry(2), Entry(3), Entry(4)>>]],
   reports |-> <<[variables |-> <<"integer", "boolean">>],
                 [vmdList |-> "interop-report", variables |-> <<"integer", "boolean">>]>>,
   files |-> ("REC01.CFG" :> [content |-> <<1, 2>>]) @@ ("REC01.DAT" :> [hex |-> <<0, 1, 0, 2, 0, 3>>])
             @@ ("LARGE.BIN" :> [size |-> 5]) @@ ("NOTIME.TXT" :> [content |-> <<9>>])
             @@ ("COMTRADE/REC02.CFG" :> [content |-> <<4>>])
             @@ ("DELETE.ME" :> [content |-> <<5>>]) @@ ("RENAME.ME" :> [content |-> <<6>>])]

(* A good fixture, one with two variables that are skipped, one refused.   *)
MCFixtures ==
  <<Good,
    [Good EXCEPT !.variables["boolean"] = [type |-> "boolean"], !.variables["integer"].type = "int128"],
    [Good EXCEPT !.files["REC01.DAT"] = [hex |-> <<1, Bad>>]]>>

MCOtherWrites ==
  {Write("octet-string", << >>, Scalar("octet-string", 1)), Write("float32", << >>, Scalar("float32", 5)),
   Write("array", <<1>>, IntOf(8)), Write("array-rw", <<9>>, IntOf(8)),
   Write("array", <<1, 2>>, IntsOf(<<8, 8>>)), Write("structure-rw", <<1>>, IntOf(8))}

Role(kind, on, arg) == [kind |-> kind, on |-> on, arg |-> arg]
Two(a, b) == [p1 |-> a, p2 |-> b]

MCCasts ==
  {Two(Role("controller", o, TRUE), Role("controller", o, FALSE)) : o \in {"SPCSO2", "SPCSO3"}}
  \cup {Two(Role("controller", "SPCSO1", TRUE), Role("controller", "SPCSO3", TRUE))}
  \cup {Two(Role("reporter", "", i), Role("client", "", FALSE)) : i \in BOOLEAN}
  \cup {Two(Role("reporter", "", FALSE), Role("reporter", "", FALSE)), << >>}

MCDirectories == {<<"InteropLD">>, <<"Other", "InteropIEDInteropLD">>, << >>}

Text(secs, digits, zulu) == [secs |-> secs, digits |-> digits, zulu |-> zulu]

TypedSamples ==
  <<Typed("boolean", "boolean", TRUE), Typed("boolean", "int", 1), Typed("integer", "int", -5),
    Typed("unsigned", "int", UnsignedEnd - 1), Typed("unsigned", "int", UnsignedEnd),
    Typed("unsigned", "int", -1), Typed("float32", "double", 7), Typed("float64", "int", 7),
    Typed("float32", "string", << >>), Typed("visible-string", "string", <<1>>),
    Typed("mms-string", "string", << >>), Typed("octet-string", "string", <<13, 14, 10, 13>>),
    Typed("octet-string", "string", <<13, 14, 10>>), Typed("octet-string", "string", <<13, Wrong>>),
    Typed("bit-string", "string", <<1, 0, 1>>), Typed("bit-string", "string", <<2>>),
    Typed("utc-time", "string", Text(1, <<9, 9, 9, 6>>, TRUE)), Typed("utc-time", "string", Text(1, <<5>>, FALSE)),
    Typed("binary-time", "string", Text(1, << >>, TRUE)),
    Typed("utc-time", "string", Text(9, << >>, TRUE)), Typed("binary-time", "string", Text(6, << >>, TRUE)),
    Typed("binary-time", "string", Text(2, <<0, 0, 0, 4, 9, 9, 9, 9, 9, 9>>, TRUE)),
    Typed("array", "array", <<Typed("integer", "int", 1), Typed("integer", "int", 2)>>),
    Typed("structure", "array", <<Typed("array", "array", <<Typed("boolean", "boolean", FALSE)>>)>>),
    Typed("structure", "array", <<Typed("boolean", "boolean", TRUE), Typed("bcd", "int", 1)>>),
    [type |-> "integer"], Typed("structure", "int", 1)>>

-----------------------------------------------------------------------------

Init ==
  /\ program \in {"mms", "ied", "values"}
  /\ sample \in IF program = "values" THEN 0 .. 8191 ELSE {0}
  /\ MmsInit /\ (program # "mms" => peer = "any")
  /\ IedInit /\ (cast = << >> <=> program # "ied") /\ (program # "ied" => lds = << >>)

MmsOnly(A) == program = "mms" /\ A /\ UNCHANGED <<program, sample, iedVars>>
IedOnly(A) == program = "ied" /\ A /\ UNCHANGED <<program, sample, mmsVars>>

Progress == MmsOnly(MmsProgress) \/ IedOnly(IedProgress)

Next == MmsOnly(MmsNext) \/ IedOnly(IedNext)

(* The programs, the library's threads and the network go on.              *)
Spec == Init /\ [][Next]_vars /\ WF_vars(Progress)

-----------------------------------------------------------------------------

(***************************************************************************)
(* The conversions of goose_common.c and sv_common.c keep what they are    *)
(* given: every kind of value, every millisecond of eight seconds (which   *)
(* begin before the first and end behind the last BinaryTime and UtcTime), *)
(* times on the wire spread over the second, and every quality.            *)
(***************************************************************************)
ConversionsKeep ==
  program = "values" =>
    /\ sample = 0 => \A i \in DOMAIN TypedSamples : ValueKept(TypedSamples[i])
    /\ TimeKept(sample, 2048 * sample + 2047)
    /\ QualityKept(sample)

(* An answer in a loop of the mms-client announces more: another name, or  *)
(* another piece of a file.                                                *)
Fed ==
  /\ main = "print" /\ resp.err = "none" /\ resp.more
  /\ cur.how = "file" \/ (cur.how = "directory" /\ LastName # cur.on)

(***************************************************************************)
(* Every C client ends, however its requests are answered and whether or   *)
(* not the reports it waits for come, with one exception: a server (not    *)
(* the C one) that announces more for ever keeps it.  file_directory gives *)
(* up only when a page ends with the name the page before ended with,      *)
(* file_read does not look at what it is given.                            *)
(***************************************************************************)
ProgramsEnd ==
  \/ <>(IF program = "ied" THEN \A p \in Procs : phase[p] = "exit"
        ELSE program = "mms" => main = "exit")
  \/ peer = "any" /\ []<>Fed
=============================================================================
