----------------------------- MODULE IedServerC -----------------------------
(***************************************************************************)
(* The libiec61850 (C) ied-server and the associations of the programs     *)
(* that use it.  The adapter sets initial values, the write policy and the *)
(* control handlers; libiec61850 keeps the selections of the control       *)
(* objects and the report control block urcb01, and sends one PDU after    *)
(* the other to each client.  The go-iec61850 server the controller and    *)
(* the reporter are written for differs in the name of its logical device. *)
(***************************************************************************)
EXTENDS Integers, Sequences, FiniteSets, SequencesExt

CONSTANTS
  Casts,        (* Who runs: program -> [kind, on, arg].                   *)
  Directories,  (* What a server may list: sequences of logical devices.   *)
  MaxTrouble    (* Bound: timeouts, lost connections and stops.            *)

Nobody == "nobody"
NoName == ""

VARIABLES
  cast, lds,    (* The programs, and the logical devices of the server.    *)
  ied,          (* "down", "up" or "gone".                                 *)
  data,         (* The attributes.                                         *)
  sbo,          (* Selections: control object -> [owner, num].             *)
  rcb,          (* urcb01: [owner, seq, changed].                          *)
  trouble,
  joined,       (* Program -> "off", "up" or "lost".                       *)
  asked, pdus,  (* Requests to the server, PDUs to the program.            *)
  sent          (* History: reports sent to each program.                  *)

iedServer == <<cast, lds, ied, data, sbo, rcb, sent>>
wires == <<joined, asked, pdus>>

Procs == DOMAIN cast
HasModel == {"InteropLD", "InteropIEDInteropLD"}

(* A server has its model in one logical device; a controller is told one  *)
(* of its control objects, and a value.                                    *)
ASSUME IedAssumption ==
  /\ \A names \in Directories : names \in Seq(ToSet(names)) /\ ~(HasModel \subseteq ToSet(names))
  /\ \A roles \in Casts : \A p \in DOMAIN roles :
       /\ p # Nobody
       /\ roles[p].kind \in {"controller", "client", "reporter"}
       /\ roles[p].kind # "client" => roles[p].arg \in BOOLEAN
       /\ roles[p].kind = "controller" => roles[p].on \in {"SPCSO1", "SPCSO2", "SPCSO3"}

ld == IF \E n \in HasModel : n \in ToSet(lds) THEN CHOOSE n \in HasModel : n \in ToSet(lds) ELSE NoName

Trouble == trouble < MaxTrouble /\ trouble' = trouble + 1

-----------------------------------------------------------------------------

(* set_initial_values.                                                     *)
InitialValues ==
  [Mod |-> 1, ModCtl |-> 1, ModD |-> "mode", Beh |-> 1, SPS1 |-> FALSE, SPS1D |-> "status point",
   DPS1 |-> 2, SPCSO1 |-> FALSE, SPCSO2 |-> FALSE, SPCSO3 |-> FALSE, TotW |-> 1234, TotVAh |-> 42,
   SetInt1 |-> 0]

ctlModel == [SPCSO1 |-> 1, SPCSO2 |-> 2, SPCSO3 |-> 4]

(* Functional constraints, and those main allows writes to.                *)
Constraint(on) ==
  CASE on \in {"Mod", "Beh", "SPS1", "DPS1", "TotVAh", "SPCSO1", "SPCSO2", "SPCSO3"} -> "ST"
    [] on = "ModCtl" -> "CF" [] on \in {"ModD", "SPS1D"} -> "DC"
    [] on = "TotW" -> "MX" [] on = "SetInt1" -> "SP"

WriteAllowed == {"CF", "DC", "SP", "ST"}

(* The data set of urcb01.                                                 *)
dsInterop == <<"SPS1", "Mod">>

-----------------------------------------------------------------------------
(* What libiec61850 answers to the request q of p.                         *)

Free(x, p) == x.owner \in {Nobody, p}

(* In the logical device of the model.                                     *)
Permits(p, q) ==
  CASE q.how = "read" -> q.on \in DOMAIN data
    [] q.how = "write" -> q.on \in DOMAIN data /\ Constraint(q.on) \in WriteAllowed
    [] q.how = "select" -> ctlModel[q.on] = 2 /\ Free(sbo[q.on], p)
    [] q.how = "select-with-value" -> ctlModel[q.on] = 4 /\ Free(sbo[q.on], p)
    [] q.how = "operate" ->
         CASE ctlModel[q.on] = 1 -> TRUE
           [] ctlModel[q.on] = 2 -> sbo[q.on].owner = p
           [] OTHER -> sbo[q.on] = [owner |-> p, num |-> q.num]
    [] q.how = "enable-rcb" -> Free(rcb, p)
    [] q.how = "disable-rcb" -> rcb.owner = p
    [] OTHER -> TRUE

Grants(p, q) ==
  CASE q.how = "get-server-directory" -> TRUE
    [] q.how = "get-ld-directory" -> q.ld \in ToSet(lds)
    [] OTHER -> q.ld = ld /\ Permits(p, q)

Returns(q) ==
  CASE q.how = "get-server-directory" -> lds
    [] q.how = "read" -> <<data[q.on]>>
    [] q.how = "read-ctlmodel" -> <<ctlModel[q.on]>>
    [] q.how = "get-rcb" -> <<rcb.owner # Nobody>>
    [] q.how = "read-dataset" -> [i \in DOMAIN dsInterop |-> data[dsInterop[i]]]
    [] OTHER -> << >>

(* spcso1_, spcso2_ and spcso3_control_handler: an operation that is no    *)
(* test puts ctlVal into stVal.                                            *)
control_handler(on, ctlVal) == [data EXCEPT ![on] = ctlVal]

DataAfter(q) ==
  CASE q.how = "write" -> [data EXCEPT ![q.on] = q.val]
    [] q.how = "operate" -> control_handler(q.on, q.val)
    [] OTHER -> data

SboAfter(p, q) ==
  CASE q.how \in {"select", "select-with-value"} -> [sbo EXCEPT ![q.on] = [owner |-> p, num |-> q.num]]
    [] q.how = "operate" /\ q.on \in DOMAIN sbo -> [sbo EXCEPT ![q.on].owner = Nobody]
    [] OTHER -> sbo

RcbAfter(p, q) ==
  CASE q.how = "enable-rcb" -> [owner |-> p, seq |-> 0, changed |-> {}]
    [] q.how = "disable-rcb" -> [rcb EXCEPT !.owner = Nobody, !.changed = {}]
    [] q.how = "write" /\ q.on \in ToSet(dsInterop) /\ data[q.on] # q.val /\ rcb.owner # Nobody ->
         [rcb EXCEPT !.changed = @ \cup {q.on}]
    [] OTHER -> rcb

(* A connection thread of the server performs the next request of p.       *)
Perform(p) ==
  /\ ied = "up" /\ joined[p] = "up" /\ asked[p] # << >>
  /\ LET q == Head(asked[p])
         ok == Grants(p, q)
     IN  /\ data' = IF ok THEN DataAfter(q) ELSE data
         /\ sbo' = IF ok THEN SboAfter(p, q) ELSE sbo
         /\ rcb' = IF ok THEN RcbAfter(p, q) ELSE rcb
         /\ pdus' = [pdus EXCEPT ![p] =
              Append(@, [kind |-> "answer", ok |-> ok, value |-> IF ok THEN Returns(q) ELSE << >>])]
  /\ asked' = [asked EXCEPT ![p] = Tail(@)]
  /\ UNCHANGED <<cast, lds, ied, trouble, joined, sent>>

(* The server's own thread sends what changed since the last report.       *)
SendReport ==
  /\ ied = "up" /\ rcb.owner # Nobody /\ rcb.changed # {}
  /\ LET r == [kind |-> "report", seq |-> rcb.seq, incl |-> rcb.changed,
               value |-> [n \in rcb.changed |-> data[n]]]
     IN  /\ pdus' = [pdus EXCEPT ![rcb.owner] = Append(@, r)]
         /\ sent' = [sent EXCEPT ![rcb.owner] = Append(@, r)]
  /\ rcb' = [rcb EXCEPT !.seq = @ + 1, !.changed = {}]
  /\ UNCHANGED <<cast, lds, ied, data, sbo, trouble, joined, asked>>

(* What libiec61850 gives up when the association of ps ends.              *)
Released(ps) ==
  /\ sbo' = [n \in DOMAIN sbo |-> IF sbo[n].owner \in ps THEN [sbo[n] EXCEPT !.owner = Nobody] ELSE sbo[n]]
  /\ rcb' = IF rcb.owner \in ps THEN [rcb EXCEPT !.owner = Nobody, !.changed = {}] ELSE rcb
  /\ asked' = [p \in Procs |-> IF p \in ps THEN << >> ELSE asked[p]]
  /\ pdus' = [p \in Procs |-> IF p \in ps THEN << >> ELSE pdus[p]]

(* The associations of ps are lost.                                        *)
Break(ps) ==
  /\ Trouble
  /\ joined' = [p \in Procs |-> IF p \in ps THEN "lost" ELSE joined[p]]
  /\ Released(ps)

CutOff(p) == joined[p] = "up" /\ Break({p}) /\ UNCHANGED <<cast, lds, ied, data, sent>>

(* main up to "ready".                                                     *)
StartServer ==
  /\ ied = "down" /\ ied' = "up"
  /\ data' = InitialValues
  /\ UNCHANGED <<cast, lds, sbo, rcb, trouble, wires, sent>>

(* sig_handler ends main's loop; IedServer_stop closes the connections.    *)
StopServer ==
  /\ ied = "up" /\ ied' = "gone"
  /\ Break({p \in Procs : joined[p] = "up"})
  /\ UNCHANGED <<cast, lds, data, sent>>

IedServerInit ==
  /\ cast \in Casts /\ lds \in Directories
  /\ ied = "down" /\ data = << >>
  /\ sbo = [n \in {"SPCSO2", "SPCSO3"} |-> [owner |-> Nobody, num |-> 0]]
  /\ rcb = [owner |-> Nobody, seq |-> 0, changed |-> {}]
  /\ trouble = 0
  /\ joined = [p \in Procs |-> "off"]
  /\ asked = [p \in Procs |-> << >>] /\ pdus = asked /\ sent = asked
=============================================================================
