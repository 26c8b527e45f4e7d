--------------------------- MODULE MmsAssociation ---------------------------
(***************************************************************************)
(* One association between an MMS client and a server, as libiec61850      *)
(* gives it to both: a request at a time, and PDUs to the client in the    *)
(* order they were sent.                                                   *)
(***************************************************************************)
EXTENDS Integers, Sequences

CONSTANT
  MaxFaults     (* Bound: disturbances, of any kind, in one behaviour.     *)

VARIABLES
  link,         (* "off", "up" or "lost".                                  *)
  requests,     (* Requests on their way to the server.                    *)
  inbox,        (* PDUs on their way to the client.                        *)
  faults        (* Disturbances so far.                                    *)

association == <<link, requests, inbox>>

(* Something outside the two programs interferes.                          *)
Disturb == faults < MaxFaults /\ faults' = faults + 1

(* A call: the service, the rule its line follows, the object, the         *)
(* elements addressed, the values written.                                 *)
Call(how, say, on, at, vals) == [how |-> how, say |-> say, on |-> on, at |-> at, vals |-> vals]

(* A name of no characters.                                                *)
EmptyName == ""

(* What a call returns: the MmsError, the result of each item, the values  *)
(* read or the names listed, and moreFollows.                              *)
Result(err, items, data, more) == [err |-> err, items |-> items, data |-> data, more |-> more]

Refused(err) == Result(err, << >>, << >>, FALSE)
Done(items, data) == Result("none", items, data, FALSE)

Success == "success"

Report == [kind |-> "report", result |-> Done(<<Success>>, << >>)]
Answer(r) == [kind |-> "answer", result |-> r]

(* The service was performed, on every item.                               *)
Served(r) == r.err = "none" /\ \A i \in DOMAIN r.items : r.items[i] = Success
=============================================================================
