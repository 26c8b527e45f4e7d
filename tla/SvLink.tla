------------------------------- MODULE SvLink -------------------------------
(***************************************************************************)
(* One SV stream from publisher to subscriber over a link that may lose    *)
(* frames, deliver one twice or deliver an old one late.  The publisher    *)
(* numbers its ASDUs 0 .. Wrap - 1 and over again; the three subscribers   *)
(* count what arrives.  What they call lost is compared with what the link *)
(* really lost.                                                            *)
(***************************************************************************)
EXTENDS SvCounting

CONSTANTS
  Wrap,         (* Where the publisher's smpCnt wraps.                     *)
  MaxBurst,     (* Longest run of ASDUs lost in a row.                     *)
  MaxDropped,   (* Bound: ASDUs lost in all.                               *)
  MaxLate,      (* Bound: ASDUs received late.                             *)
  MaxAsdus      (* Bound: ASDUs received.                                  *)

ASSUME LinkAssumption ==
  /\ Wrap \in Nat \ {0}
  /\ MaxBurst \in Nat
  /\ MaxDropped \in Nat
  /\ MaxDropped < U64
  /\ Wrap < U32
  /\ MaxLate \in Nat
  /\ MaxAsdus \in Nat

VARIABLES
  w,            (* The fixture's smpCntWrap; 0 if it lacks the stream.     *)
  smpCnt,       (* smpCnt of the publisher's next ASDU.                    *)
  gap,          (* ASDUs lost since the last one that was delivered.       *)
  dropped,      (* ASDUs lost between the first and the last delivered.    *)
  delivered,    (* ASDUs delivered, each counted once.                     *)
  repeated,     (* ASDUs delivered again.                                  *)
  late,         (* ASDUs delivered out of order.                           *)
  go, c, rs     (* The stream and the totals of each subscriber.           *)

publisher == <<smpCnt, gap>>
truth == <<dropped, delivered, repeated, late>>
vars == <<w, publisher, truth, go, c, rs>>

Init ==
  /\ w \in {0, Wrap}
  /\ smpCnt = 0
  /\ gap = 0
  /\ dropped = 0
  /\ delivered = 0
  /\ repeated = 0
  /\ late = 0
  /\ go = Fresh
  /\ c = Fresh
  /\ rs = Fresh

-----------------------------------------------------------------------------

(* The smpCnt that follows n.                                              *)
After(n) == IF n + 1 >= Wrap THEN 0 ELSE n + 1

(* The subscribers take in an ASDU.                                        *)
Count(n) ==
  /\ delivered + repeated + late < MaxAsdus
  /\ go' = countGo(w, go, n)
  /\ c' = countC(w, c, n)
  /\ rs' = countRs(w, rs, n)

(* The next ASDU arrives.                                                  *)
Deliver ==
  /\ Count(smpCnt)
  /\ smpCnt' = After(smpCnt)
  /\ dropped' = IF delivered = 0 THEN dropped ELSE dropped + gap
  /\ gap' = 0
  /\ delivered' = delivered + 1
  /\ UNCHANGED <<w, repeated, late>>

(* The next ASDU is lost.                                                  *)
Lose ==
  /\ gap < MaxBurst
  /\ dropped + gap < MaxDropped
  /\ smpCnt' = After(smpCnt)
  /\ gap' = gap + 1
  /\ UNCHANGED <<w, truth, go, c, rs>>

(* The last ASDU that arrived arrives once more.                           *)
Repeat ==
  /\ delivered > 0
  /\ Count(go.prev)
  /\ repeated' = repeated + 1
  /\ UNCHANGED <<w, publisher, dropped, delivered, late>>

(* An ASDU that was held up on the way arrives.                            *)
Late ==
  /\ delivered > 0
  /\ late < MaxLate
  /\ \E n \in 0 .. Wrap - 1 : Count(n)
  /\ late' = late + 1
  /\ UNCHANGED <<w, publisher, dropped, delivered, repeated>>

Next == Deliver \/ Lose \/ Repeat \/ Late

Spec == Init /\ [][Next]_vars

-----------------------------------------------------------------------------

Cnts == 0 .. Wrap - 1

Totals == [prev : {None} \cup Cnts, maxSeen : Cnts, received : Nat,
           lost : 0 .. U64 - 1, duplicates : Nat, outOfOrder : Nat]

TypeOK ==
  /\ w \in {0, Wrap}
  /\ smpCnt \in Cnts
  /\ gap \in 0 .. MaxBurst
  /\ dropped \in 0 .. MaxDropped
  /\ delivered \in 0 .. MaxAsdus
  /\ repeated \in 0 .. MaxAsdus
  /\ late \in 0 .. MaxLate
  /\ go \in Totals /\ c \in Totals /\ rs \in Totals

(* No burst is so long that the wrap rule takes it for a late ASDU.        *)
ShortBursts == MaxBurst + 2 + Wrap \div 2 <= Wrap

(* s tells what the link did, except perhaps how much it lost.             *)
Tallied(s) ==
  /\ s.received = delivered + repeated
  /\ s.duplicates = repeated
  /\ s.outOfOrder = 0

(***************************************************************************)
(* As long as the link keeps the order, with bursts of loss that are not   *)
(* too long for the wrap rule (ShortBursts), each subscriber that knows    *)
(* the wrap counts every lost ASDU once, every repeated one as a duplicate *)
(* and none as out of order, also across the wrap of smpCnt (count, and    *)
(* docs/sv.md "Counting").                                                 *)
(***************************************************************************)
LostExact ==
  w # 0 /\ late = 0 => \A s \in {go, c, rs} : Tallied(s) /\ s.lost = dropped

(***************************************************************************)
(* One rule, three programs: "count applies the counting rules of          *)
(* docs/sv.md" (the Go sv-subscriber, main.go:99), and so say the C and    *)
(* Rust ones.  Fed with the same ASDUs, in and out of order, they report   *)
(* the same totals, although they subtract in different integer types; and *)
(* one that has to learn the wrap from the largest smpCnt seen reports no  *)
(* more lost than there were while the link keeps the order.               *)
(***************************************************************************)
SameCounts ==
  /\ go = c /\ c = rs
  /\ late = 0 => Tallied(go) /\ go.lost <= dropped
=============================================================================
