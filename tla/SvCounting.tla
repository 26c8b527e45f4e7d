----------------------------- MODULE SvCounting -----------------------------
(***************************************************************************)
(* How the three sv-subscribers count the ASDUs of one stream (APPID,      *)
(* svID): the function count of each, as an operator from the stream's     *)
(* state and the totals to their new values.  w is the smpCntWrap of the   *)
(* fixture stream, 0 for a stream the fixture does not know.               *)
(*                                                                         *)
(* The three differ in the integers they subtract with: int and uint64 in  *)
(* Go, uint32 in C, i64 clamped at 0 in Rust.                              *)
(***************************************************************************)
EXTENDS Integers

CONSTANTS
  U32,          (* Number of values of a uint32 (2^32).                    *)
  U64           (* Number of values of a uint64 (2^64).                    *)

ASSUME WordAssumption ==
  /\ U32 \in Nat \ {0}
  /\ U64 \in Nat \ {0}

None == -1      (* No ASDU of the stream so far.                           *)

Larger(a, b) == IF a > b THEN a ELSE b

(* A stream nothing was received of, and no totals.                        *)
Fresh ==
  [prev |-> None, maxSeen |-> 0,
   received |-> 0, lost |-> 0, duplicates |-> 0, outOfOrder |-> 0]

(* Mutant: lost holds the last gap only.                                   *)
TallyMutant(s, prev, maxSeen, lost, dup, late) ==
  [prev |-> prev, maxSeen |-> maxSeen,
   received |-> s.received + 1,
   lost |-> lost % U64,
   duplicates |-> s.duplicates + dup,
   outOfOrder |-> s.outOfOrder + late]

(* s after one more ASDU: the new reference, and what is added to lost,    *)
(* duplicates and outOfOrder.                                              *)
Tally(s, prev, maxSeen, lost, dup, late) ==
  [prev |-> prev, maxSeen |-> maxSeen,
   received |-> s.received + 1,
   lost |-> (s.lost + lost) % U64,
   duplicates |-> s.duplicates + dup,
   outOfOrder |-> s.outOfOrder + late]

(* stats.count of the Go subscriber.                                       *)
countGo(w, s, n) ==
  LET max == Larger(s.maxSeen, n)
      wrap == IF w = 0 THEN max + 1 ELSE w
      d == n - s.prev
  IN
  IF s.prev = None THEN Tally(s, n, max, 0, 0, 0)
  ELSE CASE d = 1 -> Tally(s, n, max, 0, 0, 0)
         [] d = 0 -> Tally(s, n, max, 0, 1, 0)
         [] d > 1 -> Tally(s, n, max, d - 1, 0, 0)
         [] d < 0 /\ -d > wrap \div 2 ->
              Tally(s, n, max, (wrap - 1 - s.prev) + n, 0, 0)
         [] OTHER -> Tally(s, s.prev, max, 0, 0, 1)

(* Mutant: the sample that ends a gap is counted with it.                 *)
countCMutantGap(w, s, n) ==
  LET t == countGo(w, s, n)
  IN IF s.prev # None /\ n - s.prev > 1 THEN [t EXCEPT !.lost = (@ + 1) % U64] ELSE t

(* count of the C subscriber: wrap - 1 - last is a uint32.                 *)
countC(w, s, n) ==
  LET max == IF s.prev = None THEN n ELSE Larger(s.maxSeen, n)
      wrap == IF w # 0 THEN w ELSE max + 1
      d == n - s.prev
  IN
  IF s.prev = None THEN Tally(s, n, max, 0, 0, 0)
  ELSE CASE d = 1 -> Tally(s, n, max, 0, 0, 0)
         [] d = 0 -> Tally(s, n, max, 0, 1, 0)
         [] d > 1 -> Tally(s, n, max, d - 1, 0, 0)
         [] d < 0 /\ -d > wrap \div 2 ->
              Tally(s, n, max, ((wrap - 1 - s.prev) % U32) + n, 0, 0)
         [] OTHER -> Tally(s, s.prev, max, 0, 0, 1)

(* Mutant: the same in Rust.                                               *)
countRsMutantGap(w, s, n) ==
  LET t == countGo(w, s, n)
  IN IF s.prev # None /\ n - s.prev > 1 THEN [t EXCEPT !.lost = (@ + 1) % U64] ELSE t

(* Stream::count of the Rust subscriber: a wrap never subtracts.           *)
countRs(w, s, n) ==
  LET max == Larger(s.maxSeen, n)
      wrap == IF w = 0 THEN max + 1 ELSE w
      d == n - s.prev
  IN
  IF s.prev = None THEN Tally(s, n, max, 0, 0, 0)
  ELSE CASE d = 1 -> Tally(s, n, max, 0, 0, 0)
         [] d = 0 -> Tally(s, n, max, 0, 1, 0)
         [] d > 1 -> Tally(s, n, max, d - 1, 0, 0)
         [] d < 0 /\ -d > wrap \div 2 ->
              Tally(s, n, max, Larger((wrap - 1 - s.prev) + n, 0), 0, 0)
         [] OTHER -> Tally(s, s.prev, max, 0, 0, 1)
=============================================================================
