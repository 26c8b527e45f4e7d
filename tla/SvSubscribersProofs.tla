------------------------ MODULE SvSubscribersProofs ------------------------
(***************************************************************************)
(* As long as a link keeps the order, the counting of all three            *)
(* subscribers is exact, for every wrap and every bound (see LostExact in  *)
(* SvLink).  The C and the Rust subscriber count every ASDU they accept,   *)
(* for all traffic and every size of the tables (see CountedIfRoom in      *)
(* MCSvSubscribers).                                                       *)
(***************************************************************************)
EXTENDS MCSvSubscribers, SequenceTheorems, FiniteSetTheorems, WellFoundedInduction, TLAPS

(* A subscriber's stream after ASDU number `last`, having counted `lost`.  *)
State(s, last, lost) ==
  /\ s \in Totals
  /\ s.prev = last
  /\ s.lost = lost
  /\ Tallied(s)

(* The publisher is gap + 1 ASDUs ahead of last, modulo Wrap.              *)
Ahead(last) ==
  smpCnt = last + gap + 1 \/ smpCnt = last + gap + 1 - Wrap

(* The subscribers agree on the last ASDU and have counted all that was    *)
(* lost before it.                                                         *)
Exact ==
  /\ delivered = 0 => /\ dropped = 0 /\ repeated = 0
                      /\ go = Fresh /\ c = Fresh /\ rs = Fresh
  /\ delivered > 0 =>
       /\ Ahead(go.prev)
       /\ go.prev \in Cnts
       /\ State(go, go.prev, dropped)
       /\ State(c, go.prev, dropped)
       /\ State(rs, go.prev, dropped)

(* Inductive, whatever the link does.                                      *)
Sound ==
  /\ TypeOK
  /\ dropped + gap <= MaxDropped
  /\ delivered > 0 => go.prev \in Cnts

(* Inductive, given ShortBursts.                                           *)
IInv == Sound /\ (w # 0 /\ late = 0 => Exact)

-----------------------------------------------------------------------------

(***************************************************************************)
(* A total that stays below the word is what it is.                        *)
(***************************************************************************)
LEMMA BelowWord ==
  ASSUME NEW a \in Nat, NEW m \in Nat, a < m
  PROVE  a % m = a
BY SMT

(* What counting ASDU n of a started stream s must give, g ASDUs lost.     *)
Advanced(t, s, n, g) ==
  /\ t \in Totals
  /\ t.prev = n
  /\ t.lost = s.lost + g
  /\ t.received = s.received + 1
  /\ t.duplicates = s.duplicates
  /\ t.outOfOrder = s.outOfOrder

(* What counting the last ASDU of s again must give.                       *)
Doubled(t, s) ==
  /\ t \in Totals
  /\ t.prev = s.prev
  /\ t.lost = s.lost
  /\ t.received = s.received + 1
  /\ t.duplicates = s.duplicates + 1
  /\ t.outOfOrder = s.outOfOrder

(***************************************************************************)
(* The first ASDU the Go subscriber counts only sets the reference.        *)
(***************************************************************************)
LEMMA FirstGo ==
  ASSUME NEW n \in Cnts
  PROVE  countGo(w, Fresh, n) =
           [prev |-> n, maxSeen |-> n, received |-> 1,
            lost |-> 0, duplicates |-> 0, outOfOrder |-> 0]
BY WordAssumption, LinkAssumption, BelowWord DEF Tally, countGo, Fresh, None, Larger, Cnts

(***************************************************************************)
(* The Go subscriber counts a gap of g ASDUs exactly, across the wrap too. *)
(***************************************************************************)
LEMMA NextGo ==
  ASSUME w = Wrap, ShortBursts,
         NEW s \in Totals, NEW n \in Cnts, NEW g \in 0 .. MaxBurst,
         s.prev \in Cnts, s.lost + g <= MaxDropped,
         n = s.prev + g + 1 \/ n = s.prev + g + 1 - Wrap
  PROVE  Advanced(countGo(w, s, n), s, n, g)
<1>1. /\ Wrap \in Nat /\ U32 \in Nat /\ U64 \in Nat /\ MaxBurst \in Nat
      /\ Wrap < U32 /\ MaxDropped < U64 /\ MaxDropped \in Nat
  BY WordAssumption, LinkAssumption
<1>2. s.prev # None
  BY DEF Cnts, None
<1>3. s.lost \in Nat /\ s.maxSeen \in Cnts /\ s.lost + g < U64
  BY <1>1 DEF Totals
<1>4. (s.lost + g) % U64 = s.lost + g
  BY <1>1, <1>3, BelowWord
<1>5. CASE n = s.prev + g + 1
  <2>1. countGo(w, s, n) =
          Tally(s, n, Larger(s.maxSeen, n), g, 0, 0)
    <3>1. CASE g = 0
      BY <1>1, <1>2, <1>3, <1>5, <3>1 DEF countGo, Totals, Cnts
    <3>2. CASE g > 0
      BY <1>1, <1>2, <1>3, <1>4, <1>5, <3>2 DEF countGo, Totals, Cnts
    <3> QED BY <3>1, <3>2
  <2> QED BY <1>1, <1>3, <1>4, <2>1 DEF Tally, Advanced, Totals, Cnts, Larger
<1>6. CASE n = s.prev + g + 1 - Wrap
  <2>1. n - s.prev < 0 /\ s.prev - n > Wrap \div 2 /\ w = Wrap /\ Wrap # 0
    BY <1>1, <1>6 DEF ShortBursts, Cnts
  <2>2. (Wrap - 1 - s.prev) + n = g /\ Wrap - 1 - s.prev \in Nat /\ Wrap - 1 - s.prev < U32
    BY <1>1, <1>6 DEF Cnts
  <2>3. (Wrap - 1 - s.prev) % U32 = Wrap - 1 - s.prev
    BY <1>1, <2>2, BelowWord
  <2>4. countGo(w, s, n) =
          Tally(s, n, Larger(s.maxSeen, n), g, 0, 0)
    BY <1>1, <1>2, <1>3, <1>4, <2>1, <2>2, <2>3 DEF countGo, Totals, Cnts, Larger
  <2> QED BY <1>1, <1>3, <1>4, <2>4 DEF Tally, Advanced, Totals, Cnts, Larger
<1> QED BY <1>5, <1>6

(***************************************************************************)
(* The Go subscriber counts a repeated ASDU as a duplicate and nothing else. *)
(***************************************************************************)
LEMMA AgainGo ==
  ASSUME NEW s \in Totals, s.prev \in Cnts
  PROVE  Doubled(countGo(w, s, s.prev), s)
<1>1. s.prev # None /\ Wrap \in Nat /\ U64 \in Nat
  BY LinkAssumption, WordAssumption DEF Cnts, None
<1>0. (s.lost + 0) % U64 = s.lost
  BY <1>1, BelowWord DEF Totals
<1>2. countGo(w, s, s.prev) =
        Tally(s, s.prev, Larger(s.maxSeen, s.prev), 0, 1, 0)
  BY <1>1 DEF countGo, Totals, Cnts
<1> QED BY <1>0, <1>1, <1>2 DEF Tally, Doubled, Totals, Cnts, Larger

(***************************************************************************)
(* The first ASDU the C subscriber counts only sets the reference.         *)
(***************************************************************************)
LEMMA FirstC ==
  ASSUME NEW n \in Cnts
  PROVE  countC(w, Fresh, n) =
           [prev |-> n, maxSeen |-> n, received |-> 1,
            lost |-> 0, duplicates |-> 0, outOfOrder |-> 0]
BY WordAssumption, LinkAssumption, BelowWord DEF Tally, countC, Fresh, None, Larger, Cnts

(***************************************************************************)
(* The C subscriber counts a gap of g ASDUs exactly, across the wrap too.  *)
(***************************************************************************)
LEMMA NextC ==
  ASSUME w = Wrap, ShortBursts,
         NEW s \in Totals, NEW n \in Cnts, NEW g \in 0 .. MaxBurst,
         s.prev \in Cnts, s.lost + g <= MaxDropped,
         n = s.prev + g + 1 \/ n = s.prev + g + 1 - Wrap
  PROVE  Advanced(countC(w, s, n), s, n, g)
<1>1. /\ Wrap \in Nat /\ U32 \in Nat /\ U64 \in Nat /\ MaxBurst \in Nat
      /\ Wrap < U32 /\ MaxDropped < U64 /\ MaxDropped \in Nat
  BY WordAssumption, LinkAssumption
<1>2. s.prev # None
  BY DEF Cnts, None
<1>3. s.lost \in Nat /\ s.maxSeen \in Cnts /\ s.lost + g < U64
  BY <1>1 DEF Totals
<1>4. (s.lost + g) % U64 = s.lost + g
  BY <1>1, <1>3, BelowWord
<1>5. CASE n = s.prev + g + 1
  <2>1. countC(w, s, n) =
          Tally(s, n, Larger(s.maxSeen, n), g, 0, 0)
    <3>1. CASE g = 0
      BY <1>1, <1>2, <1>3, <1>5, <3>1 DEF countC, Totals, Cnts
    <3>2. CASE g > 0
      BY <1>1, <1>2, <1>3, <1>4, <1>5, <3>2 DEF countC, Totals, Cnts
    <3> QED BY <3>1, <3>2
  <2> QED BY <1>1, <1>3, <1>4, <2>1 DEF Tally, Advanced, Totals, Cnts, Larger
<1>6. CASE n = s.prev + g + 1 - Wrap
  <2>1. n - s.prev < 0 /\ s.prev - n > Wrap \div 2 /\ w = Wrap /\ Wrap # 0
    BY <1>1, <1>6 DEF ShortBursts, Cnts
  <2>2. (Wrap - 1 - s.prev) + n = g /\ Wrap - 1 - s.prev \in Nat /\ Wrap - 1 - s.prev < U32
    BY <1>1, <1>6 DEF Cnts
  <2>3. (Wrap - 1 - s.prev) % U32 = Wrap - 1 - s.prev
    BY <1>1, <2>2, BelowWord
  <2>4. countC(w, s, n) =
          Tally(s, n, Larger(s.maxSeen, n), g, 0, 0)
    BY <1>1, <1>2, <1>3, <1>4, <2>1, <2>2, <2>3 DEF countC, Totals, Cnts, Larger
  <2> QED BY <1>1, <1>3, <1>4, <2>4 DEF Tally, Advanced, Totals, Cnts, Larger
<1> QED BY <1>5, <1>6

(***************************************************************************)
(* The C subscriber counts a repeated ASDU as a duplicate and nothing else. *)
(***************************************************************************)
LEMMA AgainC ==
  ASSUME NEW s \in Totals, s.prev \in Cnts
  PROVE  Doubled(countC(w, s, s.prev), s)
<1>1. s.prev # None /\ Wrap \in Nat /\ U64 \in Nat
  BY LinkAssumption, WordAssumption DEF Cnts, None
<1>0. (s.lost + 0) % U64 = s.lost
  BY <1>1, BelowWord DEF Totals
<1>2. countC(w, s, s.prev) =
        Tally(s, s.prev, Larger(s.maxSeen, s.prev), 0, 1, 0)
  BY <1>1 DEF countC, Totals, Cnts
<1> QED BY <1>0, <1>1, <1>2 DEF Tally, Doubled, Totals, Cnts, Larger

(***************************************************************************)
(* The first ASDU the Rust subscriber counts only sets the reference.      *)
(***************************************************************************)
LEMMA FirstRs ==
  ASSUME NEW n \in Cnts
  PROVE  countRs(w, Fresh, n) =
           [prev |-> n, maxSeen |-> n, received |-> 1,
            lost |-> 0, duplicates |-> 0, outOfOrder |-> 0]
BY WordAssumption, LinkAssumption, BelowWord DEF Tally, countRs, Fresh, None, Larger, Cnts

(***************************************************************************)
(* The Rust subscriber counts a gap of g ASDUs exactly, across the wrap too. *)
(***************************************************************************)
LEMMA NextRs ==
  ASSUME w = Wrap, ShortBursts,
         NEW s \in Totals, NEW n \in Cnts, NEW g \in 0 .. MaxBurst,
         s.prev \in Cnts, s.lost + g <= MaxDropped,
         n = s.prev + g + 1 \/ n = s.prev + g + 1 - Wrap
  PROVE  Advanced(countRs(w, s, n), s, n, g)
<1>1. /\ Wrap \in Nat /\ U32 \in Nat /\ U64 \in Nat /\ MaxBurst \in Nat
      /\ Wrap < U32 /\ MaxDropped < U64 /\ MaxDropped \in Nat
  BY WordAssumption, LinkAssumption
<1>2. s.prev # None
  BY DEF Cnts, None
<1>3. s.lost \in Nat /\ s.maxSeen \in Cnts /\ s.lost + g < U64
  BY <1>1 DEF Totals
<1>4. (s.lost + g) % U64 = s.lost + g
  BY <1>1, <1>3, BelowWord
<1>5. CASE n = s.prev + g + 1
  <2>1. countRs(w, s, n) =
          Tally(s, n, Larger(s.maxSeen, n), g, 0, 0)
    <3>1. CASE g = 0
      BY <1>1, <1>2, <1>3, <1>5, <3>1 DEF countRs, Totals, Cnts
    <3>2. CASE g > 0
      BY <1>1, <1>2, <1>3, <1>4, <1>5, <3>2 DEF countRs, Totals, Cnts
    <3> QED BY <3>1, <3>2
  <2> QED BY <1>1, <1>3, <1>4, <2>1 DEF Tally, Advanced, Totals, Cnts, Larger
<1>6. CASE n = s.prev + g + 1 - Wrap
  <2>1. n - s.prev < 0 /\ s.prev - n > Wrap \div 2 /\ w = Wrap /\ Wrap # 0
    BY <1>1, <1>6 DEF ShortBursts, Cnts
  <2>2. (Wrap - 1 - s.prev) + n = g /\ Wrap - 1 - s.prev \in Nat /\ Wrap - 1 - s.prev < U32
    BY <1>1, <1>6 DEF Cnts
  <2>3. (Wrap - 1 - s.prev) % U32 = Wrap - 1 - s.prev
    BY <1>1, <2>2, BelowWord
  <2>4. countRs(w, s, n) =
          Tally(s, n, Larger(s.maxSeen, n), g, 0, 0)
    BY <1>1, <1>2, <1>3, <1>4, <2>1, <2>2, <2>3 DEF countRs, Totals, Cnts, Larger
  <2> QED BY <1>1, <1>3, <1>4, <2>4 DEF Tally, Advanced, Totals, Cnts, Larger
<1> QED BY <1>5, <1>6

(***************************************************************************)
(* The Rust subscriber counts a repeated ASDU as a duplicate and nothing else. *)
(***************************************************************************)
LEMMA AgainRs ==
  ASSUME NEW s \in Totals, s.prev \in Cnts
  PROVE  Doubled(countRs(w, s, s.prev), s)
<1>1. s.prev # None /\ Wrap \in Nat /\ U64 \in Nat
  BY LinkAssumption, WordAssumption DEF Cnts, None
<1>0. (s.lost + 0) % U64 = s.lost
  BY <1>1, BelowWord DEF Totals
<1>2. countRs(w, s, s.prev) =
        Tally(s, s.prev, Larger(s.maxSeen, s.prev), 0, 1, 0)
  BY <1>1 DEF countRs, Totals, Cnts
<1> QED BY <1>0, <1>1, <1>2 DEF Tally, Doubled, Totals, Cnts, Larger

(***************************************************************************)
(* Tally stays within the types of a stream's state.                       *)
(***************************************************************************)
LEMMA TallyTyped ==
  ASSUME NEW s \in Totals, NEW p \in Cnts, NEW m \in Cnts,
         NEW l \in Int, NEW d \in Nat, NEW o \in Nat
  PROVE  Tally(s, p, m, l, d, o) \in Totals /\ Tally(s, p, m, l, d, o).prev \in Cnts
<1>1. U64 \in Nat /\ U64 > 0 /\ s.lost \in Nat
  BY WordAssumption DEF Totals
<1>2. (s.lost + l) % U64 \in 0 .. U64 - 1
  BY <1>1
<1> QED BY <1>1, <1>2 DEF Tally, Totals

(* What counting any ASDU of any stream may give.                          *)
Typed(t) == t \in Totals /\ t.prev \in Cnts

(***************************************************************************)
(* The Go subscriber counts any ASDU, in or out of order, within the types. *)
(***************************************************************************)
LEMMA TypedGo ==
  ASSUME w \in {0, Wrap}, NEW s \in Totals, NEW n \in Cnts
  PROVE  Typed(countGo(w, s, n))
<1> DEFINE max == Larger(s.maxSeen, n)
           wrap == IF w = 0 THEN max + 1 ELSE w
           lost == (wrap - 1 - s.prev) + n
<1>1. /\ Wrap \in Nat /\ U32 \in Nat /\ U32 > 0
      /\ s.maxSeen \in Cnts /\ s.prev \in {None} \cup Cnts
  BY WordAssumption, LinkAssumption DEF Totals
<1>2. max \in Cnts /\ n - s.prev \in Int
  BY <1>1 DEF Cnts, None, Larger
<1>3. wrap \in Nat
  BY <1>1, <1>2 DEF Cnts
<1>4. lost \in Int
  BY <1>1, <1>3 DEF Cnts, None, Larger
<1>n. 0 \in Int /\ 0 \in Nat /\ 1 \in Nat /\ n - s.prev - 1 \in Int
  BY <1>2
<1> HIDE DEF max, wrap, lost
<1>5. /\ Typed(Tally(s, n, max, 0, 0, 0))
      /\ Typed(Tally(s, n, max, 0, 1, 0))
      /\ Typed(Tally(s, n, max, n - s.prev - 1, 0, 0))
      /\ Typed(Tally(s, n, max, lost, 0, 0))
  BY <1>2, <1>4, <1>n, TallyTyped, Zenon DEF Typed
<1>6. s.prev # None => Typed(Tally(s, s.prev, max, 0, 0, 1))
  BY <1>1, <1>2, <1>n, TallyTyped, Zenon DEF Typed
<1> QED BY <1>5, <1>6 DEF countGo, max, wrap, lost

(***************************************************************************)
(* The C subscriber counts any ASDU, in or out of order, within the types. *)
(***************************************************************************)
LEMMA TypedC ==
  ASSUME w \in {0, Wrap}, NEW s \in Totals, NEW n \in Cnts
  PROVE  Typed(countC(w, s, n))
<1> DEFINE max == IF s.prev = None THEN n ELSE Larger(s.maxSeen, n)
           wrap == IF w # 0 THEN w ELSE max + 1
           lost == ((wrap - 1 - s.prev) % U32) + n
<1>1. /\ Wrap \in Nat /\ U32 \in Nat /\ U32 > 0
      /\ s.maxSeen \in Cnts /\ s.prev \in {None} \cup Cnts
  BY WordAssumption, LinkAssumption DEF Totals
<1>2. max \in Cnts /\ n - s.prev \in Int
  BY <1>1 DEF Cnts, None, Larger
<1>3. wrap \in Nat
  BY <1>1, <1>2 DEF Cnts
<1>4. lost \in Int
  BY <1>1, <1>3 DEF Cnts, None, Larger
<1>n. 0 \in Int /\ 0 \in Nat /\ 1 \in Nat /\ n - s.prev - 1 \in Int
  BY <1>2
<1> HIDE DEF max, wrap, lost
<1>5. /\ Typed(Tally(s, n, max, 0, 0, 0))
      /\ Typed(Tally(s, n, max, 0, 1, 0))
      /\ Typed(Tally(s, n, max, n - s.prev - 1, 0, 0))
      /\ Typed(Tally(s, n, max, lost, 0, 0))
  BY <1>2, <1>4, <1>n, TallyTyped, Zenon DEF Typed
<1>6. s.prev # None => Typed(Tally(s, s.prev, max, 0, 0, 1))
  BY <1>1, <1>2, <1>n, TallyTyped, Zenon DEF Typed
<1> QED BY <1>5, <1>6 DEF countC, max, wrap, lost

(***************************************************************************)
(* The Rust subscriber counts any ASDU, in or out of order, within the types. *)
(***************************************************************************)
LEMMA TypedRs ==
  ASSUME w \in {0, Wrap}, NEW s \in Totals, NEW n \in Cnts
  PROVE  Typed(countRs(w, s, n))
<1> DEFINE max == Larger(s.maxSeen, n)
           wrap == IF w = 0 THEN max + 1 ELSE w
           lost == Larger((wrap - 1 - s.prev) + n, 0)
<1>1. /\ Wrap \in Nat /\ U32 \in Nat /\ U32 > 0
      /\ s.maxSeen \in Cnts /\ s.prev \in {None} \cup Cnts
  BY WordAssumption, LinkAssumption DEF Totals
<1>2. max \in Cnts /\ n - s.prev \in Int
  BY <1>1 DEF Cnts, None, Larger
<1>3. wrap \in Nat
  BY <1>1, <1>2 DEF Cnts
<1>4. lost \in Int
  BY <1>1, <1>3 DEF Cnts, None, Larger
<1>n. 0 \in Int /\ 0 \in Nat /\ 1 \in Nat /\ n - s.prev - 1 \in Int
  BY <1>2
<1> HIDE DEF max, wrap, lost
<1>5. /\ Typed(Tally(s, n, max, 0, 0, 0))
      /\ Typed(Tally(s, n, max, 0, 1, 0))
      /\ Typed(Tally(s, n, max, n - s.prev - 1, 0, 0))
      /\ Typed(Tally(s, n, max, lost, 0, 0))
  BY <1>2, <1>4, <1>n, TallyTyped, Zenon DEF Typed
<1>6. s.prev # None => Typed(Tally(s, s.prev, max, 0, 0, 1))
  BY <1>1, <1>2, <1>n, TallyTyped, Zenon DEF Typed
<1> QED BY <1>5, <1>6 DEF countRs, max, wrap, lost

-----------------------------------------------------------------------------

(***************************************************************************)
(* IInv holds at first.                                                    *)
(***************************************************************************)
LEMMA Starts == Init => IInv
BY WordAssumption, LinkAssumption
   DEF Init, IInv, Sound, Exact, TypeOK, Totals, Fresh, Cnts, None

(***************************************************************************)
(* Every step of the link and the subscribers preserves Sound, in and out  *)
(* of order.                                                               *)
(***************************************************************************)
LEMMA StepTyped ==
  ASSUME Sound, [Next]_vars
  PROVE  Sound'
<1> USE LinkAssumption, WordAssumption
<1>n. /\ smpCnt \in Cnts /\ gap \in 0 .. MaxBurst /\ dropped \in 0 .. MaxDropped
      /\ delivered \in 0 .. MaxAsdus /\ repeated \in 0 .. MaxAsdus /\ late \in 0 .. MaxLate
      /\ w \in {0, Wrap} /\ dropped + gap <= MaxDropped
      /\ go \in Totals /\ c \in Totals /\ rs \in Totals
  BY DEF Sound, TypeOK
<1>c. ASSUME NEW n \in Cnts, Count(n)
      PROVE  Typed(go') /\ Typed(c') /\ Typed(rs') /\ delivered + repeated + late < MaxAsdus
  BY <1>n, <1>c, TypedGo, TypedC, TypedRs DEF Count
<1>a. After(smpCnt) \in Cnts
  BY <1>n DEF After, Cnts
<1>1. CASE Deliver
  <2>1. Typed(go') /\ Typed(c') /\ Typed(rs') /\ delivered + repeated + late < MaxAsdus
    BY <1>1, <1>c, <1>n DEF Deliver
  <2>2. /\ smpCnt' = After(smpCnt) /\ gap' = 0 /\ delivered' = delivered + 1
        /\ dropped' \in {dropped, dropped + gap}
        /\ UNCHANGED <<w, repeated, late>>
    BY <1>1, <1>n DEF Deliver
  <2>3. delivered' \in 0 .. MaxAsdus /\ gap' \in 0 .. MaxBurst
    BY <1>n, <2>1, <2>2
  <2>4. dropped' \in 0 .. MaxDropped /\ dropped' + gap' <= MaxDropped
    <3>1. gap \in Nat /\ dropped \in Nat /\ dropped + gap <= MaxDropped /\ MaxDropped \in Nat
      BY <1>n
    <3>2. gap' = 0 /\ (dropped' = dropped \/ dropped' = dropped + gap)
      BY <2>2
    <3>3. CASE dropped' = dropped
      BY <3>1, <3>2, <3>3
    <3>4. CASE dropped' = dropped + gap
      BY <3>1, <3>2, <3>4
    <3> QED BY <3>2, <3>3, <3>4
  <2> QED BY <1>n, <1>a, <2>1, <2>2, <2>3, <2>4 DEF TypeOK, Typed, Sound
<1>2. CASE Lose
  BY <1>2, <1>n, <1>a DEF Lose, truth, TypeOK, Sound
<1>3. CASE Repeat
  <2>1. go.prev \in Cnts
    BY <1>3 DEF Repeat, Sound
  <2>2. Typed(go') /\ Typed(c') /\ Typed(rs') /\ delivered + repeated + late < MaxAsdus
    BY <1>3, <1>c, <2>1 DEF Repeat
  <2>3. repeated' = repeated + 1 /\ UNCHANGED <<w, smpCnt, gap, dropped, delivered, late>>
    BY <1>3 DEF Repeat, publisher
  <2> QED BY <1>n, <2>2, <2>3 DEF TypeOK, Typed, Sound
<1>4. CASE Late
  <2>1. PICK n \in Cnts : Count(n)
    BY <1>4 DEF Late, Cnts
  <2>2. Typed(go') /\ Typed(c') /\ Typed(rs') /\ delivered + repeated + late < MaxAsdus
    BY <1>c, <2>1
  <2>3. /\ late < MaxLate /\ late' = late + 1
        /\ UNCHANGED <<w, smpCnt, gap, dropped, delivered, repeated>>
    BY <1>4 DEF Late, publisher
  <2> QED BY <1>n, <2>2, <2>3 DEF TypeOK, Typed, Sound
<1>5. CASE UNCHANGED vars
  BY <1>5 DEF vars, publisher, truth, TypeOK, Sound
<1> QED BY <1>1, <1>2, <1>3, <1>4, <1>5 DEF Next

(***************************************************************************)
(* As long as the order is kept every step preserves Exact.                *)
(***************************************************************************)
LEMMA StepExact ==
  ASSUME ShortBursts, IInv, [Next]_vars, w # 0, late' = 0
  PROVE  Exact'
<1> USE LinkAssumption, WordAssumption
<1>n. /\ smpCnt \in Cnts /\ gap \in 0 .. MaxBurst /\ dropped \in 0 .. MaxDropped
      /\ delivered \in Nat /\ repeated \in Nat /\ late \in Nat
      /\ w = Wrap /\ dropped + gap <= MaxDropped
  BY DEF IInv, Sound, TypeOK
<1>l. ~Late
  BY <1>n DEF Late
<1>e. Exact
  <2>1. late = 0
    BY <1>l, <1>n DEF Next, Deliver, Lose, Repeat, vars, truth
  <2> QED BY <2>1 DEF IInv
<1>1. CASE Deliver
  <2>1. CASE delivered = 0
    <3>1. /\ go' = [prev |-> smpCnt, maxSeen |-> smpCnt, received |-> 1,
                    lost |-> 0, duplicates |-> 0, outOfOrder |-> 0]
          /\ c' = go' /\ rs' = go'
      BY <1>1, <1>n, <1>e, <2>1, FirstGo, FirstC, FirstRs DEF Deliver, Count, Exact
    <3>2. State(go, go.prev, dropped)' /\ (go.prev \in Cnts)' /\ Ahead(go.prev)'
      BY <1>1, <1>n, <1>e, <2>1, <3>1
         DEF Deliver, After, State, Tallied, Totals, Ahead, Cnts, Exact
    <3>3. delivered' > 0
      BY <1>1, <1>n DEF Deliver
    <3> QED BY <3>1, <3>2, <3>3 DEF State, Tallied, Exact, Ahead
  <2>2. CASE delivered > 0
    <3> DEFINE n == smpCnt
               old == go.prev
    <3>1. /\ old \in Cnts /\ Ahead(old)
          /\ State(go, old, dropped) /\ State(c, old, dropped) /\ State(rs, old, dropped)
      BY <1>e, <2>2 DEF Exact
    <3>2. Advanced(go', go, n, gap)
      BY <1>1, <1>n, <3>1, NextGo DEF Deliver, Count, State, Ahead
    <3>3. Advanced(c', c, n, gap)
      BY <1>1, <1>n, <3>1, NextC DEF Deliver, Count, State, Ahead
    <3>4. Advanced(rs', rs, n, gap)
      BY <1>1, <1>n, <3>1, NextRs DEF Deliver, Count, State, Ahead
    <3>5. /\ dropped' = dropped + gap /\ gap' = 0 /\ delivered' = delivered + 1
          /\ repeated' = repeated /\ smpCnt' = After(n)
      BY <1>1, <2>2 DEF Deliver
    <3>6. State(go, go.prev, dropped)' /\ State(c, go.prev, dropped)' /\ State(rs, go.prev, dropped)'
      BY <1>n, <3>1, <3>2, <3>3, <3>4, <3>5 DEF Advanced, State, Tallied
    <3>7. Ahead(go.prev)' /\ (go.prev \in Cnts)'
      BY <1>n, <3>2, <3>5 DEF Advanced, Ahead, After, Cnts
    <3> QED BY <1>n, <2>2, <3>5, <3>6, <3>7 DEF Exact
  <2> QED BY <1>n, <2>1, <2>2
<1>2. CASE Lose
  <2>1. /\ smpCnt' = After(smpCnt) /\ gap' = gap + 1 /\ gap < MaxBurst
        /\ UNCHANGED <<dropped, delivered, repeated, go, c, rs>>
    BY <1>2 DEF Lose, truth
  <2>2. delivered > 0 => Ahead(go.prev)'
    BY <1>n, <1>e, <2>1 DEF Exact, Ahead, After, Cnts, ShortBursts
  <2> QED BY <1>n, <1>e, <2>1, <2>2 DEF Exact, State, Tallied
<1>3. CASE Repeat
  <2>1. /\ delivered > 0 /\ repeated' = repeated + 1
        /\ UNCHANGED <<smpCnt, gap, dropped, delivered>>
    BY <1>3 DEF Repeat, publisher
  <2>2. /\ go.prev \in Cnts /\ c.prev = go.prev /\ rs.prev = go.prev
        /\ go \in Totals /\ c \in Totals /\ rs \in Totals
    BY <1>e, <2>1 DEF Exact, State
  <2>3. Doubled(go', go) /\ Doubled(c', c) /\ Doubled(rs', rs)
    BY <1>3, <2>2, AgainGo, AgainC, AgainRs DEF Repeat, Count
  <2>4. State(go, go.prev, dropped)' /\ State(c, go.prev, dropped)' /\ State(rs, go.prev, dropped)'
    BY <1>n, <1>e, <2>1, <2>2, <2>3 DEF Exact, Doubled, State, Tallied
  <2>5. Ahead(go.prev)' /\ (go.prev \in Cnts)'
    BY <1>e, <2>1, <2>2, <2>3 DEF Exact, Doubled, Ahead
  <2> QED BY <1>n, <2>1, <2>4, <2>5 DEF Exact
<1>4. CASE UNCHANGED vars
  <2>1. UNCHANGED <<smpCnt, gap, dropped, delivered, repeated, go, c, rs>>
    BY <1>4 DEF vars, publisher, truth
  <2> QED BY <1>e, <2>1 DEF Exact, State, Tallied, Ahead
<1> QED BY <1>1, <1>2, <1>3, <1>4, <1>l DEF Next

(***************************************************************************)
(* Every step of the link and the subscribers preserves IInv.              *)
(***************************************************************************)
LEMMA Step ==
  ASSUME ShortBursts, IInv, [Next]_vars
  PROVE  IInv'
<1>1. w' = w
  BY DEF Next, Deliver, Lose, Repeat, Late, vars
<1> QED BY <1>1, StepTyped, StepExact DEF IInv

(***************************************************************************)
(* LostExact, for every wrap, burst length and number of ASDUs: over a     *)
(* link that keeps the order, with bursts the wrap rule can tell from late *)
(* ASDUs, the totals of all three subscribers are the truth; and no ASDU,  *)
(* late or not, takes a stream out of its types.                           *)
(***************************************************************************)
THEOREM CountsExactly ==
  ASSUME ShortBursts
  PROVE  Spec => [](TypeOK /\ LostExact)
<1>1. IInv => TypeOK /\ LostExact
  BY WordAssumption DEF IInv, Sound, Exact, TypeOK, LostExact, Tallied, State, Fresh
<1>2. IInv /\ [Next]_vars => IInv'
  BY Step
<1> QED BY <1>1, <1>2, Starts, PTL DEF Spec

-----------------------------------------------------------------------------
(* The three programs side by side, in and out of order.                   *)

(* The largest smpCnt seen is no less than the reference.                  *)
Referenced(s) ==
  /\ s.prev = None => s.maxSeen = 0
  /\ s.prev # None => s.prev \in Cnts /\ s.prev <= s.maxSeen

(***************************************************************************)
(* One ASDU, in or out of order, of a stream in the fixture or not: none   *)
(* of the three subtracts below zero, so the integer types do not tell     *)
(* them apart.                                                             *)
(***************************************************************************)
LEMMA OneRule ==
  ASSUME w \in {0, Wrap}, NEW s \in Totals, Referenced(s), NEW n \in Cnts
  PROVE  /\ countC(w, s, n) = countGo(w, s, n) /\ countRs(w, s, n) = countGo(w, s, n)
         /\ Referenced(countGo(w, s, n))
<1> DEFINE max == Larger(s.maxSeen, n)
           wrap == IF w = 0 THEN max + 1 ELSE w
           back == wrap - 1 - s.prev
<1>1. /\ Wrap \in Nat /\ U32 \in Nat /\ Wrap < U32 /\ Wrap > 0
      /\ s.maxSeen \in Cnts /\ s.prev \in {None} \cup Cnts /\ n \in Nat /\ n \in Int
  BY WordAssumption, LinkAssumption DEF Totals, Cnts
<1>2. max \in Cnts /\ max >= n /\ max >= s.maxSeen /\ wrap \in Nat /\ wrap <= Wrap /\ wrap > max
  BY <1>1 DEF Cnts, Larger
<1>3. CASE s.prev = None
  <2>1. max = n
    BY <1>1, <1>3 DEF Referenced, Larger, Cnts
  <2>2. countC(w, s, n) = Tally(s, n, n, 0, 0, 0)
    BY <1>3 DEF countC
  <2>3. countGo(w, s, n) = Tally(s, n, n, 0, 0, 0) /\ countRs(w, s, n) = Tally(s, n, n, 0, 0, 0)
    BY <1>3, <2>1 DEF countGo, countRs
  <2> QED BY <1>1, <2>2, <2>3 DEF Referenced, Tally, Cnts, None
<1>4. CASE s.prev # None
  <2>1. s.prev \in Cnts /\ s.prev \in Int /\ s.prev <= s.maxSeen /\ n - s.prev \in Int
    BY <1>1, <1>4 DEF Referenced, Cnts
  <2>2. back \in Nat /\ back < U32
    BY <1>1, <1>2, <2>1 DEF Cnts
  <2>3. back % U32 = back /\ Larger(back + n, 0) = back + n
    BY <1>1, <2>2, BelowWord DEF Larger
  <2>4. (IF w # 0 THEN w ELSE max + 1) = wrap
    OBVIOUS
  <2>5. /\ Referenced(Tally(s, n, max, 0, 0, 0)) /\ Referenced(Tally(s, n, max, 0, 1, 0))
        /\ Referenced(Tally(s, n, max, n - s.prev - 1, 0, 0))
        /\ Referenced(Tally(s, n, max, back + n, 0, 0))
        /\ Referenced(Tally(s, s.prev, max, 0, 0, 1))
    <3> HIDE DEF max, back
    <3> QED BY <1>1, <1>2, <2>1 DEF Referenced, Tally, Cnts, None
  <2>6. /\ countGo(w, s, n) =
             CASE n - s.prev = 1 -> Tally(s, n, max, 0, 0, 0)
               [] n - s.prev = 0 -> Tally(s, n, max, 0, 1, 0)
               [] n - s.prev > 1 -> Tally(s, n, max, n - s.prev - 1, 0, 0)
               [] n - s.prev < 0 /\ -(n - s.prev) > wrap \div 2 -> Tally(s, n, max, back + n, 0, 0)
               [] OTHER -> Tally(s, s.prev, max, 0, 0, 1)
        /\ countC(w, s, n) =
             CASE n - s.prev = 1 -> Tally(s, n, max, 0, 0, 0)
               [] n - s.prev = 0 -> Tally(s, n, max, 0, 1, 0)
               [] n - s.prev > 1 -> Tally(s, n, max, n - s.prev - 1, 0, 0)
               [] n - s.prev < 0 /\ -(n - s.prev) > wrap \div 2 ->
                    Tally(s, n, max, (back % U32) + n, 0, 0)
               [] OTHER -> Tally(s, s.prev, max, 0, 0, 1)
        /\ countRs(w, s, n) =
             CASE n - s.prev = 1 -> Tally(s, n, max, 0, 0, 0)
               [] n - s.prev = 0 -> Tally(s, n, max, 0, 1, 0)
               [] n - s.prev > 1 -> Tally(s, n, max, n - s.prev - 1, 0, 0)
               [] n - s.prev < 0 /\ -(n - s.prev) > wrap \div 2 ->
                    Tally(s, n, max, Larger(back + n, 0), 0, 0)
               [] OTHER -> Tally(s, s.prev, max, 0, 0, 1)
    BY <1>4, <2>4 DEF countGo, countC, countRs
  <2> HIDE DEF max, wrap, back
  <2>7. countC(w, s, n) = countGo(w, s, n) /\ countRs(w, s, n) = countGo(w, s, n)
    BY <2>3, <2>6
  <2>8. Referenced(countGo(w, s, n))
    BY <2>1, <2>5, <2>6
  <2> QED BY <2>7, <2>8
<1> QED BY <1>3, <1>4

(* The subscribers agree.                                                  *)
Alike == Sound /\ go = c /\ c = rs /\ Referenced(go)

(***************************************************************************)
(* A step of the link keeps the three alike.                               *)
(***************************************************************************)
LEMMA StepAlike ==
  ASSUME Alike, [Next]_vars
  PROVE  Alike'
<1>1. Sound' /\ Sound /\ TypeOK
  BY StepTyped DEF Alike, Sound
<1>2. w \in {0, Wrap} /\ go \in Totals /\ smpCnt \in Cnts
  BY <1>1 DEF TypeOK
<1>3. ASSUME NEW n \in Cnts, Count(n) PROVE Alike'
  BY <1>1, <1>2, <1>3, OneRule DEF Alike, Count
<1>4. ASSUME UNCHANGED <<go, c, rs>> PROVE Alike'
  BY <1>1, <1>4 DEF Alike, Referenced
<1>5. CASE Repeat
  BY <1>1, <1>3, <1>5 DEF Repeat, Sound
<1>6. CASE Late
  BY <1>3, <1>6 DEF Late, Cnts
<1> QED BY <1>2, <1>3, <1>4, <1>5, <1>6 DEF Next, Deliver, Lose, vars

(***************************************************************************)
(* They start alike.                                                       *)
(***************************************************************************)
LEMMA AlikeAtFirst == Init => Alike
BY Starts DEF Init, IInv, Alike, Referenced, Fresh

(***************************************************************************)
(* The Go, the C and the Rust sv-subscriber report the same totals of the  *)
(* same ASDUs, whatever is lost, repeated or late, whether or not they     *)
(* know the wrap: for every wrap below 2^32, int, uint32 and i64 agree.    *)
(***************************************************************************)
THEOREM CountsAlike == Spec => [](go = c /\ c = rs)
<1>1. Alike => go = c /\ c = rs
  BY DEF Alike
<1>2. Alike /\ [Next]_vars => Alike'
  BY StepAlike
<1> QED BY <1>1, <1>2, AlikeAtFirst, PTL DEF Spec

(* A stream in order, of which no more was called lost than was lost.      *)
Bounded(s, last, lost) ==
  /\ s \in Totals
  /\ s.prev = last
  /\ s.lost <= lost
  /\ Tallied(s)

Near ==
  /\ delivered = 0 => dropped = 0 /\ repeated = 0 /\ go = Fresh
  /\ delivered > 0 => Ahead(go.prev) /\ go.prev \in Cnts /\ Bounded(go, go.prev, dropped)

(***************************************************************************)
(* A gap across the wrap is not overcounted, with the wrap of the fixture  *)
(* or with one learnt from the largest smpCnt, which is no larger.         *)
(***************************************************************************)
LEMMA NextLearnt ==
  ASSUME w \in {0, Wrap}, ShortBursts,
         NEW s \in Totals, Referenced(s), NEW n \in Cnts, NEW g \in 0 .. MaxBurst,
         s.prev \in Cnts, s.lost + g <= MaxDropped,
         n = s.prev + g + 1 \/ n = s.prev + g + 1 - Wrap
  PROVE  LET t == countGo(w, s, n)
         IN  /\ t.prev = n
             /\ t.lost <= s.lost + g
             /\ t.received = s.received + 1
             /\ t.duplicates = s.duplicates
             /\ t.outOfOrder = s.outOfOrder
<1> DEFINE max == Larger(s.maxSeen, n)
           wrap == IF w = 0 THEN max + 1 ELSE w
           lost == (wrap - 1 - s.prev) + n
<1>1. /\ Wrap \in Nat /\ U64 \in Nat /\ MaxBurst \in Nat /\ MaxDropped < U64 /\ MaxDropped \in Nat
      /\ s.maxSeen \in Cnts /\ s.lost \in Nat /\ s.prev <= s.maxSeen /\ s.prev # None
  BY WordAssumption, LinkAssumption DEF Totals, Referenced, Cnts, None
<1>2. max \in Cnts /\ max >= s.maxSeen /\ wrap \in Nat /\ wrap <= Wrap /\ wrap > max
  BY <1>1 DEF Cnts, Larger
<1>3. ASSUME NEW l \in 0 .. g
      PROVE  LET t == Tally(s, n, max, l, 0, 0)
             IN  /\ t.prev = n /\ t.lost <= s.lost + g /\ t.received = s.received + 1
                 /\ t.duplicates = s.duplicates /\ t.outOfOrder = s.outOfOrder
  <2>1. s.lost + l \in Nat /\ s.lost + l < U64 /\ s.lost + l <= s.lost + g
    BY <1>1
  <2>2. (s.lost + l) % U64 = s.lost + l
    BY <1>1, <2>1, BelowWord
  <2> QED BY <2>1, <2>2 DEF Tally, Totals
<1> HIDE DEF max
<1>4. CASE n = s.prev + g + 1
  <2>1. countGo(w, s, n) = Tally(s, n, max, g, 0, 0)
    <3>1. CASE g = 0
      BY <1>1, <1>4, <3>1 DEF countGo, Cnts, max
    <3>2. CASE g > 0
      BY <1>1, <1>4, <3>2 DEF countGo, Cnts, max
    <3> QED BY <3>1, <3>2
  <2>2. g \in 0 .. g
    BY <1>1
  <2> QED BY <1>3, <2>1, <2>2
<1>5. CASE n = s.prev + g + 1 - Wrap
  <2>1. n - s.prev < 0 /\ s.prev - n > Wrap \div 2 /\ Wrap # 0
    BY <1>1, <1>5 DEF ShortBursts, Cnts
  <2>2. Wrap \div 2 >= wrap \div 2
    <3> HIDE DEF wrap
    <3> QED BY <1>1, <1>2
  <2>3. -(n - s.prev) > wrap \div 2
    <3>1. wrap \div 2 \in Int /\ Wrap \div 2 \in Int /\ s.prev \in Int /\ n \in Int
      BY <1>1, <1>2 DEF Cnts
    <3> HIDE DEF wrap
    <3> QED BY <2>1, <2>2, <3>1
  <2>4. lost \in 0 .. g
    BY <1>1, <1>2, <1>5 DEF Cnts
  <2>5. countGo(w, s, n) = Tally(s, n, max, lost, 0, 0)
    <3>1. s.prev \in Int /\ n \in Int
      BY <1>1 DEF Cnts
    <3>2. countGo(w, s, n) =
             CASE n - s.prev = 1 -> Tally(s, n, max, 0, 0, 0)
               [] n - s.prev = 0 -> Tally(s, n, max, 0, 1, 0)
               [] n - s.prev > 1 -> Tally(s, n, max, n - s.prev - 1, 0, 0)
               [] n - s.prev < 0 /\ -(n - s.prev) > wrap \div 2 -> Tally(s, n, max, lost, 0, 0)
               [] OTHER -> Tally(s, s.prev, max, 0, 0, 1)
      BY <1>1 DEF countGo, max
    <3> HIDE DEF wrap, lost
    <3> QED BY <2>1, <2>3, <3>1, <3>2
  <2> HIDE DEF lost
  <2> QED BY <1>3, <2>4, <2>5
<1> QED BY <1>4, <1>5

(***************************************************************************)
(* A step of the link, for a program that learns the wrap.                 *)
(***************************************************************************)
LEMMA StepNear ==
  ASSUME ShortBursts, Alike, late = 0 => Near, [Next]_vars, late' = 0
  PROVE  Near'
<1> USE LinkAssumption, WordAssumption
<1>n. /\ smpCnt \in Cnts /\ gap \in 0 .. MaxBurst /\ dropped \in 0 .. MaxDropped
      /\ delivered \in Nat /\ repeated \in Nat /\ late \in Nat /\ go \in Totals
      /\ w \in {0, Wrap} /\ dropped + gap <= MaxDropped /\ Referenced(go)
  BY DEF Alike, Sound, TypeOK
<1>s. Sound'
  BY StepTyped DEF Alike
<1>t. go' \in Totals
  BY <1>s DEF Sound, TypeOK
<1>l. ~Late
  BY <1>n DEF Late
<1>e. Near
  <2>1. late = 0
    BY <1>l, <1>n DEF Next, Deliver, Lose, Repeat, vars, truth
  <2> QED BY <2>1
<1>1. CASE Deliver
  <2>0. /\ go' = countGo(w, go, smpCnt) /\ gap' = 0 /\ delivered' = delivered + 1
        /\ dropped' = (IF delivered = 0 THEN dropped ELSE dropped + gap)
        /\ repeated' = repeated /\ smpCnt' = After(smpCnt)
    BY <1>1 DEF Deliver, Count
  <2>1. CASE delivered = 0
    <3>1. go' = [prev |-> smpCnt, maxSeen |-> smpCnt, received |-> 1,
                 lost |-> 0, duplicates |-> 0, outOfOrder |-> 0]
      BY <1>n, <1>e, <2>0, <2>1, FirstGo DEF Near
    <3>2. Ahead(go.prev)' /\ go'.prev \in Cnts
      BY <1>n, <2>0, <3>1 DEF After, Ahead, Cnts
    <3>3. Bounded(go, go.prev, dropped)'
      BY <1>n, <1>e, <1>t, <2>0, <2>1, <3>1 DEF Near, Bounded, Tallied
    <3> QED BY <1>n, <2>0, <2>1, <3>2, <3>3 DEF Near
  <2>2. CASE delivered > 0
    <3>1. go.prev \in Cnts /\ Ahead(go.prev) /\ Bounded(go, go.prev, dropped)
      BY <1>e, <2>2 DEF Near
    <3>2. go.lost \in Nat /\ go.lost + gap <= MaxDropped
      BY <1>n, <3>1 DEF Bounded, Totals
    <3>3. /\ go'.prev = smpCnt /\ go'.lost <= go.lost + gap
          /\ go'.received = go.received + 1
          /\ go'.duplicates = go.duplicates /\ go'.outOfOrder = go.outOfOrder
      BY <1>n, <2>0, <3>1, <3>2, NextLearnt DEF Ahead
    <3>4. go'.lost \in Nat
      BY <1>t DEF Totals
    <3>5. Bounded(go, go.prev, dropped)'
      BY <1>n, <1>t, <2>0, <2>2, <3>1, <3>2, <3>3, <3>4 DEF Bounded, Tallied
    <3>6. Ahead(go.prev)' /\ go'.prev \in Cnts
      BY <1>n, <2>0, <3>3 DEF Ahead, After, Cnts
    <3> QED BY <1>n, <2>0, <2>2, <3>5, <3>6 DEF Near
  <2> QED BY <1>n, <2>1, <2>2
<1>2. CASE Lose
  <2>1. /\ smpCnt' = After(smpCnt) /\ gap' = gap + 1 /\ gap < MaxBurst
        /\ UNCHANGED <<dropped, delivered, repeated, go>>
    BY <1>2 DEF Lose, truth
  <2>2. delivered > 0 => Ahead(go.prev)'
    BY <1>n, <1>e, <2>1 DEF Near, Ahead, After, Cnts, ShortBursts
  <2> QED BY <1>n, <1>e, <2>1, <2>2 DEF Near, Bounded, Tallied
<1>3. CASE Repeat
  <2>1. /\ delivered > 0 /\ repeated' = repeated + 1 /\ go' = countGo(w, go, go.prev)
        /\ UNCHANGED <<smpCnt, gap, dropped, delivered>>
    BY <1>3 DEF Repeat, publisher, Count
  <2>2. go.prev \in Cnts /\ Bounded(go, go.prev, dropped) /\ Ahead(go.prev)
    BY <1>e, <2>1 DEF Near
  <2>3. Doubled(go', go)
    BY <1>n, <2>1, <2>2, AgainGo
  <2>4. Bounded(go, go.prev, dropped)' /\ Ahead(go.prev)' /\ go'.prev \in Cnts
    BY <1>n, <1>t, <2>1, <2>2, <2>3 DEF Bounded, Doubled, Tallied, Ahead
  <2> QED BY <1>n, <2>1, <2>4 DEF Near
<1>4. CASE UNCHANGED vars
  <2>1. UNCHANGED <<smpCnt, gap, dropped, delivered, repeated, go>>
    BY <1>4 DEF vars, publisher, truth
  <2> QED BY <1>e, <2>1 DEF Near, Bounded, Tallied, Ahead
<1> QED BY <1>1, <1>2, <1>3, <1>4, <1>l DEF Next

(***************************************************************************)
(* SameCounts, for every wrap, burst length and number of ASDUs: the three *)
(* agree, and while the order is kept a subscriber that learns the wrap    *)
(* from what it sees never reports more lost than the link lost.           *)
(***************************************************************************)
THEOREM NeverTooMany ==
  ASSUME ShortBursts
  PROVE  Spec => []SameCounts
<1> DEFINE I == Alike /\ (late = 0 => Near)
<1>1. Init => I
  BY AlikeAtFirst DEF Init, Near
<1>2. I /\ [Next]_vars => I'
  BY StepAlike, StepNear
<1>3. I => SameCounts
  <2> SUFFICES ASSUME I PROVE SameCounts
    OBVIOUS
  <2>1. delivered \in Nat /\ dropped \in Nat
    BY DEF Alike, Sound, TypeOK
  <2>2. late = 0 => Tallied(go) /\ go.lost <= dropped
    BY <2>1 DEF Near, Bounded, Tallied, Fresh
  <2> QED BY <2>2 DEF Alike, SameCounts
<1> QED BY <1>1, <1>2, <1>3, PTL DEF Spec

-----------------------------------------------------------------------------
(* The tables of the C and the Rust sv-subscriber.                         *)

(* Induction over the ASDUs of a frame, for a set of numbers.              *)
LEMMA AllNumbers ==
  ASSUME NEW T \in SUBSET Nat, 0 \in T, \A n \in Nat : n \in T => n + 1 \in T
  PROVE  T = Nat
<1> SUFFICES ASSUME Nat \ T # {} PROVE FALSE
  OBVIOUS
<1> DEFINE R == {ss \in Nat \X Nat : ss[1] < ss[2]}
           S == Nat \ T
<1>1. IsWellFoundedOn(R, Nat)
  BY NatLessThanWellFounded DEF OpToRel
<1>2. ASSUME NEW x \in Nat, NEW y \in Nat, y < x PROVE <<y, x>> \in R
  BY <1>2
<1>3. S \in SUBSET Nat /\ S # {}
  OBVIOUS
<1> HIDE DEF R, S
<1>4. PICK x \in S : \A y \in S : ~(<<y, x>> \in R)
  BY <1>1, <1>3, WFMin
<1>5. \A y \in S : x \in Nat /\ y \in Nat /\ ~(y < x)
  BY <1>2, <1>3, <1>4
<1>6. x \in Nat /\ x \notin T
  BY <1>4 DEF S
<1>7. x # 0 /\ x - 1 \in Nat /\ x - 1 < x /\ (x - 1) + 1 = x
  BY <1>6
<1>8. x - 1 \notin T
  BY <1>6, <1>7
<1> QED
  BY <1>5, <1>7, <1>8 DEF S

(***************************************************************************)
(* Every count counts an ASDU as received.                                 *)
(***************************************************************************)
LEMMA OneReceived ==
  ASSUME NEW m, NEW wr, NEW s, NEW n
  PROVE  /\ C(m)!countC(wr, s, n).received = s.received + 1
         /\ Rs!countRs(wr, s, n).received = s.received + 1
<1>1. \A p, x, l, d, o : C(m)!Tally(s, p, x, l, d, o).received = s.received + 1
  BY DEF C!Tally
<1>2. C(m)!countC(wr, s, n).received = s.received + 1
  BY <1>1 DEF C!countC
<1>3. \A p, x, l, d, o : Rs!Tally(s, p, x, l, d, o).received = s.received + 1
  BY DEF Rs!Tally
<1>4. Rs!countRs(wr, s, n).received = s.received + 1
  BY <1>3 DEF Rs!countRs
<1> QED
  BY <1>2, <1>4

(***************************************************************************)
(* The two programs take these operators from the same modules.            *)
(***************************************************************************)
LEMMA SharedC ==
  ASSUME NEW m
  PROVE  \A t : C(m)!Range(t) = Range(t)
BY DEF C!Range, Range

(***************************************************************************)
(* How many ASDUs of a stream there are among the first n, and n + 1.      *)
(***************************************************************************)
LEMMA MatchingNext ==
  ASSUME NEW f, NEW s, NEW n \in Nat
  PROVE  /\ Matching(f, s, 0) = 0 /\ Matching(f, s, n) \in Nat
         /\ <<f.app, f.asdus[n + 1].sv>> = s => Matching(f, s, n + 1) = Matching(f, s, n) + 1
         /\ <<f.app, f.asdus[n + 1].sv>> # s => Matching(f, s, n + 1) = Matching(f, s, n)
<1> DEFINE M(k) == {i \in 1 .. k : <<f.app, f.asdus[i].sv>> = s}
<1>1. M(0) = {}
  OBVIOUS
<1>2. IsFiniteSet(1 .. n)
  BY FS_Interval
<1>3. M(n) \in SUBSET (1 .. n)
  OBVIOUS
<1>4. IsFiniteSet(M(n))
  <2> HIDE DEF M
  <2> QED
    BY <1>2, <1>3, FS_Subset
<1>5. n + 1 \notin M(n)
  OBVIOUS
<1>6. CASE <<f.app, f.asdus[n + 1].sv>> = s
  <2>1. M(n + 1) = M(n) \cup {n + 1}
    BY <1>6
  <2> HIDE DEF M
  <2>2. Cardinality(M(n + 1)) = Cardinality(M(n)) + 1
    BY <1>4, <1>5, <2>1, FS_AddElement
  <2>3. Cardinality(M(n)) \in Nat /\ Cardinality(M(0)) = 0
    BY <1>1, <1>4, FS_CardinalityType, FS_EmptySet
  <2> QED
    BY <1>6, <2>2, <2>3 DEF Matching, M
<1>7. CASE <<f.app, f.asdus[n + 1].sv>> # s
  <2>1. M(n + 1) = M(n)
    BY <1>7
  <2> HIDE DEF M
  <2>2. Cardinality(M(n)) \in Nat /\ Cardinality(M(0)) = 0
    BY <1>1, <1>4, FS_CardinalityType, FS_EmptySet
  <2> QED
    BY <1>7, <2>1, <2>2 DEF Matching, M
<1> QED
  BY <1>6, <1>7

(***************************************************************************)
(* A sequence without repetitions is no longer than the set it is from,    *)
(* and shorter if something of the set is missing.                         *)
(***************************************************************************)
LEMMA RoomLeft ==
  ASSUME NEW S, IsFiniteSet(S), NEW max \in Nat, Cardinality(S) <= max,
         NEW t, NEW T, t \in Seq(T), IsInjective(t), \A i \in DOMAIN t : t[i] \in S,
         NEW x \in S, \A i \in DOMAIN t : t[i] # x
  PROVE  Len(t) < max
<1> DEFINE D == 1 .. Len(t)
           R == S \ {x}
<1>1. Len(t) \in Nat /\ DOMAIN t = D /\ t \in [D -> T]
  BY LenProperties
<1>2. \A i \in D : t[i] \in R
  BY <1>1
<1>3. t \in Injection(D, R)
  BY <1>1, <1>2 DEF Injection, IsInjective
<1>4. IsFiniteSet(R) /\ Cardinality(R) = Cardinality(S) - 1
  BY FS_RemoveElement
<1>5. Cardinality(D) = Len(t)
  <2>1. \A k \in Nat : Cardinality(1 .. k) = k
    BY FS_Interval
  <2> QED
    BY <1>1, <2>1
<1>6. Cardinality(S) \in Nat
  BY FS_CardinalityType
<1> HIDE DEF D, R
<1>7. Cardinality(D) <= Cardinality(R)
  BY <1>3, <1>4, FS_Injection
<1> QED
  BY <1>1, <1>4, <1>5, <1>6, <1>7

(***************************************************************************)
(* A table gains at most the new entry, at its end.                        *)
(***************************************************************************)
LEMMA OneMore ==
  ASSUME NEW T, NEW t \in Seq(T), IsInjective(t), NEW x \in T, x \notin Range(t)
  PROVE  /\ Append(t, x) \in Seq(T) /\ Len(Append(t, x)) = Len(t) + 1
         /\ IsInjective(Append(t, x)) /\ Range(Append(t, x)) = Range(t) \cup {x}
<1> DEFINE u == Append(t, x)
<1>1. u \in Seq(T) /\ Len(u) = Len(t) + 1 /\ Len(t) \in Nat
  OBVIOUS
<1>2. DOMAIN t = 1 .. Len(t) /\ DOMAIN u = 1 .. Len(t) + 1
  OBVIOUS
<1>3. \A i \in 1 .. Len(t) : u[i] = t[i]
  OBVIOUS
<1>4. u[Len(t) + 1] = x
  OBVIOUS
<1> HIDE DEF u
<1>5. 1 .. Len(t) + 1 = (1 .. Len(t)) \cup {Len(t) + 1}
  BY <1>1
<1>6. \A i \in 1 .. Len(t) : t[i] # x
  BY <1>2 DEF Range
<1>7. IsInjective(u)
  <2> SUFFICES ASSUME NEW i \in DOMAIN u, NEW j \in DOMAIN u, u[i] = u[j] PROVE i = j
    BY DEF IsInjective
  <2>1. \A a, b \in DOMAIN t : t[a] = t[b] => a = b
    BY DEF IsInjective
  <2> QED
    BY <1>2, <1>3, <1>4, <1>5, <1>6, <2>1
<1>8. Range(u) = Range(t) \cup {x}
  BY <1>2, <1>3, <1>4, <1>5 DEF Range
<1> QED
  BY <1>1, <1>7, <1>8 DEF u

(***************************************************************************)
(* stream_for: the stream had its entry, or finds no room, or gets one.    *)
(***************************************************************************)
LEMMA StreamFor ==
  ASSUME NEW m \in Nat, NEW T, NEW t \in Seq(T), IsInjective(t), Len(t) <= m, NEW x \in T
  PROVE  LET u == C(m)!stream_for(t, x)
         IN  /\ u \in Seq(T) /\ Len(u) <= m /\ IsInjective(u)
             /\ \/ u = t /\ x \in Range(t)
                \/ u = t /\ x \notin Range(t) /\ Len(t) = m
                \/ x \notin Range(t) /\ Range(u) = Range(t) \cup {x} /\ Len(t) < m
<1>1. CASE x \in Range(t)
  BY <1>1, SharedC DEF C!stream_for
<1>2. CASE x \notin Range(t) /\ Len(t) = m
  BY <1>2, SharedC DEF C!stream_for, C!Full
<1>3. CASE x \notin Range(t) /\ Len(t) # m
  <2>1. C(m)!stream_for(t, x) = Append(t, x)
    BY <1>3, SharedC DEF C!stream_for, C!Full
  <2>2. Len(t) \in Nat
    OBVIOUS
  <2>3. Append(t, x) \in Seq(T) /\ Len(Append(t, x)) = Len(t) + 1
    BY <1>3, OneMore
  <2>4. IsInjective(Append(t, x)) /\ Range(Append(t, x)) = Range(t) \cup {x}
    BY <1>3, OneMore
  <2> QED
    BY <1>3, <2>1, <2>2, <2>3, <2>4
<1> QED
  BY <1>1, <1>2, <1>3

(* The tables of the C adapter: streams that have an entry are counted     *)
(* completely, and of an APPID that has an SVSubscriber; the others are    *)
(* not counted, for want of room.                                          *)
Entries(m, kn, ct, acc, subs) ==
  /\ kn \in Seq(Streams) /\ Len(kn) <= m /\ IsInjective(kn)
  /\ DOMAIN ct = Streams
  /\ \A s \in Range(kn) : ct[s].received = acc[s] /\ acc[s] # 0 /\ s[1] \in Range(subs)
  /\ \A s \in Streams \ Range(kn) : ct[s].received = 0
  /\ \A s \in Streams \ Range(kn) :
       acc[s] = 0 \/ Len(kn) = m \/ (s[1] \notin Range(subs) /\ Len(subs) = m)

(***************************************************************************)
(* listener keeps the tables, with the ASDU accepted.                      *)
(***************************************************************************)
LEMMA ListenerKeeps ==
  ASSUME NEW m \in Nat, NEW kn, NEW ct, NEW acc, NEW subs, Entries(m, kn, ct, acc, subs),
         NEW app \in Range(subs), NEW a, <<app, a.sv>> \in Streams,
         NEW acc2, acc2[<<app, a.sv>>] = acc[<<app, a.sv>>] + 1, acc[<<app, a.sv>>] \in Nat,
         \A s \in Streams : s # <<app, a.sv>> => acc2[s] = acc[s]
  PROVE  LET st == C(m)!listener([known |-> kn, cnt |-> ct], app, a)
         IN  Entries(m, st.known, st.cnt, acc2, subs)
<1> DEFINE s == <<app, a.sv>>
           u == C(m)!stream_for(kn, s)
           st == C(m)!listener([known |-> kn, cnt |-> ct], app, a)
<1>1. /\ kn \in Seq(Streams) /\ Len(kn) <= m /\ IsInjective(kn) /\ DOMAIN ct = Streams
  BY DEF Entries
<1>2. /\ \A q \in Range(kn) : ct[q].received = acc[q] /\ acc[q] # 0 /\ q[1] \in Range(subs)
      /\ \A q \in Streams \ Range(kn) : ct[q].received = 0
      /\ \A q \in Streams \ Range(kn) :
           acc[q] = 0 \/ Len(kn) = m \/ (q[1] \notin Range(subs) /\ Len(subs) = m)
  BY DEF Entries
<1>3. s \in Streams /\ s[1] \in Range(subs) /\ acc2[s] = acc[s] + 1
  OBVIOUS
<1>4. st.known = u
  BY DEF C!listener
<1>5. st.cnt = IF s \in Range(u) THEN [ct EXCEPT ![s] = C(m)!countC(SmpCntWrap[a.sv], @, a.cnt)]
               ELSE ct
  BY SharedC DEF C!listener
<1> HIDE DEF u, st
<1>6. /\ u \in Seq(Streams) /\ Len(u) <= m /\ IsInjective(u)
      /\ \/ u = kn /\ s \in Range(kn)
         \/ u = kn /\ s \notin Range(kn) /\ Len(kn) = m
         \/ s \notin Range(kn) /\ Range(u) = Range(kn) \cup {s} /\ Len(kn) < m
  <2> HIDE DEF s
  <2> QED
    BY <1>1, <1>3, StreamFor DEF u
<1>7. Len(kn) \in Nat
  BY <1>1
<1>8. s \in Range(u) => st.cnt[s].received = ct[s].received + 1
  BY <1>1, <1>3, <1>5, OneReceived
<1>9. DOMAIN st.cnt = Streams
  BY <1>1, <1>5
<1>10. \A q \in Streams : q # s => st.cnt[q] = ct[q]
  BY <1>1, <1>5
<1>11. \A q \in Streams : q # s => acc2[q] = acc[q]
  OBVIOUS
<1>12. acc[s] \in Nat /\ acc2[s] # 0
  OBVIOUS
<1>13. \A q \in Range(u) : q \in Streams
  BY <1>6 DEF Range
<1> HIDE DEF s
<1>14. CASE u = kn /\ s \in Range(kn)
  <2>1. \A q \in Range(u) : st.cnt[q].received = acc2[q] /\ acc2[q] # 0 /\ q[1] \in Range(subs)
    BY <1>2, <1>3, <1>8, <1>10, <1>11, <1>12, <1>13, <1>14
  <2>2. \A q \in Streams \ Range(u) : st.cnt[q].received = 0
    BY <1>2, <1>10, <1>14
  <2>3. \A q \in Streams \ Range(u) :
          acc2[q] = 0 \/ Len(u) = m \/ (q[1] \notin Range(subs) /\ Len(subs) = m)
    BY <1>2, <1>11, <1>14
  <2> QED
    BY <1>4, <1>6, <1>9, <2>1, <2>2, <2>3 DEF Entries, st
<1>15. CASE u = kn /\ s \notin Range(kn) /\ Len(kn) = m
  <2>1. st.cnt = ct
    BY <1>5, <1>15
  <2>2. \A q \in Range(u) : st.cnt[q].received = acc2[q] /\ acc2[q] # 0 /\ q[1] \in Range(subs)
    BY <1>2, <1>11, <1>13, <1>15, <2>1
  <2>3. \A q \in Streams \ Range(u) : st.cnt[q].received = 0
    BY <1>2, <1>15, <2>1
  <2>4. \A q \in Streams \ Range(u) :
          acc2[q] = 0 \/ Len(u) = m \/ (q[1] \notin Range(subs) /\ Len(subs) = m)
    BY <1>15
  <2> QED
    BY <1>4, <1>6, <1>9, <2>2, <2>3, <2>4 DEF Entries, st
<1>16. CASE s \notin Range(kn) /\ Range(u) = Range(kn) \cup {s} /\ Len(kn) < m
  <2>1. acc[s] = 0 /\ ct[s].received = 0
    BY <1>2, <1>3, <1>7, <1>16
  <2>2. st.cnt[s].received = acc2[s]
    BY <1>3, <1>8, <1>16, <2>1
  <2>3. \A q \in Range(u) : st.cnt[q].received = acc2[q] /\ acc2[q] # 0 /\ q[1] \in Range(subs)
    BY <1>2, <1>3, <1>10, <1>11, <1>12, <1>13, <1>16, <2>2
  <2>4. \A q \in Streams \ Range(u) : st.cnt[q].received = 0
    BY <1>2, <1>10, <1>16
  <2>5. \A q \in Streams \ Range(u) :
          acc2[q] = 0 \/ Len(u) = m \/ (q[1] \notin Range(subs) /\ Len(subs) = m)
    BY <1>2, <1>7, <1>11, <1>16
  <2> QED
    BY <1>4, <1>6, <1>9, <2>3, <2>4, <2>5 DEF Entries, st
<1> QED
  BY <1>6, <1>14, <1>15, <1>16

(* What handleL2Message goes through with N calls of listener, one per     *)
(* ASDU.                                                                   *)
RunsC(m, f, N, g) ==
  g = [n \in 0 .. N |->
         IF n = 0 THEN [known |-> known, cnt |-> cnt]
         ELSE C(m)!listener(g[n - 1], f.app, f.asdus[n])]

(***************************************************************************)
(* There is such a function, for every number of calls.                    *)
(***************************************************************************)
LEMMA RunsCExist ==
  ASSUME NEW m, NEW f
  PROVE  \A N \in Nat : \E g : RunsC(m, f, N, g)
<1> DEFINE T == {N \in Nat : \E g : RunsC(m, f, N, g)}
           L(st, n) == C(m)!listener(st, f.app, f.asdus[n])
           B == [known |-> known, cnt |-> cnt]
<1>1. 0 \in T
  <2> DEFINE h == [n \in 0 .. 0 |-> B]
  <2>1. h = [n \in 0 .. 0 |-> IF n = 0 THEN B ELSE L(h[n - 1], n)]
    <3>1. \A n \in 0 .. 0 : n = 0
      OBVIOUS
    <3> HIDE DEF B, L
    <3> QED
      BY <3>1
  <2>2. RunsC(m, f, 0, h)
    BY <2>1 DEF RunsC
  <2> QED
    BY <2>2
<1>2. ASSUME NEW N \in Nat, N \in T PROVE N + 1 \in T
  <2>1. PICK g : RunsC(m, f, N, g)
    BY <1>2
  <2>2. g = [n \in 0 .. N |-> IF n = 0 THEN B ELSE L(g[n - 1], n)]
    BY <2>1 DEF RunsC
  <2> DEFINE h == [n \in 0 .. N + 1 |-> IF n \in 0 .. N THEN g[n] ELSE L(g[N], N + 1)]
  <2> HIDE DEF B, L
  <2>3. \A n \in 0 .. N + 1 : n \in 0 .. N \/ n = N + 1
    OBVIOUS
  <2>4. N + 1 \notin 0 .. N /\ N + 1 # 0 /\ (N + 1) - 1 = N /\ N \in 0 .. N /\ N \in 0 .. N + 1
    OBVIOUS
  <2>5. \A n \in 0 .. N : n \in 0 .. N + 1 /\ (n # 0 => n - 1 \in 0 .. N /\ n - 1 \in 0 .. N + 1)
    OBVIOUS
  <2>6. \A n \in 0 .. N : h[n] = g[n]
    BY <2>5
  <2>7. h[N + 1] = L(g[N], N + 1)
    BY <2>4
  <2>8. \A n \in 0 .. N : g[n] = IF n = 0 THEN B ELSE L(g[n - 1], n)
    BY <2>2
  <2>9. h = [n \in 0 .. N + 1 |-> h[n]]
    OBVIOUS
  <2> HIDE DEF h
  <2>10. ASSUME NEW n \in 0 .. N + 1 PROVE h[n] = IF n = 0 THEN B ELSE L(h[n - 1], n)
    <3>1. CASE n \in 0 .. N
      BY <2>5, <2>6, <2>8, <3>1
    <3>2. CASE n = N + 1
      BY <2>4, <2>6, <2>7, <3>2
    <3> QED
      BY <2>3, <3>1, <3>2
  <2>11. h = [n \in 0 .. N + 1 |-> IF n = 0 THEN B ELSE L(h[n - 1], n)]
    BY <2>9, <2>10
  <2>12. RunsC(m, f, N + 1, h)
    BY <2>11 DEF RunsC, B, L
  <2> QED
    BY <2>12
<1> HIDE DEF T
<1>3. T \in SUBSET Nat
  BY DEF T
<1>4. T = Nat
  BY <1>1, <1>2, <1>3, AllNumbers
<1> QED
  BY <1>4 DEF T

(***************************************************************************)
(* Register keeps the SVSubscribers apart.                                 *)
(***************************************************************************)
LEMMA RegisterOne ==
  ASSUME NEW m \in Nat, subscribers \in Seq(AppIds), IsInjective(subscribers), Len(subscribers) <= m,
         NEW app \in AppIds
  PROVE  LET u == C(m)!Register(app)
         IN  /\ u \in Seq(AppIds) /\ Len(u) <= m /\ IsInjective(u)
             /\ \/ u = subscribers /\ app \in Range(subscribers)
                \/ u = subscribers /\ app \notin Range(subscribers) /\ Len(subscribers) = m
                \/ /\ app \notin Range(subscribers) /\ Range(u) = Range(subscribers) \cup {app}
                   /\ Len(subscribers) < m
<1>1. C(m)!Register(app) = C(m)!stream_for(subscribers, app)
  BY DEF C!Register, C!stream_for
<1> QED
  BY <1>1, StreamFor

(***************************************************************************)
(* An APPID has one SVSubscriber or none.                                  *)
(***************************************************************************)
LEMMA OwnOne ==
  ASSUME NEW m, NEW subs, IsInjective(subs), NEW app
  PROVE  LET own == C(m)!Cardinality({i \in DOMAIN subs : subs[i] = app})
         IN  IF app \in Range(subs) THEN own = 1 ELSE own = 0
<1> DEFINE S == {i \in DOMAIN subs : subs[i] = app}
<1>1. C(m)!Cardinality(S) = Cardinality(S)
  BY DEF C!Cardinality, Cardinality
<1>2. CASE app \in Range(subs)
  <2>1. PICK i \in DOMAIN subs : subs[i] = app
    BY <1>2 DEF Range
  <2>2. S = {i}
    BY <2>1 DEF IsInjective
  <2> HIDE DEF S
  <2>3. Cardinality(S) = 1
    BY <2>2, FS_Singleton
  <2> QED
    BY <1>1, <1>2, <2>3 DEF S
<1>3. CASE app \notin Range(subs)
  <2>1. S = {}
    BY <1>3 DEF Range
  <2> HIDE DEF S
  <2>2. Cardinality(S) = 0
    BY <2>1, FS_EmptySet
  <2> QED
    BY <1>1, <1>3, <2>2 DEF S
<1> QED
  BY <1>2, <1>3

(***************************************************************************)
(* What handleL2Message gives, for an APPID that has its SVSubscriber and  *)
(* for one that has none.                                                  *)
(***************************************************************************)
LEMMA HandleRuns ==
  ASSUME NEW m, NEW f, f.asdus \in Seq([sv : SvIds, cnt : Nat]),
         NEW subs, IsInjective(subs)
  PROVE  IF f.app \in Range(subs)
         THEN \E g : /\ RunsC(m, f, Len(f.asdus), g)
                     /\ C(m)!handleL2Message(f, subs) = g[Len(f.asdus)]
         ELSE C(m)!handleL2Message(f, subs) = [known |-> known, cnt |-> cnt]
<1> DEFINE own == C(m)!Cardinality({i \in DOMAIN subs : subs[i] = f.app})
           calls == own * Len(f.asdus)
           F(h) == [n \in 0 .. calls |->
                     IF n = 0 THEN [known |-> known, cnt |-> cnt]
                     ELSE C(m)!listener(h[n - 1], f.app, f.asdus[((n - 1) \div own) + 1])]
           g == CHOOSE h : h = F(h)
<1>1. C(m)!handleL2Message(f, subs) = g[calls]
  BY DEF C!handleL2Message
<1>2. Len(f.asdus) \in Nat
  OBVIOUS
<1>3. IF f.app \in Range(subs) THEN own = 1 ELSE own = 0
  BY OwnOne
<1>4. CASE f.app \in Range(subs)
  <2>1. own = 1
    BY <1>3, <1>4
  <2> HIDE DEF own
  <2>2. calls = Len(f.asdus)
    BY <1>2, <2>1
  <2> HIDE DEF calls
  <2>3. \A n \in 0 .. calls : n # 0 => ((n - 1) \div own) + 1 = n
    BY <1>2, <2>1, <2>2
  <2>4. \A h : F(h) = [n \in 0 .. calls |->
                        IF n = 0 THEN [known |-> known, cnt |-> cnt]
                        ELSE C(m)!listener(h[n - 1], f.app, f.asdus[n])]
    BY <2>3
  <2>5. \A h : h = F(h) <=> RunsC(m, f, Len(f.asdus), h)
    <3> HIDE DEF F
    <3> QED
      BY <2>2, <2>4 DEF RunsC
  <2>6. \E h : RunsC(m, f, Len(f.asdus), h)
    BY <1>2, RunsCExist
  <2>7. \E h : h = F(h)
    <3> HIDE DEF F
    <3> QED
      BY <2>5, <2>6
  <2>8. g = F(g)
    <3> HIDE DEF F
    <3> QED
      BY <2>7
  <2> HIDE DEF g, F
  <2> QED
    BY <1>1, <1>4, <2>2, <2>5, <2>8
<1>5. CASE f.app \notin Range(subs)
  <2>1. own = 0
    BY <1>3, <1>5
  <2> HIDE DEF own
  <2>2. calls = 0
    BY <1>2, <2>1
  <2> HIDE DEF calls
  <2> DEFINE h == [n \in 0 .. 0 |-> [known |-> known, cnt |-> cnt]]
  <2>3. \A n \in 0 .. calls : n = 0
    BY <2>2
  <2>4. \A x : F(x) = h
    BY <2>2, <2>3
  <2>5. 0 \in 0 .. 0
    OBVIOUS
  <2>6. h[0] = [known |-> known, cnt |-> cnt]
    BY <2>5
  <2> HIDE DEF F, h
  <2>7. h = F(h)
    BY <2>4
  <2>8. g = F(g)
    BY <2>7
  <2> QED
    BY <1>1, <1>5, <2>2, <2>4, <2>6, <2>8
<1> QED
  BY <1>4, <1>5

(***************************************************************************)
(* What a frame is.                                                        *)
(***************************************************************************)
LEMMA FrameType ==
  ASSUME NEW f \in Frames
  PROVE  /\ f.app \in AppIds /\ f.asdus \in Seq([sv : SvIds, cnt : Nat])
         /\ Len(f.asdus) \in Nat /\ DOMAIN f.asdus = 1 .. Len(f.asdus)
         /\ \A i \in 1 .. Len(f.asdus) : f.asdus[i].sv \in SvIds
<1>1. f \in [app : AppIds, asdus : Seq([sv : SvIds, cnt : Nat])]
  BY ReceivingAssumption
<1>2. f.app \in AppIds /\ f.asdus \in Seq([sv : SvIds, cnt : Nat])
  BY <1>1
<1> DEFINE T == [sv : SvIds, cnt : Nat]
<1>3. \A x \in T : x.sv \in SvIds
  OBVIOUS
<1> HIDE DEF T
<1>4. f.asdus \in Seq(T)
  BY <1>2 DEF T
<1>5. Len(f.asdus) \in Nat /\ DOMAIN f.asdus = 1 .. Len(f.asdus)
  BY <1>4
<1>6. \A i \in 1 .. Len(f.asdus) : f.asdus[i] \in T
  BY <1>4
<1> QED
  BY <1>2, <1>3, <1>5, <1>6

(* accepted with the first n ASDUs of f.                                   *)
AcceptedWith(f, n) == [s \in Streams |-> accepted[s] + Matching(f, s, n)]

(***************************************************************************)
(* The ASDUs of a frame, one by one, keep the tables.                      *)
(***************************************************************************)
LEMMA FrameKeepsC ==
  ASSUME NEW m \in Nat, NEW f \in Frames, accepted \in [Streams -> Nat],
         NEW subs, Entries(m, known, cnt, accepted, subs), f.app \in Range(subs),
         NEW g, RunsC(m, f, Len(f.asdus), g)
  PROVE  LET st == g[Len(f.asdus)]
         IN  Entries(m, st.known, st.cnt, AcceptedWith(f, Len(f.asdus)), subs)
<1> DEFINE E(n) == Entries(m, g[n].known, g[n].cnt, AcceptedWith(f, n), subs)
           k == Len(f.asdus)
           T == {n \in Nat : n <= k => E(n)}
<1>1. /\ f.app \in AppIds /\ k \in Nat
      /\ \A i \in 1 .. k : f.asdus[i].sv \in SvIds
  BY FrameType
<1>2. \A n \in 0 .. k : g[n] = IF n = 0 THEN [known |-> known, cnt |-> cnt]
                                ELSE C(m)!listener(g[n - 1], f.app, f.asdus[n])
  BY DEF RunsC
<1>3. 0 \in 0 .. k
  BY <1>1
<1>4. 0 \in T
  <2>1. g[0].known = known /\ g[0].cnt = cnt
    BY <1>2, <1>3
  <2>2. \A s : Matching(f, s, 0) = 0
    BY MatchingNext
  <2>3. AcceptedWith(f, 0) = accepted
    BY <2>2 DEF AcceptedWith
  <2> QED
    BY <2>1, <2>3
<1>5. ASSUME NEW n \in Nat, n \in T PROVE n + 1 \in T
  <2> SUFFICES ASSUME n + 1 <= k PROVE E(n + 1)
    OBVIOUS
  <2> DEFINE a == f.asdus[n + 1]
  <2>1. n <= k /\ n \in 0 .. k /\ n + 1 \in 0 .. k /\ n + 1 \in 1 .. k /\ n + 1 # 0 /\ (n + 1) - 1 = n
    BY <1>1
  <2>2. E(n)
    BY <1>5, <2>1
  <2>3. g[n + 1] = C(m)!listener(g[n], f.app, a)
    BY <1>2, <2>1
  <2>4. g[n + 1] = C(m)!listener([known |-> g[n].known, cnt |-> g[n].cnt], f.app, a)
    BY <2>3 DEF C!listener
  <2>5. <<f.app, a.sv>> \in Streams
    BY <1>1, <2>1 DEF Streams
  <2>6. /\ \A s : Matching(f, s, n) \in Nat
        /\ Matching(f, <<f.app, a.sv>>, n + 1) = Matching(f, <<f.app, a.sv>>, n) + 1
        /\ \A s : s # <<f.app, a.sv>> => Matching(f, s, n + 1) = Matching(f, s, n)
    BY MatchingNext
  <2> HIDE DEF a
  <2>7. /\ AcceptedWith(f, n)[<<f.app, a.sv>>] \in Nat
        /\ AcceptedWith(f, n + 1)[<<f.app, a.sv>>] = AcceptedWith(f, n)[<<f.app, a.sv>>] + 1
        /\ \A s \in Streams : s # <<f.app, a.sv>> => AcceptedWith(f, n + 1)[s] = AcceptedWith(f, n)[s]
    BY <2>5, <2>6 DEF AcceptedWith
  <2> QED
    BY <2>2, <2>4, <2>5, <2>7, ListenerKeeps
<1> HIDE DEF E
<1>6. T \in SUBSET Nat
  OBVIOUS
<1> HIDE DEF T
<1>7. T = Nat
  BY <1>4, <1>5, <1>6, AllNumbers
<1>8. E(k)
  <2>1. k \in T /\ k <= k
    BY <1>1, <1>7
  <2> QED
    BY <2>1 DEF T
<1> QED
  BY <1>8 DEF E

(* The C program.                                                          *)
InvC(m) ==
  /\ rx \in Seq(Frames)
  /\ accepted \in [Streams -> Nat]
  /\ \A s \in Streams : accepted[s] # 0 => s \in WireStreams
  /\ subscribers \in Seq(AppIds) /\ Len(subscribers) <= m /\ IsInjective(subscribers)
  /\ Range(subscribers) \subseteq WireApps
  /\ Entries(m, known, cnt, accepted, subscribers)

(***************************************************************************)
(* What a frame adds to accepted.                                          *)
(***************************************************************************)
LEMMA AcceptedMore ==
  ASSUME accepted \in [Streams -> Nat], \A s \in Streams : accepted[s] # 0 => s \in WireStreams,
         NEW f \in Frames
  PROVE  LET acc == AcceptedWith(f, Len(f.asdus))
         IN  /\ acc \in [Streams -> Nat]
             /\ \A s \in Streams : acc[s] # 0 => s \in WireStreams
             /\ \A s \in Streams : s[1] # f.app => acc[s] = accepted[s]
<1> DEFINE k == Len(f.asdus)
           acc == AcceptedWith(f, k)
<1>1. k \in Nat /\ f.asdus \in Seq([sv : SvIds, cnt : Nat]) /\ DOMAIN f.asdus = 1 .. k
  BY FrameType
<1>2. \A s : Matching(f, s, k) \in Nat
  BY <1>1, MatchingNext
<1>3. ASSUME NEW s, \A i \in 1 .. k : <<f.app, f.asdus[i].sv>> # s PROVE Matching(f, s, k) = 0
  <2>1. {i \in 1 .. k : <<f.app, f.asdus[i].sv>> = s} = {}
    BY <1>3
  <2> QED
    BY <2>1, FS_EmptySet DEF Matching
<1>4. \A s \in Streams : acc[s] = accepted[s] + Matching(f, s, k)
  BY DEF AcceptedWith
<1>5. acc \in [Streams -> Nat]
  BY <1>2 DEF AcceptedWith
<1>6. ASSUME NEW s \in Streams, acc[s] # 0 PROVE s \in WireStreams
  <2>1. CASE accepted[s] # 0
    BY <2>1
  <2>2. CASE Matching(f, s, k) # 0
    <3>1. PICK i \in 1 .. k : <<f.app, f.asdus[i].sv>> = s
      BY <1>3, <2>2
    <3> QED
      BY <1>1, <3>1 DEF WireStreams
  <2>3. accepted[s] = 0 /\ Matching(f, s, k) = 0 => acc[s] = 0
    <3>1. acc[s] = accepted[s] + Matching(f, s, k)
      BY <1>4
    <3>2. accepted[s] \in Nat /\ Matching(f, s, k) \in Nat
      BY <1>2
    <3> HIDE DEF acc, k
    <3> QED
      BY <3>1, <3>2
  <2> QED
    BY <1>6, <2>1, <2>2, <2>3
<1>7. ASSUME NEW s \in Streams, s[1] # f.app PROVE acc[s] = accepted[s]
  <2>1. \A i \in 1 .. k : <<f.app, f.asdus[i].sv>> # s
    BY <1>7
  <2>2. Matching(f, s, k) = 0
    BY <1>3, <2>1
  <2>3. accepted[s] \in Nat
    OBVIOUS
  <2> QED
    BY <1>4, <2>2, <2>3
<1> HIDE DEF acc
<1> QED
  BY <1>5, <1>6, <1>7 DEF acc

(***************************************************************************)
(* Inner: the frame's APPID is registered, its ASDUs are counted.          *)
(***************************************************************************)
LEMMA InnerKeepsC ==
  ASSUME NEW m \in Nat, InvC(m), C(m)!Inner
  PROVE  InvC(m)'
<1> DEFINE f == Head(rx)
           k == Len(f.asdus)
           u == C(m)!Register(f.app)
           st == C(m)!handleL2Message(f, u)
<1>1. rx \in Seq(Frames) /\ rx # << >> /\ rx' = Tail(rx)
  BY DEF InvC, C!Inner
<1>2. f \in Frames /\ rx' \in Seq(Frames)
  BY <1>1, HeadTailProperties
<1>3. subscribers' = u /\ known' = st.known /\ cnt' = st.cnt
  BY DEF C!Inner
<1>4. accepted' = AcceptedWith(f, k)
  <2>1. C(m)!Streams = Streams
    BY DEF C!Streams, Streams
  <2>2. \A s : C(m)!Matching(f, s, k) = Matching(f, s, k)
    <3>1. \A S : C(m)!Cardinality(S) = Cardinality(S)
      BY DEF C!Cardinality, Cardinality
    <3> QED
      BY <3>1 DEF C!Matching, Matching
  <2> QED
    BY <2>1, <2>2 DEF C!Inner, C!Accept, AcceptedWith
<1> HIDE DEF f
<1>5. f.app \in AppIds /\ f.app \in WireApps /\ f.asdus \in Seq([sv : SvIds, cnt : Nat])
  BY <1>2, ReceivingAssumption DEF WireApps
<1>6. /\ accepted' \in [Streams -> Nat]
      /\ \A s \in Streams : accepted'[s] # 0 => s \in WireStreams
      /\ \A s \in Streams : s[1] # f.app => accepted'[s] = accepted[s]
  BY <1>2, <1>4, AcceptedMore DEF InvC
<1>7. /\ u \in Seq(AppIds) /\ Len(u) <= m /\ IsInjective(u)
      /\ \/ u = subscribers /\ f.app \in Range(subscribers)
         \/ u = subscribers /\ f.app \notin Range(subscribers) /\ Len(subscribers) = m
         \/ /\ f.app \notin Range(subscribers) /\ Range(u) = Range(subscribers) \cup {f.app}
            /\ Len(subscribers) < m
  BY <1>5, RegisterOne DEF InvC
<1> HIDE DEF u
<1>8. Range(u) \subseteq WireApps
  BY <1>5, <1>7 DEF InvC
<1>9. Entries(m, known, cnt, accepted, u)
  <2>1. Entries(m, known, cnt, accepted, subscribers) /\ Len(subscribers) \in Nat
    BY DEF InvC
  <2>2. CASE u = subscribers
    BY <2>1, <2>2
  <2>3. CASE Range(u) = Range(subscribers) \cup {f.app} /\ Len(subscribers) < m
    BY <2>1, <2>3 DEF Entries
  <2> QED
    BY <1>7, <2>2, <2>3
<1>10. Entries(m, known', cnt', accepted', u)
  <2>1. CASE f.app \in Range(u)
    <3>1. PICK g : RunsC(m, f, k, g) /\ st = g[k]
      BY <1>5, <1>7, <2>1, HandleRuns
    <3>2. accepted \in [Streams -> Nat]
      BY DEF InvC
    <3>3. Entries(m, g[k].known, g[k].cnt, AcceptedWith(f, k), u)
      BY <1>2, <1>9, <2>1, <3>1, <3>2, FrameKeepsC
    <3> QED
      BY <1>3, <1>4, <3>1, <3>3
  <2>2. CASE f.app \notin Range(u)
    <3>1. st = [known |-> known, cnt |-> cnt]
      BY <1>5, <1>7, <2>2, HandleRuns
    <3>2. known' = known /\ cnt' = cnt
      BY <1>3, <3>1
    <3>3. Len(u) = m
      BY <1>7, <2>2
    <3>4. known \in Seq(Streams) /\ \A s \in Range(known) : s[1] \in Range(u)
      BY <1>9 DEF Entries
    <3>5. \A s \in Range(known) : s \in Streams
      BY <3>4 DEF Range
    <3>6. \A s \in Range(known) : accepted'[s] = accepted[s]
      BY <1>6, <2>2, <3>4, <3>5
    <3>7. \A s \in Streams : s[1] # f.app \/ (s[1] \notin Range(u) /\ Len(u) = m)
      BY <2>2, <3>3
    <3>8. Entries(m, known, cnt, accepted', u)
      BY <1>6, <1>9, <3>6, <3>7 DEF Entries
    <3> QED
      BY <3>2, <3>8
  <2> QED
    BY <2>1, <2>2
<1>11. UNCHANGED <<Streams, WireStreams, WireApps, Frames>>
  BY DEF Streams, WireStreams, WireApps
<1> QED
  <2>1. Entries(m, known, cnt, accepted, subscribers)'
    BY <1>3, <1>10 DEF Entries
  <2> QED
    BY <1>2, <1>3, <1>6, <1>7, <1>8, <1>11, <2>1 DEF InvC

(***************************************************************************)
(* Every step of the C program.                                            *)
(***************************************************************************)
LEMMA NextKeepsC ==
  ASSUME NEW m \in Nat, InvC(m), C(m)!Next
  PROVE  InvC(m)'
<1>1. ASSUME rx' \in Seq(Frames), UNCHANGED <<cnt, known, accepted, subscribers>>
      PROVE  InvC(m)'
  BY <1>1 DEF InvC, Entries, Streams, WireStreams, WireApps
<1>2. ASSUME UNCHANGED <<rx, cnt, known, accepted, subscribers>> PROVE InvC(m)'
  BY <1>1, <1>2 DEF InvC
<1>3. CASE C(m)!Outer
  BY <1>2, <1>3 DEF C!Outer, C!input
<1>4. CASE C(m)!WaitReady
  BY <1>2, <1>4 DEF C!WaitReady, C!input
<1>5. CASE C(m)!Emptied
  BY <1>2, <1>5 DEF C!Emptied, C!input
<1>6. CASE C(m)!Inner
  BY <1>6, InnerKeepsC
<1>7. CASE C(m)!sig_handler
  BY <1>2, <1>7 DEF C!sig_handler, C!input
<1>8. CASE C(m)!Receive
  <2>1. PICK f \in Frames : rx' = Append(rx, f)
    BY <1>8 DEF C!Receive, C!Arrive
  <2>2. rx' \in Seq(Frames)
    BY <2>1 DEF InvC
  <2> QED
    BY <1>1, <1>8, <2>2 DEF C!Receive
<1>9. CASE C(m)!Tick
  BY <1>2, <1>9 DEF C!Tick
<1> QED
  BY <1>3, <1>4, <1>5, <1>6, <1>7, <1>8, <1>9 DEF C!Next

(* The entries of the Rust adapter.                                        *)
EntriesRs(kn, ct, acc) ==
  /\ kn \in Seq(Streams)
  /\ DOMAIN ct = Streams
  /\ \A s \in Streams : ct[s].received = acc[s]

(* The Rust program.                                                       *)
InvRs ==
  /\ rx \in Seq(Frames)
  /\ accepted \in [Streams -> Nat]
  /\ EntriesRs(known, cnt, accepted)

(***************************************************************************)
(* CountAsdu finds the entry of the ASDU's own stream.                     *)
(***************************************************************************)
LEMMA CountAsduKeeps ==
  ASSUME NEW kn, NEW ct, NEW acc, EntriesRs(kn, ct, acc), NEW app, NEW a, <<app, a.sv>> \in Streams,
         NEW acc2, acc2[<<app, a.sv>>] = acc[<<app, a.sv>>] + 1,
         \A s \in Streams : s # <<app, a.sv>> => acc2[s] = acc[s]
  PROVE  LET st == Rs!CountAsdu([known |-> kn, cnt |-> ct], app, a)
         IN  EntriesRs(st.known, st.cnt, acc2)
<1> DEFINE s == <<app, a.sv>>
           u == IF Rs!Position(kn, s) = {} THEN Append(kn, s) ELSE kn
           e == u[CHOOSE i \in Rs!Position(u, s) : TRUE]
           st == Rs!CountAsdu([known |-> kn, cnt |-> ct], app, a)
<1>1. kn \in Seq(Streams) /\ DOMAIN ct = Streams /\ \A q \in Streams : ct[q].received = acc[q]
  BY DEF EntriesRs
<1>2. s \in Streams /\ acc2[s] = acc[s] + 1 /\ \A q \in Streams : q # s => acc2[q] = acc[q]
  OBVIOUS
<1>3. st.known = u /\ st.cnt = [ct EXCEPT ![e] = Rs!countRs(SmpCntWrap[a.sv], @, a.cnt)]
  BY DEF Rs!CountAsdu
<1> HIDE DEF s, st
<1>4. u \in Seq(Streams) /\ Rs!Position(u, s) # {}
  <2>1. CASE Rs!Position(kn, s) = {}
    <3>1. /\ Append(kn, s) \in Seq(Streams) /\ Len(Append(kn, s)) = Len(kn) + 1
          /\ Append(kn, s)[Len(kn) + 1] = s /\ Len(kn) \in Nat
      BY <1>1, <1>2
    <3>2. Len(kn) + 1 \in 1 .. Len(Append(kn, s))
      BY <3>1
    <3> QED
      BY <2>1, <3>1, <3>2 DEF Rs!Position
  <2>2. CASE Rs!Position(kn, s) # {}
    BY <1>1, <2>2
  <2> QED
    BY <2>1, <2>2
<1>5. e = s
  <2> HIDE DEF u
  <2>1. \E i : i \in Rs!Position(u, s)
    BY <1>4
  <2>2. (CHOOSE i \in Rs!Position(u, s) : TRUE) \in Rs!Position(u, s)
    BY <2>1
  <2> QED
    BY <2>2 DEF Rs!Position
<1> HIDE DEF e, u
<1>6. DOMAIN st.cnt = Streams
  BY <1>1, <1>3
<1>7. st.cnt[s].received = acc2[s]
  <2>1. st.cnt[s] = Rs!countRs(SmpCntWrap[a.sv], ct[s], a.cnt)
    BY <1>1, <1>2, <1>3, <1>5
  <2>2. \A x : Rs!countRs(SmpCntWrap[a.sv], x, a.cnt).received = x.received + 1
    BY OneReceived
  <2>3. ct[s].received = acc[s] /\ acc2[s] = acc[s] + 1
    BY <1>1, <1>2
  <2> QED
    BY <2>1, <2>2, <2>3, Zenon
<1>8. \A q \in Streams : q # s => st.cnt[q].received = acc2[q]
  BY <1>1, <1>2, <1>3, <1>5
<1>9. EntriesRs(st.known, st.cnt, acc2)
  BY <1>3, <1>4, <1>6, <1>7, <1>8 DEF EntriesRs
<1> QED
  BY <1>9 DEF st

(* What CountFrame goes through, with N ASDUs.                             *)
RunsRs(f, N, g) ==
  g = [n \in 0 .. N |->
         IF n = 0 THEN [known |-> known, cnt |-> cnt]
         ELSE Rs!CountAsdu(g[n - 1], f.app, f.asdus[n])]

(***************************************************************************)
(* There is such a function, for every number of ASDUs.                    *)
(***************************************************************************)
LEMMA RunsRsExist ==
  ASSUME NEW f
  PROVE  \A N \in Nat : \E g : RunsRs(f, N, g)
<1> DEFINE T == {N \in Nat : \E g : RunsRs(f, N, g)}
           L(st, n) == Rs!CountAsdu(st, f.app, f.asdus[n])
           B == [known |-> known, cnt |-> cnt]
<1>1. 0 \in T
  <2> DEFINE h == [n \in 0 .. 0 |-> B]
  <2>1. h = [n \in 0 .. 0 |-> IF n = 0 THEN B ELSE L(h[n - 1], n)]
    <3>1. \A n \in 0 .. 0 : n = 0
      OBVIOUS
    <3> HIDE DEF B, L
    <3> QED
      BY <3>1
  <2>2. RunsRs(f, 0, h)
    BY <2>1 DEF RunsRs
  <2> QED
    BY <2>2
<1>2. ASSUME NEW N \in Nat, N \in T PROVE N + 1 \in T
  <2>1. PICK g : RunsRs(f, N, g)
    BY <1>2
  <2>2. g = [n \in 0 .. N |-> IF n = 0 THEN B ELSE L(g[n - 1], n)]
    BY <2>1 DEF RunsRs
  <2> DEFINE h == [n \in 0 .. N + 1 |-> IF n \in 0 .. N THEN g[n] ELSE L(g[N], N + 1)]
  <2> HIDE DEF B, L
  <2>3. \A n \in 0 .. N + 1 : n \in 0 .. N \/ n = N + 1
    OBVIOUS
  <2>4. N + 1 \notin 0 .. N /\ N + 1 # 0 /\ (N + 1) - 1 = N /\ N \in 0 .. N /\ N \in 0 .. N + 1
    OBVIOUS
  <2>5. \A n \in 0 .. N : n \in 0 .. N + 1 /\ (n # 0 => n - 1 \in 0 .. N /\ n - 1 \in 0 .. N + 1)
    OBVIOUS
  <2>6. \A n \in 0 .. N : h[n] = g[n]
    BY <2>5
  <2>7. h[N + 1] = L(g[N], N + 1)
    BY <2>4
  <2>8. \A n \in 0 .. N : g[n] = IF n = 0 THEN B ELSE L(g[n - 1], n)
    BY <2>2
  <2>9. h = [n \in 0 .. N + 1 |-> h[n]]
    OBVIOUS
  <2> HIDE DEF h
  <2>10. ASSUME NEW n \in 0 .. N + 1 PROVE h[n] = IF n = 0 THEN B ELSE L(h[n - 1], n)
    <3>1. CASE n \in 0 .. N
      BY <2>5, <2>6, <2>8, <3>1
    <3>2. CASE n = N + 1
      BY <2>4, <2>6, <2>7, <3>2
    <3> QED
      BY <2>3, <3>1, <3>2
  <2>11. h = [n \in 0 .. N + 1 |-> IF n = 0 THEN B ELSE L(h[n - 1], n)]
    BY <2>9, <2>10
  <2>12. RunsRs(f, N + 1, h)
    BY <2>11 DEF RunsRs, B, L
  <2> QED
    BY <2>12
<1> HIDE DEF T
<1>3. T \in SUBSET Nat
  BY DEF T
<1>4. T = Nat
  BY <1>1, <1>2, <1>3, AllNumbers
<1> QED
  BY <1>4 DEF T

(***************************************************************************)
(* The ASDUs of a frame, one by one, are counted.                          *)
(***************************************************************************)
LEMMA FrameKeepsRs ==
  ASSUME NEW f \in Frames, InvRs
  PROVE  LET st == Rs!CountFrame(f)
         IN  EntriesRs(st.known, st.cnt, AcceptedWith(f, Len(f.asdus)))
<1> DEFINE k == Len(f.asdus)
           F(h) == [n \in 0 .. k |->
                     IF n = 0 THEN [known |-> known, cnt |-> cnt]
                     ELSE Rs!CountAsdu(h[n - 1], f.app, f.asdus[n])]
           g == CHOOSE h : h = F(h)
           E(n) == EntriesRs(g[n].known, g[n].cnt, AcceptedWith(f, n))
           T == {n \in Nat : n <= k => E(n)}
<1>1. /\ f.app \in AppIds /\ k \in Nat
      /\ \A i \in 1 .. k : f.asdus[i].sv \in SvIds
  BY FrameType
<1>2. Rs!CountFrame(f) = g[k]
  BY DEF Rs!CountFrame
<1>3. g = F(g)
  <2>1. \E h : RunsRs(f, k, h)
    BY <1>1, RunsRsExist
  <2>2. \E h : h = F(h)
    BY <2>1 DEF RunsRs
  <2> HIDE DEF F
  <2> QED
    BY <2>2
<1> HIDE DEF g
<1>4. \A n \in 0 .. k : g[n] = IF n = 0 THEN [known |-> known, cnt |-> cnt]
                                ELSE Rs!CountAsdu(g[n - 1], f.app, f.asdus[n])
  BY <1>3
<1> HIDE DEF F
<1>5. 0 \in T
  <2>1. g[0].known = known /\ g[0].cnt = cnt
    BY <1>1, <1>4
  <2>2. \A s : Matching(f, s, 0) = 0
    BY MatchingNext
  <2>3. AcceptedWith(f, 0) = accepted
    BY <2>2 DEF AcceptedWith, InvRs
  <2> QED
    BY <2>1, <2>3 DEF InvRs
<1>6. ASSUME NEW n \in Nat, n \in T PROVE n + 1 \in T
  <2> SUFFICES ASSUME n + 1 <= k PROVE E(n + 1)
    OBVIOUS
  <2> DEFINE a == f.asdus[n + 1]
  <2>1. n <= k /\ n \in 0 .. k /\ n + 1 \in 0 .. k /\ n + 1 \in 1 .. k /\ n + 1 # 0 /\ (n + 1) - 1 = n
    BY <1>1
  <2>2. E(n)
    BY <1>6, <2>1
  <2>3. g[n + 1] = Rs!CountAsdu(g[n], f.app, a)
    BY <1>4, <2>1
  <2>4. g[n + 1] = Rs!CountAsdu([known |-> g[n].known, cnt |-> g[n].cnt], f.app, a)
    BY <2>3 DEF Rs!CountAsdu
  <2>5. <<f.app, a.sv>> \in Streams
    BY <1>1, <2>1 DEF Streams
  <2>6. /\ \A s : Matching(f, s, n) \in Nat
        /\ Matching(f, <<f.app, a.sv>>, n + 1) = Matching(f, <<f.app, a.sv>>, n) + 1
        /\ \A s : s # <<f.app, a.sv>> => Matching(f, s, n + 1) = Matching(f, s, n)
    BY MatchingNext
  <2> HIDE DEF a
  <2>7. /\ AcceptedWith(f, n + 1)[<<f.app, a.sv>>] = AcceptedWith(f, n)[<<f.app, a.sv>>] + 1
        /\ \A s \in Streams : s # <<f.app, a.sv>> => AcceptedWith(f, n + 1)[s] = AcceptedWith(f, n)[s]
    BY <2>5, <2>6 DEF AcceptedWith, InvRs
  <2> QED
    BY <2>2, <2>4, <2>5, <2>7, CountAsduKeeps
<1> HIDE DEF E
<1>7. T \in SUBSET Nat
  OBVIOUS
<1> HIDE DEF T
<1>8. T = Nat
  BY <1>5, <1>6, <1>7, AllNumbers
<1>9. k \in T /\ k <= k
  BY <1>1, <1>8
<1>10. E(k)
  BY <1>9 DEF T
<1> QED
  BY <1>2, <1>10 DEF E

(***************************************************************************)
(* Every step of the Rust program.                                         *)
(***************************************************************************)
LEMMA NextKeepsRs ==
  ASSUME InvRs, Rs!Next
  PROVE  InvRs'
<1>1. ASSUME rx' \in Seq(Frames), UNCHANGED <<cnt, known, accepted>>
      PROVE  InvRs'
  BY <1>1 DEF InvRs, EntriesRs, Streams
<1>2. ASSUME UNCHANGED <<rx, cnt, known, accepted>> PROVE InvRs'
  BY <1>1, <1>2 DEF InvRs
<1>3. CASE Rs!Top
  BY <1>2, <1>3 DEF Rs!Top, Rs!input
<1>4. CASE Rs!Stats
  BY <1>2, <1>4 DEF Rs!Stats, Rs!input
<1>5. CASE Rs!Ignore
  BY <1>2, <1>5 DEF Rs!Ignore, Rs!input
<1>6. CASE Rs!Frame
  <2> DEFINE f == Head(rx)
             st == Rs!CountFrame(f)
  <2>1. rx \in Seq(Frames) /\ rx # << >> /\ rx' = Tail(rx)
    BY <1>6 DEF InvRs, Rs!Frame
  <2>2. f \in Frames /\ rx' \in Seq(Frames)
    BY <2>1, HeadTailProperties
  <2>3. known' = st.known /\ cnt' = st.cnt
    BY <1>6 DEF Rs!Frame
  <2>4. accepted' = AcceptedWith(f, Len(f.asdus))
    <3>1. Rs!Streams = Streams
      BY DEF Rs!Streams, Streams
    <3>2. \A S : Rs!Cardinality(S) = Cardinality(S)
      BY DEF Rs!Cardinality, Cardinality
    <3>3. \A s, k : Rs!Matching(f, s, k) = Matching(f, s, k)
      BY <3>2 DEF Rs!Matching, Matching
    <3> QED
      BY <1>6, <3>1, <3>3 DEF Rs!Frame, Rs!Accept, AcceptedWith
  <2> HIDE DEF f
  <2>5. EntriesRs(known', cnt', accepted')
    BY <2>2, <2>3, <2>4, FrameKeepsRs
  <2>6. Len(f.asdus) \in Nat
    BY <2>2, FrameType
  <2>7. \A s : Matching(f, s, Len(f.asdus)) \in Nat
    BY <2>6, MatchingNext
  <2>8. accepted' \in [Streams -> Nat]
    BY <2>4, <2>7 DEF AcceptedWith, InvRs
  <2> QED
    BY <2>2, <2>5, <2>8 DEF InvRs, EntriesRs, Streams
<1>7. CASE Rs!Signal
  BY <1>2, <1>7 DEF Rs!Signal, Rs!input
<1>8. CASE Rs!Receive
  <2>1. PICK f \in Frames : rx' = Append(rx, f)
    BY <1>8 DEF Rs!Receive, Rs!Arrive
  <2>2. rx' \in Seq(Frames)
    BY <2>1 DEF InvRs
  <2> QED
    BY <1>1, <1>8, <2>2 DEF Rs!Receive
<1>9. CASE Rs!Tick
  BY <1>2, <1>9 DEF Rs!Tick
<1> QED
  BY <1>3, <1>4, <1>5, <1>6, <1>7, <1>8, <1>9 DEF Rs!Next

-----------------------------------------------------------------------------
(* The programs together.                                                  *)

MCInv ==
  /\ program \in {"c", "full", "rs", "link"}
  /\ program = "c" => InvC(Ample)
  /\ program = "full" => InvC(Scant)
  /\ program = "rs" => InvRs
  /\ program = "link" => EveryAsduCounted

(***************************************************************************)
(* With room for every stream and every APPID no stream is left out.       *)
(***************************************************************************)
LEMMA RoomForAll ==
  ASSUME InvC(Ample)
  PROVE  EveryAsduCounted
<1> SUFFICES ASSUME NEW s \in Streams PROVE cnt[s].received = accepted[s]
  BY DEF EveryAsduCounted
<1>1. CASE s \in Range(known)
  BY <1>1 DEF InvC, Entries
<1>2. CASE s \notin Range(known)
  <2> SUFFICES ASSUME accepted[s] # 0 PROVE FALSE
    BY <1>2 DEF InvC, Entries
  <2>1. s \in WireStreams
    BY DEF InvC
  <2>2. s[1] \in WireApps
    BY <2>1 DEF WireStreams, WireApps
  <2>3. known \in Seq(Streams) /\ IsInjective(known) /\ \A i \in DOMAIN known : known[i] # s
    BY <1>2 DEF InvC, Entries, Range
  <2>4. \A i \in DOMAIN known : known[i] \in WireStreams
    <3>1. \A i \in DOMAIN known : known[i] \in Range(known) /\ known[i] \in Streams
      BY <2>3 DEF Range
    <3>2. \A q \in Range(known) : accepted[q] # 0
      BY DEF InvC, Entries
    <3> QED
      BY <3>1, <3>2 DEF InvC
  <2>5. Len(known) < Ample
    BY <2>1, <2>3, <2>4, RoomLeft, RoomAssumption
  <2>6. Len(known) \in Nat /\ Len(subscribers) \in Nat /\ Ample \in Nat
    BY <2>3, RoomAssumption DEF InvC
  <2>7. s[1] \notin Range(subscribers) /\ Len(subscribers) = Ample
    BY <1>2, <2>5, <2>6 DEF InvC, Entries
  <2>8. /\ subscribers \in Seq(AppIds) /\ IsInjective(subscribers)
        /\ \A i \in DOMAIN subscribers : subscribers[i] \in WireApps
        /\ \A i \in DOMAIN subscribers : subscribers[i] # s[1]
    BY <2>7 DEF InvC, Range
  <2>9. Len(subscribers) < Ample
    BY <2>2, <2>8, RoomLeft, RoomAssumption
  <2> QED
    BY <2>6, <2>7, <2>9
<1> QED
  BY <1>1, <1>2

(***************************************************************************)
(* The invariant gives the property.                                       *)
(***************************************************************************)
LEMMA InvCounted ==
  ASSUME MCInv
  PROVE  CountedIfRoom
<1>1. ASSUME NEW m, InvC(m) PROVE C(Ample)!AllOrNothing
  <2>1. C(Ample)!Streams = Streams
    BY DEF C!Streams, Streams
  <2>2. \A s \in Streams : cnt[s].received \in {0, accepted[s]}
    BY <1>1 DEF InvC, Entries
  <2> QED
    BY <2>1, <2>2 DEF C!AllOrNothing
<1>2. InvRs => EveryAsduCounted
  BY DEF InvRs, EntriesRs, EveryAsduCounted
<1> QED
  BY <1>1, <1>2, RoomForAll DEF MCInv, CountedIfRoom, InC

(***************************************************************************)
(* Every accepted ASDU is counted, once and for its own stream, by the     *)
(* Rust adapter and by the C adapter while its tables have room for what   *)
(* is on the wire; when they have not, a stream is counted completely or   *)
(* not at all.                                                             *)
(***************************************************************************)
THEOREM AsdusCounted == MCSpec => []CountedIfRoom
<1>1. MCInit => MCInv
  <2> SUFFICES ASSUME MCInit PROVE MCInv
    OBVIOUS
  <2>1. /\ program \in {"c", "full", "rs", "link"}
        /\ rx = << >> /\ cnt = [s \in Streams |-> Fresh] /\ known = << >>
        /\ accepted = [s \in Streams |-> 0] /\ subscribers = << >>
    BY DEF MCInit, ReceivingInit, C!OwnInit
  <2>2. \A s \in Streams : cnt[s].received = 0 /\ accepted[s] = 0
    BY <2>1 DEF Fresh
  <2>3. DOMAIN cnt = Streams /\ accepted \in [Streams -> Nat]
    BY <2>1
  <2>4. \A S : << >> \in Seq(S)
    OBVIOUS
  <2>5. Len(<< >>) = 0 /\ DOMAIN << >> = {}
    OBVIOUS
  <2>6. IsInjective(<< >>) /\ Range(<< >>) = {}
    BY <2>5 DEF IsInjective, Range
  <2>7. ASSUME NEW m \in Nat PROVE InvC(m)
    <3>1. Entries(m, known, cnt, accepted, subscribers)
      BY <2>1, <2>2, <2>3, <2>4, <2>5, <2>6 DEF Entries
    <3> QED
      BY <2>1, <2>2, <2>3, <2>4, <2>5, <2>6, <3>1 DEF InvC
  <2>8. InvRs
    BY <2>1, <2>2, <2>3, <2>4 DEF InvRs, EntriesRs
  <2>9. EveryAsduCounted
    BY <2>2 DEF EveryAsduCounted
  <2> QED
    BY <2>1, <2>7, <2>8, <2>9, RoomAssumption DEF MCInv
<1>2. MCInv /\ [MCNext]_mcVars => MCInv'
  <2> SUFFICES ASSUME MCInv, [MCNext]_mcVars PROVE MCInv'
    OBVIOUS
  <2>1. CASE program = "link" /\ LinkKeeps
    BY <2>1 DEF MCInv, LinkKeeps, EveryAsduCounted, Streams
  <2>2. CASE program = "c" /\ C(Ample)!Next /\ CKeeps
    <3>1. program' = "c"
      BY <2>2 DEF CKeeps
    <3>2. InvC(Ample)'
      BY <2>2, NextKeepsC, RoomAssumption DEF MCInv
    <3> QED
      BY <3>1, <3>2 DEF MCInv
  <2>3. CASE program = "full" /\ C(Scant)!Next /\ CKeeps
    <3>1. program' = "full"
      BY <2>3 DEF CKeeps
    <3>2. InvC(Scant)'
      BY <2>3, NextKeepsC, RoomAssumption DEF MCInv
    <3> QED
      BY <3>1, <3>2 DEF MCInv
  <2>4. CASE InRs /\ Rs!Next /\ RsKeeps
    <3>1. program = "rs" /\ program' = "rs"
      BY <2>4 DEF RsKeeps, InRs
    <3>2. InvRs'
      BY <2>4, <3>1, NextKeepsRs DEF MCInv
    <3> QED
      BY <3>1, <3>2 DEF MCInv
  <2>5. CASE UNCHANGED mcVars
    <3>1. UNCHANGED <<program, rx, cnt, known, accepted, subscribers>>
      BY <2>5 DEF mcVars, input
    <3> QED
      BY <3>1 DEF MCInv, InvC, InvRs, Entries, EntriesRs, EveryAsduCounted, Streams, WireStreams, WireApps
  <2> QED
    BY <2>1, <2>2, <2>3, <2>4, <2>5 DEF MCNext
<1>3. MCInv => CountedIfRoom
  BY InvCounted
<1> QED
  BY <1>1, <1>2, <1>3, PTL DEF MCSpec
=============================================================================
