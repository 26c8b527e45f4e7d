------------------------- MODULE SvPublishersProofs -------------------------
(***************************************************************************)
(* Proofs about the three sv-publishers, for any number of ASDUs per       *)
(* frame, any wrap and any bound: what they number, what they say of it,   *)
(* and that they stop.                                                     *)
(***************************************************************************)
EXTENDS MCSvPublishers, WellFoundedInduction, TLAPS

LEMMA Least ==
  ASSUME NEW T \in SUBSET Nat, T # {}
  PROVE  \E x \in T : \A y \in T : x <= y
<1> DEFINE R == {ss \in Nat \X Nat : ss[1] < ss[2]}
<1>1. IsWellFoundedOn(R, Nat)
  BY NatLessThanWellFounded DEF OpToRel
<1>2. ASSUME NEW x \in Nat, NEW y \in Nat, y < x PROVE <<y, x>> \in R
  BY <1>2
<1> HIDE DEF R
<1>3. PICK x \in T : \A y \in T : ~(<<y, x>> \in R)
  BY <1>1, WFMin
<1>4. \A y \in T : x \in Nat /\ y \in Nat /\ ~(y < x)
  BY <1>2, <1>3
<1> QED BY <1>4

(* Induction, for a set of numbers.                                        *)
LEMMA AllNumbers ==
  ASSUME NEW T \in SUBSET Nat, 0 \in T, \A n \in Nat : n \in T => n + 1 \in T
  PROVE  T = Nat
<1> SUFFICES ASSUME Nat \ T # {} PROVE FALSE
  OBVIOUS
<1>1. PICK x \in Nat \ T : \A y \in Nat \ T : x <= y
  BY Least
<1>2. x # 0 /\ x - 1 \in Nat
  BY <1>1
<1>3. x - 1 \in T
  BY <1>1, <1>2
<1>4. (x - 1) + 1 \in T
  BY <1>2, <1>3
<1> QED BY <1>1, <1>4

-----------------------------------------------------------------------------
(* Numbers modulo m.                                                       *)

LEMMA Remainder ==
  ASSUME NEW q \in Int, NEW r \in Nat, NEW m \in Nat, r < m
  PROVE  (m * q + r) % m = r
BY SMT

LEMMA Division ==
  ASSUME NEW x \in Nat, NEW m \in Nat \ {0}
  PROVE  /\ x = (m * (x \div m)) + (x % m)
         /\ (x % m) \in 0 .. m - 1
         /\ (x \div m) \in Nat
BY SMT

LEMMA OneMore ==
  ASSUME NEW x \in Nat, NEW m \in Nat \ {0}
  PROVE  (x + 1) % m = IF (x % m) + 1 >= m THEN 0 ELSE (x % m) + 1
<1> DEFINE q == x \div m
           r == x % m
<1>1. x = (m * q) + r /\ r \in 0 .. m - 1 /\ q \in Nat
  BY Division
<1> HIDE DEF q, r
<1>2. CASE r + 1 < m
  <2>1. x + 1 = (m * q) + (r + 1) /\ r + 1 \in Nat
    BY <1>1
  <2>2. ((m * q) + (r + 1)) % m = r + 1
    BY <1>1, <1>2, <2>1, Remainder
  <2> QED BY <1>1, <1>2, <2>1, <2>2 DEF r
<1>3. CASE r + 1 = m
  <2>1. x + 1 = (m * (q + 1)) + 0
    BY <1>1, <1>3
  <2>2. ((m * (q + 1)) + 0) % m = 0
    BY <1>1, <1>3, Remainder
  <2> QED BY <1>1, <1>3, <2>1, <2>2 DEF r
<1> QED BY <1>1, <1>2, <1>3

LEMMA Modulo ==
  ASSUME NEW n \in Cnts
  PROVE  n % Wrap = n /\ (n + 1) % Wrap = IF n + 1 >= Wrap THEN 0 ELSE n + 1
<1>1. Wrap \in Nat \ {0} /\ n \in Nat
  BY SvPublishingAssumption DEF Cnts
<1>2. n % Wrap = n
  BY <1>1 DEF Cnts
<1> QED BY <1>1, <1>2, OneMore

(* A count that starts at x and follows the rule counts up from x.         *)
LEMMA CountsUp ==
  ASSUME NEW x \in Nat, NEW f, f[0] = x % Wrap,
         \A i \in 1 .. NoAsdu : f[i - 1] \in Cnts =>
           f[i] = IF f[i - 1] + 1 >= Wrap THEN 0 ELSE f[i - 1] + 1
  PROVE  \A i \in 0 .. NoAsdu : f[i] = (x + i) % Wrap
<1> DEFINE T == {i \in Nat : i <= NoAsdu => f[i] = (x + i) % Wrap}
<1>0. Wrap \in Nat \ {0} /\ NoAsdu \in Nat \ {0}
  BY SvPublishingAssumption
<1>1. 0 \in T
  BY <1>0
<1>2. ASSUME NEW n \in Nat, n \in T PROVE n + 1 \in T
  <2>1. CASE n + 1 <= NoAsdu
    <3>1. f[n] = (x + n) % Wrap /\ x + n \in Nat
      BY <1>0, <1>2, <2>1
    <3>2. f[n] \in Cnts
      BY <1>0, <3>1, Division DEF Cnts
    <3>3. (n + 1) - 1 = n /\ n + 1 \in 1 .. NoAsdu
      BY <1>0, <2>1
    <3>4. f[n + 1] = IF f[n] + 1 >= Wrap THEN 0 ELSE f[n] + 1
      BY <3>2, <3>3
    <3>5. (x + n + 1) % Wrap = f[n + 1]
      BY <1>0, <3>1, <3>4, OneMore
    <3> QED BY <3>5
  <2>2. CASE ~(n + 1 <= NoAsdu)
    BY <2>2
  <2> QED BY <2>1, <2>2
<1>3. T = Nat
  <2>1. T \in SUBSET Nat
    OBVIOUS
  <2> HIDE DEF T
  <2> QED BY <1>1, <1>2, <2>1, AllNumbers
<1> QED
  <2>1. \A n \in 0 .. NoAsdu : n \in T /\ n <= NoAsdu
    BY <1>0, <1>3
  <2> QED BY <2>1

(* The ASDUs of the frame of a slot.                                       *)
CntsOf(slot) == [i \in 1 .. NoAsdu |-> (slot * NoAsdu + i - 1) % Wrap]

LEMMA GoCounts ==
  ASSUME NEW x \in Nat, smpCnt = x % Wrap
  PROVE  \A i \in 0 .. NoAsdu : Go!Counted[i] = (x + i) % Wrap
<1>0. Wrap \in Nat \ {0} /\ NoAsdu \in Nat \ {0}
  BY SvPublishingAssumption
<1> DEFINE P(f) == f = [i \in 0 .. NoAsdu |-> IF i = 0 THEN smpCnt ELSE Go!After(f[i - 1])]
           G == [i \in 0 .. NoAsdu |-> (x + i) % Wrap]
<1>1. P(G)
  <2>1. ASSUME NEW i \in 0 .. NoAsdu
        PROVE  G[i] = IF i = 0 THEN smpCnt ELSE Go!After(G[i - 1])
    <3>1. CASE i = 0
      BY <3>1
    <3>2. CASE i # 0
      <4>1. i - 1 \in 0 .. NoAsdu /\ x + (i - 1) \in Nat /\ (x + (i - 1)) + 1 = x + i
        BY <1>0, <3>2
      <4>2. G[i - 1] = (x + (i - 1)) % Wrap
        BY <4>1
      <4>3. (x + i) % Wrap = Go!After(G[i - 1])
        BY <1>0, <4>1, <4>2, OneMore DEF Go!After
      <4> QED BY <3>2, <4>3
    <3> QED BY <3>1, <3>2
  <2> QED BY <2>1
<1>2. Go!Counted = CHOOSE f : P(f)
  BY DEF Go!Counted
<1>3. P(Go!Counted)
  <2> HIDE DEF P
  <2> QED BY <1>1, <1>2
<1>4. /\ Go!Counted[0] = x % Wrap
      /\ \A i \in 1 .. NoAsdu : Go!Counted[i] = Go!After(Go!Counted[i - 1])
  BY <1>0, <1>3
<1> QED BY <1>4, CountsUp DEF Go!After

LEMMA CCounts ==
  ASSUME NEW f0, NEW m0, NEW x \in Nat, smp_cnt = x % Wrap
  PROVE  \A i \in 0 .. NoAsdu : C(f0, m0)!Counted[i] = (x + i) % Wrap
<1>0. Wrap \in Nat \ {0} /\ NoAsdu \in Nat \ {0}
  BY SvPublishingAssumption
<1> DEFINE P(f) == f = [i \in 0 .. NoAsdu |-> IF i = 0 THEN smp_cnt ELSE C(f0, m0)!After(f[i - 1])]
           G == [i \in 0 .. NoAsdu |-> (x + i) % Wrap]
<1>1. P(G)
  <2>1. ASSUME NEW i \in 0 .. NoAsdu
        PROVE  G[i] = IF i = 0 THEN smp_cnt ELSE C(f0, m0)!After(G[i - 1])
    <3>1. CASE i = 0
      BY <3>1
    <3>2. CASE i # 0
      <4>1. i - 1 \in 0 .. NoAsdu /\ x + (i - 1) \in Nat /\ (x + (i - 1)) + 1 = x + i
        BY <1>0, <3>2
      <4>2. G[i - 1] = (x + (i - 1)) % Wrap
        BY <4>1
      <4>3. G[i - 1] \in Cnts
        BY <1>0, <4>1, <4>2, Division DEF Cnts
      <4> HIDE DEF G
      <4>4. (x + i) % Wrap = C(f0, m0)!After(G[i - 1])
        <5>1. C(f0, m0)!After(G[i - 1]) = (G[i - 1] + 1) % Wrap
          BY DEF C!After
        <5>2. (G[i - 1] + 1) % Wrap = IF G[i - 1] + 1 >= Wrap THEN 0 ELSE G[i - 1] + 1
          BY <1>0, <4>3, Modulo
        <5>3. ((x + (i - 1)) + 1) % Wrap = IF G[i - 1] + 1 >= Wrap THEN 0 ELSE G[i - 1] + 1
          BY <1>0, <4>1, <4>2, OneMore
        <5> QED BY <4>1, <5>1, <5>2, <5>3
      <4> QED BY <3>2, <4>4 DEF G
    <3> QED BY <3>1, <3>2
  <2> QED BY <2>1
<1>2. C(f0, m0)!Counted = CHOOSE f : P(f)
  BY DEF C!Counted
<1>3. P(C(f0, m0)!Counted)
  <2> HIDE DEF P
  <2> QED BY <1>1, <1>2
<1>4. /\ C(f0, m0)!Counted[0] = x % Wrap
      /\ \A i \in 1 .. NoAsdu : C(f0, m0)!Counted[i] = C(f0, m0)!After(C(f0, m0)!Counted[i - 1])
  BY <1>0, <1>3
<1> QED BY <1>4, CountsUp, Modulo DEF C!After

-----------------------------------------------------------------------------
(* The invariant.                                                          *)

Frame == [slot : Nat, cnts : [1 .. NoAsdu -> Cnts], gen : Nat]

Event == [reason : Reasons, frames : Nat, samples : Nat, smpCnt : Cnts]

Typed ==
  /\ now \in Nat /\ gen \in Nat
  /\ frames \in Nat /\ samples = frames * NoAsdu
  /\ wire \in Seq(Frame) /\ out \in Seq(Event)
  /\ after \in Nat

Numbered == \A i \in 1 .. Len(wire) : wire[i].cnts = CntsOf(wire[i].slot)

(* The data set of the last frame on the wire.                             *)
LastGen == IF Len(wire) = 0 THEN 0 ELSE wire[Len(wire)].gen

(* The events say that new values came with the i-th frame.                *)
Announced(i, events) ==
  \E j \in 1 .. Len(events) : events[j].reason = "set" /\ events[j].frames = i

(* An event is true, and "stopped" is the last.                            *)
True(e, w, at) ==
  /\ e.samples = e.frames * NoAsdu
  /\ IF e.reason = "stopped" THEN e.frames = Len(w) /\ at = "exited"
     ELSE /\ e.frames \in 1 .. Len(w)
          /\ e.smpCnt = w[e.frames].cnts[NoAsdu]

History ==
  /\ frames = Len(wire)
  /\ \A j \in 1 .. Len(out) : True(out[j], wire, pc)
  /\ \A i \in 2 .. Len(wire) :
       /\ wire[i].gen >= wire[i - 1].gen
       /\ wire[i].gen # wire[i - 1].gen <=> Announced(i, out)

(* Go: smpCnt runs ahead of the slot while a frame is under way, and the   *)
(* frame under way carries a data set no older than the last one sent.     *)
GoAt ==
  /\ pc \in {"wait", "built", "exited"}
  /\ k \in Nat /\ stop \in BOOLEAN
  /\ smpCnt = ((IF pc = "built" THEN k + 1 ELSE k) * NoAsdu) % Wrap
  /\ LastGen <= gen /\ lastGen = LastGen
  /\ pc = "built" => /\ built.slot = k /\ built.cnts = CntsOf(k)
                     /\ built.gen \in Nat /\ LastGen <= built.gen /\ built.gen <= gen
  /\ after = 0 \/ (after = 1 /\ pc # "built" /\ (stop \/ pc = "exited"))

(* C: a program that is never much more than a second late never shifts    *)
(* its schedule.                                                           *)
CAt ==
  /\ pc \in {"while", "due", "poll", "lines", "exited"}
  /\ next \in Nat /\ now <= next + MaxLag
  /\ MaxLag <= Second + 1 => next = frames
  /\ smp_cnt = (frames * NoAsdu) % Wrap
  /\ g_running \in BOOLEAN /\ after_set \in BOOLEAN
  /\ Learns => LastGen <= gen /\ (after_set <=> LastGen # gen)
  /\ after = 0 \/ (after = 1 /\ ~g_running /\ pc # "due")

RsAt ==
  /\ pc \in {"first", "check", "drain", "send", "exited"}
  /\ STOP \in BOOLEAN /\ pending_set \in BOOLEAN
  /\ pc = "first" => ~pending_set
  /\ Learns => LastGen <= gen /\ (pending_set <=> LastGen # gen)
  /\ after = 0 \/ (after = 1 /\ STOP /\ pc \in {"check", "exited"})

(* Slots that are never shifted.                                           *)
OnTime == InC => MaxLag <= Second + 1

PublisherInv ==
  /\ program \in {"go", "c", "badC", "rs", "badRs"}
  /\ Typed
  /\ InGo => GoAt
  /\ InC => CAt
  /\ InRs => RsAt
  /\ OnTime => Numbered
  /\ Learns => History

-----------------------------------------------------------------------------
(* What the shared operations do to the history.                           *)

LEMMA Constants ==
  /\ Wrap \in Nat \ {0} /\ NoAsdu \in Nat \ {0} /\ ReportEvery \in Nat \ {0}
  /\ Second \in Nat \ {0} /\ MaxLag \in Nat
  /\ 0 \in Cnts /\ NoAsdu \in 1 .. NoAsdu
BY SvPublishingAssumption DEF Cnts

LEMMA CntsTyped ==
  ASSUME NEW n \in Nat
  PROVE  CntsOf(n) \in [1 .. NoAsdu -> Cnts] /\ CntsOf(n)[NoAsdu] \in Cnts
<1>1. ASSUME NEW i \in 1 .. NoAsdu PROVE (n * NoAsdu + i - 1) % Wrap \in Cnts
  <2>1. n * NoAsdu + i - 1 \in Nat
    BY Constants
  <2> QED BY <2>1, Constants, Division DEF Cnts
<1> QED BY <1>1, Constants DEF CntsOf

LEMMA OnWire ==
  ASSUME Typed, NEW slot \in Nat, NEW cnts \in [1 .. NoAsdu -> Cnts], NEW g \in Nat,
         NEW halting, PutOnWire(slot, cnts, g, halting)
  PROVE  /\ wire' \in Seq(Frame) /\ Len(wire') = Len(wire) + 1
         /\ \A i \in 1 .. Len(wire) : wire'[i] = wire[i]
         /\ wire'[Len(wire) + 1] = [slot |-> slot, cnts |-> cnts, gen |-> g]
         /\ LastGen' = g
         /\ Numbered /\ cnts = CntsOf(slot) => Numbered'
<1> DEFINE e == [slot |-> slot, cnts |-> cnts, gen |-> g]
<1>1. e \in Frame /\ e.slot = slot /\ e.cnts = cnts /\ e.gen = g
  BY DEF Frame
<1>2. wire \in Seq(Frame) /\ wire' = Append(wire, e)
  BY DEF Typed, PutOnWire
<1> HIDE DEF e
<1>3. /\ wire' \in Seq(Frame) /\ Len(wire') = Len(wire) + 1 /\ Len(wire) \in Nat
      /\ \A i \in 1 .. Len(wire) : wire'[i] = wire[i]
      /\ wire'[Len(wire) + 1] = e
  BY <1>1, <1>2
<1>4. LastGen' = g
  BY <1>1, <1>3 DEF LastGen
<1>5. ASSUME Numbered, cnts = CntsOf(slot) PROVE Numbered'
  <2> SUFFICES ASSUME NEW i \in 1 .. Len(wire) + 1 PROVE wire'[i].cnts = CntsOf(wire'[i].slot)
    BY <1>3 DEF Numbered, CntsOf
  <2> QED BY <1>1, <1>3, <1>5 DEF Numbered
<1> QED BY <1>3, <1>4, <1>5 DEF e

LEMMA CountedOnce ==
  ASSUME Typed, NEW afterSet \in BOOLEAN, NEW cnt \in Cnts, Account(afterSet, cnt)
  PROVE  /\ frames' = frames + 1 /\ frames' \in Nat /\ samples' = frames' * NoAsdu
         /\ out' \in Seq(Event)
         /\ \/ out' = out /\ (frames > 0 => ~afterSet)
            \/ \E e \in Event :
                 /\ out' = Append(out, e)
                 /\ e.frames = frames + 1 /\ e.samples = (frames + 1) * NoAsdu
                 /\ e.smpCnt = cnt /\ e.reason # "stopped"
                 /\ frames > 0 => (e.reason = "set" <=> afterSet)
<1> DEFINE r == Reason(afterSet)
           e == [reason |-> r, frames |-> frames + 1, samples |-> samples + NoAsdu, smpCnt |-> cnt]
<1>1. frames \in Nat /\ samples = frames * NoAsdu /\ samples \in Nat /\ out \in Seq(Event)
  BY Constants DEF Typed
<1>2. /\ r \in {"start", "set", "periodic", "none"}
      /\ frames > 0 => (r = "set" <=> afterSet)
  <2>1. frames = 0 \/ frames > 0
    BY <1>1
  <2> DEFINE x == (samples + NoAsdu) \div ReportEvery # samples \div ReportEvery
  <2>2. r = IF frames = 0 THEN "start" ELSE IF afterSet THEN "set"
            ELSE IF x THEN "periodic" ELSE "none"
    BY <2>1, <1>1 DEF Reason
  <2> HIDE DEF x, r
  <2> QED BY <2>1, <2>2, <1>1
<1>3. /\ frames' = frames + 1 /\ samples' = samples + NoAsdu
      /\ out' = IF r = "none" THEN out ELSE Append(out, e)
  BY DEF Account
<1>4. /\ frames' \in Nat /\ samples' = (frames + 1) * NoAsdu
      /\ samples + NoAsdu = (frames + 1) * NoAsdu /\ (frames + 1) * NoAsdu \in Nat
  BY <1>1, <1>3, Constants
<1> HIDE DEF r
<1>5. CASE r = "none"
  BY <1>1, <1>2, <1>3, <1>4, <1>5
<1>6. CASE r # "none"
  <2>1. r \in Reasons
    BY <1>2, <1>6 DEF Reasons
  <2>2. e \in Event
    BY <2>1, <1>1, <1>4 DEF Event
  <2>3. /\ e.frames = frames + 1 /\ e.samples = (frames + 1) * NoAsdu
        /\ e.smpCnt = cnt /\ e.reason = r /\ r # "stopped"
    BY <1>2, <1>4
  <2> HIDE DEF e
  <2>4. out' = Append(out, e) /\ out' \in Seq(Event)
    BY <1>1, <1>3, <1>6, <2>2
  <2> QED BY <1>2, <1>3, <1>4, <2>2, <2>3, <2>4
<1> QED BY <1>5, <1>6

(* A frame is sent and counted: the history stays true.                    *)
LEMMA SentTells ==
  ASSUME Typed, History, pc # "exited",
         NEW slot \in Nat, NEW cnts \in [1 .. NoAsdu -> Cnts], NEW g \in Nat,
         NEW halting, NEW afterSet \in BOOLEAN,
         PutOnWire(slot, cnts, g, halting), Account(afterSet, cnts[NoAsdu]),
         Len(wire) > 0 => LastGen <= g /\ (afterSet <=> LastGen # g)
  PROVE  History'
<1> DEFINE n == Len(wire)
<1>0. n \in Nat /\ frames = n /\ cnts[NoAsdu] \in Cnts /\ NoAsdu \in 1 .. NoAsdu
  BY Constants DEF Typed, History
<1>1. /\ Len(wire') = n + 1
      /\ \A i \in 1 .. n : wire'[i] = wire[i]
      /\ wire'[n + 1].cnts = cnts /\ wire'[n + 1].gen = g
  <2>1. /\ Len(wire') = n + 1
        /\ \A i \in 1 .. n : wire'[i] = wire[i]
        /\ wire'[n + 1] = [slot |-> slot, cnts |-> cnts, gen |-> g]
    BY OnWire
  <2> QED BY <2>1
<1>2. out \in Seq(Event) /\ Len(out) \in Nat
  BY DEF Typed
<1>3. /\ frames' = frames + 1
      /\ \/ out' = out /\ (frames > 0 => ~afterSet)
         \/ \E e \in Event :
              /\ out' = Append(out, e)
              /\ e.frames = frames + 1 /\ e.samples = (frames + 1) * NoAsdu
              /\ e.smpCnt = cnts[NoAsdu] /\ e.reason # "stopped"
              /\ frames > 0 => (e.reason = "set" <=> afterSet)
  BY <1>0, CountedOnce
<1>4. ASSUME NEW j \in 1 .. Len(out)
      PROVE  /\ out[j].reason # "stopped" /\ out[j].frames \in 1 .. n
             /\ True(out[j], wire, pc) /\ True(out[j], wire', pc')
  <2>1. True(out[j], wire, pc)
    BY DEF History
  <2>2. out[j].reason # "stopped" /\ out[j].frames \in 1 .. n
        /\ out[j].smpCnt = wire[out[j].frames].cnts[NoAsdu]
        /\ out[j].samples = out[j].frames * NoAsdu
    BY <2>1 DEF True
  <2>3. True(out[j], wire', pc')
    BY <1>0, <1>1, <2>2 DEF True
  <2> QED BY <2>1, <2>2, <2>3
<1>5. ASSUME NEW i \in 2 .. n
      PROVE  /\ wire'[i] = wire[i] /\ wire'[i - 1] = wire[i - 1]
             /\ wire[i].gen >= wire[i - 1].gen
             /\ wire[i].gen # wire[i - 1].gen <=> Announced(i, out)
  BY <1>0, <1>1 DEF History
<1>6. n > 0 => /\ wire'[n] = wire[n] /\ LastGen = wire[n].gen
               /\ LastGen <= g /\ (afterSet <=> LastGen # g)
               /\ LastGen \in Nat
  <2> SUFFICES ASSUME n > 0
               PROVE  wire'[n] = wire[n] /\ LastGen = wire[n].gen /\ LastGen \in Nat
    OBVIOUS
  <2>1. n \in 1 .. n /\ wire[n] \in Frame
    BY <1>0 DEF Typed
  <2> QED BY <1>0, <1>1, <2>1 DEF LastGen, Frame
<1>7. ASSUME \A j \in 1 .. Len(out') : True(out'[j], wire', pc'),
             \A i \in 1 .. n : Announced(i, out') <=> Announced(i, out),
             n > 0 => (Announced(n + 1, out') <=> afterSet)
      PROVE  History'
  <2>1. ASSUME NEW i \in 2 .. n + 1
        PROVE  /\ wire'[i].gen >= wire'[i - 1].gen
               /\ wire'[i].gen # wire'[i - 1].gen <=> Announced(i, out')
    <3>1. CASE i \in 2 .. n
      BY <1>0, <1>5, <1>7, <3>1
    <3>2. CASE i = n + 1
      BY <1>0, <1>1, <1>6, <1>7, <3>2
    <3> QED BY <1>0, <3>1, <3>2
  <2> QED BY <1>0, <1>1, <1>3, <1>7, <2>1 DEF History
<1>8. CASE out' = out /\ (frames > 0 => ~afterSet)
  <2>1. \A i \in 1 .. n : Announced(i, out') <=> Announced(i, out)
    BY <1>8 DEF Announced
  <2>2. ~Announced(n + 1, out')
    BY <1>0, <1>4, <1>8 DEF Announced
  <2>3. \A j \in 1 .. Len(out') : True(out'[j], wire', pc')
    BY <1>4, <1>8
  <2> HIDE DEF n
  <2> QED BY <1>0, <1>7, <1>8, <2>1, <2>2, <2>3
<1>9. CASE \E e \in Event :
              /\ out' = Append(out, e)
              /\ e.frames = frames + 1 /\ e.samples = (frames + 1) * NoAsdu
              /\ e.smpCnt = cnts[NoAsdu] /\ e.reason # "stopped"
              /\ frames > 0 => (e.reason = "set" <=> afterSet)
  <2>1. PICK e \in Event :
              /\ out' = Append(out, e)
              /\ e.frames = frames + 1 /\ e.samples = (frames + 1) * NoAsdu
              /\ e.smpCnt = cnts[NoAsdu] /\ e.reason # "stopped"
              /\ frames > 0 => (e.reason = "set" <=> afterSet)
    BY <1>9
  <2>2. /\ Len(out') = Len(out) + 1 /\ out'[Len(out) + 1] = e
        /\ \A j \in 1 .. Len(out) : out'[j] = out[j]
    BY <1>2, <2>1
  <2>3. e.frames = n + 1 /\ e.samples = (n + 1) * NoAsdu /\ n + 1 \in 1 .. n + 1
    BY <1>0, <2>1
  <2>4. True(e, wire', pc')
    BY <1>1, <2>1, <2>3 DEF True
  <2>5. \A j \in 1 .. Len(out') : True(out'[j], wire', pc')
    <3>1. ASSUME NEW j \in 1 .. Len(out) + 1 PROVE True(out'[j], wire', pc')
      <4>1. CASE j \in 1 .. Len(out)
        BY <1>4, <2>2, <4>1
      <4>2. CASE j = Len(out) + 1
        BY <2>2, <2>4, <4>2
      <4> QED BY <1>2, <4>1, <4>2
    <3> QED BY <2>2, <3>1
  <2>6. \A i \in 1 .. n : Announced(i, out') <=> Announced(i, out)
    <3> SUFFICES ASSUME NEW i \in 1 .. n PROVE Announced(i, out') <=> Announced(i, out)
      OBVIOUS
    <3>1. e.frames # i
      BY <1>0, <2>3
    <3>2. ASSUME NEW j \in 1 .. Len(out'), out'[j].frames = i
          PROVE  j \in 1 .. Len(out) /\ out'[j] = out[j]
      BY <1>2, <2>2, <3>1, <3>2
    <3>3. 1 .. Len(out) \subseteq 1 .. Len(out')
      BY <1>2, <2>2
    <3> QED BY <2>2, <3>2, <3>3 DEF Announced
  <2>7. n > 0 => (Announced(n + 1, out') <=> afterSet)
    <3>1. \A j \in 1 .. Len(out) : out'[j].frames # n + 1
      BY <1>0, <1>4, <2>2
    <3>2. Announced(n + 1, out') <=> e.reason = "set"
      BY <1>2, <2>2, <2>3, <3>1 DEF Announced
    <3> QED BY <1>0, <2>1, <3>2
  <2> HIDE DEF n
  <2> QED BY <1>7, <2>5, <2>6, <2>7
<1> QED BY <1>3, <1>8, <1>9

(* "stopped" is printed, and the program is gone.                          *)
LEMMA StoppedTells ==
  ASSUME Typed, emit_stopped, frames' = frames, wire' = wire
  PROVE  /\ out' \in Seq(Event)
         /\ History /\ pc # "exited" /\ pc' = "exited" => History'
<1> DEFINE e == [reason |-> "stopped", frames |-> frames, samples |-> samples, smpCnt |-> 0]
<1>1. e \in Event
  BY Constants DEF Typed, Event, Reasons
<1>2. e.frames = frames /\ e.samples = frames * NoAsdu /\ e.reason = "stopped"
  BY DEF Typed
<1>3. out' = Append(out, e) /\ out \in Seq(Event)
  BY DEF emit_stopped, Typed
<1> HIDE DEF e
<1>4. /\ out' \in Seq(Event) /\ Len(out) \in Nat
      /\ Len(out') = Len(out) + 1 /\ out'[Len(out) + 1] = e
      /\ \A j \in 1 .. Len(out) : out'[j] = out[j]
  BY <1>1, <1>3
<1>5. ASSUME History, pc # "exited", pc' = "exited" PROVE History'
  <2>1. ASSUME NEW j \in 1 .. Len(out) PROVE out[j].reason # "stopped" /\ True(out[j], wire', pc')
    <3>1. True(out[j], wire, pc)
      BY <1>5 DEF History
    <3>2. out[j].reason # "stopped"
      BY <1>5, <3>1 DEF True
    <3> QED BY <3>1, <3>2 DEF True
  <2>2. True(e, wire', pc')
    BY <1>2, <1>5 DEF True, History
  <2>3. ASSUME NEW j \in 1 .. Len(out') PROVE True(out'[j], wire', pc')
    <3>1. CASE j \in 1 .. Len(out)
      BY <1>4, <2>1, <3>1
    <3>2. CASE j = Len(out) + 1
      BY <1>4, <2>2, <3>2
    <3> QED BY <1>4, <3>1, <3>2
  <2>4. \A i : Announced(i, out') <=> Announced(i, out)
    BY <1>2, <1>4 DEF Announced
  <2> QED BY <1>5, <2>3, <2>4 DEF History
<1> QED BY <1>4, <1>5

(* A step that neither sends nor prints.                                   *)
LEMMA QuietTells ==
  ASSUME UNCHANGED <<frames, wire, out>>, pc # "exited" \/ pc' = pc
  PROVE  /\ LastGen' = LastGen
         /\ Numbered => Numbered'
         /\ History => History'
<1>1. LastGen' = LastGen
  BY DEF LastGen
<1>2. Numbered => Numbered'
  BY DEF Numbered, CntsOf
<1>3. ASSUME History PROVE History'
  <2>1. \A j \in 1 .. Len(out) : True(out[j], wire', pc')
    BY <1>3 DEF History, True
  <2>2. \A i : Announced(i, out') <=> Announced(i, out)
    BY DEF Announced
  <2> QED BY <1>3, <2>1, <2>2 DEF History
<1> QED BY <1>1, <1>2, <1>3

-----------------------------------------------------------------------------
(* Go.                                                                     *)

(* The numbers of a frame whose first ASDU has number n * NoAsdu.          *)
LEMMA FrameNumbers ==
  ASSUME NEW n \in Nat, NEW f, \A i \in 0 .. NoAsdu : f[i] = (n * NoAsdu + i) % Wrap
  PROVE  /\ [i \in 1 .. NoAsdu |-> f[i - 1]] = CntsOf(n)
         /\ f[NoAsdu] = ((n + 1) * NoAsdu) % Wrap
<1>1. ASSUME NEW i \in 1 .. NoAsdu PROVE f[i - 1] = (n * NoAsdu + i - 1) % Wrap
  <2>1. i - 1 \in 0 .. NoAsdu /\ n * NoAsdu + (i - 1) = n * NoAsdu + i - 1
    BY Constants
  <2> QED BY <2>1
<1>2. n * NoAsdu + NoAsdu = (n + 1) * NoAsdu /\ NoAsdu \in 0 .. NoAsdu
  BY Constants
<1> QED BY <1>1, <1>2 DEF CntsOf

LEMMA LastGenTyped ==
  ASSUME Typed
  PROVE  LastGen \in Nat
<1>1. wire \in Seq(Frame) /\ Len(wire) \in Nat
  BY DEF Typed
<1>2. CASE Len(wire) = 0
  BY <1>2 DEF LastGen
<1>3. CASE Len(wire) # 0
  <2>1. wire[Len(wire)] \in Frame
    BY <1>1, <1>3
  <2> QED BY <1>3, <2>1 DEF LastGen, Frame
<1> QED BY <1>2, <1>3

LEMMA GoStep ==
  ASSUME PublisherInv, InGo, Go!Next, GoKeeps
  PROVE  PublisherInv'
<1> USE DEF totals, seen, input
<1>0. /\ program = "go" /\ program' = "go"
      /\ Typed /\ GoAt /\ Numbered /\ History
  BY DEF PublisherInv, InGo, GoKeeps, OnTime, InC, Learns
<1> SUFFICES Typed' /\ GoAt' /\ Numbered' /\ History'
  BY <1>0 DEF PublisherInv, InGo, InC, InRs, OnTime, Learns
<1>T. LastGen \in Nat
  BY <1>0, LastGenTyped
<1>Q. ASSUME UNCHANGED <<frames, samples, wire, out, after>>, now' \in Nat, gen' \in Nat,
             pc # "exited"
      PROVE  Typed' /\ Numbered' /\ History' /\ LastGen' = LastGen
  <2>1. Typed'
    BY <1>0, <1>Q DEF Typed
  <2> QED BY <1>0, <1>Q, <2>1, QuietTells
<1>1. CASE Go!Build
  <2>1. /\ pc = "wait" /\ pc' = "built" /\ ~stop
        /\ built' = [slot |-> k, cnts |-> [i \in 1 .. NoAsdu |-> Go!Counted[i - 1]], gen |-> gen]
        /\ smpCnt' = Go!Counted[NoAsdu]
        /\ UNCHANGED <<now, gen, frames, samples, wire, out, after, k, lastGen, stop>>
    BY <1>1 DEF Go!Build, Go!totals, Go!seen, Go!input
  <2>2. k \in Nat /\ smpCnt = (k * NoAsdu) % Wrap /\ k * NoAsdu \in Nat
    BY <1>0, <2>1, Constants DEF GoAt
  <2>3. \A i \in 0 .. NoAsdu : Go!Counted[i] = (k * NoAsdu + i) % Wrap
    BY <2>2, GoCounts
  <2>4. /\ [i \in 1 .. NoAsdu |-> Go!Counted[i - 1]] = CntsOf(k)
        /\ Go!Counted[NoAsdu] = ((k + 1) * NoAsdu) % Wrap
    BY <2>2, <2>3, FrameNumbers
  <2>5. built'.slot = k /\ built'.cnts = CntsOf(k) /\ built'.gen = gen
    BY <2>1, <2>4
  <2>6. CntsOf(k)' = CntsOf(k)
    BY <2>1 DEF CntsOf
  <2>7. Typed' /\ Numbered' /\ History' /\ LastGen' = LastGen
    BY <1>0, <1>Q, <2>1 DEF Typed
  <2>8. GoAt'
    BY <1>0, <1>T, <2>1, <2>2, <2>4, <2>5, <2>6, <2>7 DEF GoAt, Typed
  <2> QED BY <2>7, <2>8
<1>2. CASE Go!Write
  <2>1. /\ pc = "built" /\ pc' = "wait" /\ k' = k + 1 /\ lastGen' = built.gen
        /\ PutOnWire(built.slot, built.cnts, built.gen, stop)
        /\ Account(built.gen # lastGen, built.cnts[NoAsdu])
        /\ UNCHANGED <<now, gen, smpCnt, built, stop>>
    BY <1>2 DEF Go!Write, Go!totals, Go!seen, Go!input, Go!PutOnWire, PutOnWire,
                Go!Account, Account, Go!Reason, Reason
  <2>2. /\ k \in Nat /\ built.slot = k /\ built.cnts = CntsOf(k) /\ built.gen \in Nat
        /\ LastGen <= built.gen /\ built.gen <= gen /\ lastGen = LastGen
        /\ stop \in BOOLEAN /\ smpCnt = ((k + 1) * NoAsdu) % Wrap /\ after = 0
    BY <1>0, <2>1 DEF GoAt
  <2>3. /\ CntsOf(k) \in [1 .. NoAsdu -> Cnts] /\ CntsOf(k)[NoAsdu] \in Cnts
        /\ (built.gen # lastGen) \in BOOLEAN
    BY <2>2, CntsTyped
  <2>0. PutOnWire(k, CntsOf(k), built.gen, stop)
    BY <2>1, <2>2
  <2>4. /\ wire' \in Seq(Frame) /\ LastGen' = built.gen
        /\ Numbered /\ CntsOf(k) = CntsOf(k) => Numbered'
    BY <1>0, <2>0, <2>2, <2>3, OnWire
  <2>9. after' = IF stop THEN after + 1 ELSE after
    BY <2>0 DEF PutOnWire
  <2>10. after' = 0 \/ (after' = 1 /\ stop)
    BY <2>2, <2>9
  <2>5. frames' \in Nat /\ samples' = frames' * NoAsdu /\ out' \in Seq(Event)
    BY <1>0, <2>1, <2>2, <2>3, CountedOnce
  <2>6. History'
    BY <1>0, <2>1, <2>2, <2>3, SentTells
  <2>7. Typed'
    BY <1>0, <2>1, <2>2, <2>4, <2>5, <2>10 DEF Typed
  <2>8. GoAt'
    BY <1>0, <2>1, <2>2, <2>4, <2>7, <2>10 DEF GoAt, Typed
  <2> QED BY <1>0, <2>4, <2>6, <2>7, <2>8
<1>3. CASE Go!Refused
  <2>1. /\ pc = "built" /\ pc' = "wait" /\ k' = k + 1
        /\ UNCHANGED <<now, gen, frames, samples, wire, out, after, smpCnt, built, lastGen, stop>>
    BY <1>3 DEF Go!Refused, Go!totals, Go!seen, Go!input
  <2>2. Typed' /\ Numbered' /\ History' /\ LastGen' = LastGen
    BY <1>0, <1>Q, <2>1 DEF Typed
  <2> QED BY <1>0, <1>T, <2>1, <2>2 DEF GoAt
<1>4. CASE Go!Quit
  <2>1. /\ pc = "wait" /\ pc' = "exited" /\ stop' = FALSE
        /\ emit_stopped
        /\ UNCHANGED <<now, gen, frames, samples, wire, after, k, smpCnt, built, lastGen>>
    BY <1>4 DEF Go!Quit, Go!totals, Go!seen, Go!input, Go!emit_stopped, emit_stopped
  <2>2. out' \in Seq(Event) /\ History'
    BY <1>0, <2>1, StoppedTells
  <2>3. Typed'
    BY <1>0, <2>1, <2>2 DEF Typed
  <2>4. LastGen' = LastGen /\ Numbered'
    BY <1>0, <2>1 DEF LastGen, Numbered, CntsOf
  <2> QED BY <1>0, <1>T, <2>1, <2>2, <2>3, <2>4 DEF GoAt
<1>5. CASE Go!readCommands
  <2>1. /\ pc # "exited" /\ gen' \in {gen, gen + 1} /\ (stop => stop') /\ stop' \in BOOLEAN
        /\ UNCHANGED <<now, frames, samples, wire, out, after, pc, k, smpCnt, built, lastGen>>
    BY <1>5 DEF Go!readCommands, Go!totals, Go!seen, Go!input, Go!main
  <2>2. gen \in Nat /\ gen' \in Nat /\ gen <= gen' /\ now' \in Nat
    BY <1>0, <2>1 DEF Typed
  <2>3. Typed' /\ Numbered' /\ History' /\ LastGen' = LastGen
    BY <1>Q, <2>1, <2>2
  <2>4. CntsOf(k)' = CntsOf(k)
    BY <2>1 DEF CntsOf
  <2>5. LastGen' <= gen' /\ (pc = "built" => built.gen \in Nat /\ built.gen <= gen')
    BY <1>0, <1>T, <2>1, <2>2, <2>3 DEF GoAt
  <2> QED BY <1>0, <2>1, <2>3, <2>4, <2>5 DEF GoAt
<1>6. CASE Go!StdinClosed \/ Go!Operator \/ Go!Tick
  <2>1. /\ pc # "exited" /\ now' \in {now, now + 1}
        /\ UNCHANGED <<gen, frames, samples, wire, out, after, pc, k, smpCnt, built, lastGen, stop>>
    BY <1>6 DEF Go!StdinClosed, Go!Operator, Go!Tick, Go!Clock, Go!totals, Go!seen, Go!input,
                Go!main
  <2>2. Typed' /\ Numbered' /\ History' /\ LastGen' = LastGen
    BY <1>0, <1>Q, <2>1 DEF Typed
  <2> QED BY <1>0, <2>1, <2>2 DEF GoAt, CntsOf
<1>7. CASE Go!Signal
  <2>1. /\ pc # "exited" /\ stop' = TRUE
        /\ UNCHANGED <<now, gen, frames, samples, wire, out, after, pc, k, smpCnt, built, lastGen>>
    BY <1>7 DEF Go!Signal, Go!totals, Go!seen, Go!input, Go!main
  <2>2. Typed' /\ Numbered' /\ History' /\ LastGen' = LastGen
    BY <1>0, <1>Q, <2>1 DEF Typed
  <2> QED BY <1>0, <2>1, <2>2 DEF GoAt, CntsOf
<1> QED BY <1>1, <1>2, <1>3, <1>4, <1>5, <1>6, <1>7 DEF Go!Next

-----------------------------------------------------------------------------
(* C.                                                                      *)

LEMMA CSend ==
  ASSUME NEW f \in BOOLEAN, NEW n, PublisherInv, InC, Learns => ~f,
         C(f, n)!Due, now >= next, frames < MaxFrames, CKeeps
  PROVE  Typed' /\ CAt' /\ (OnTime => Numbered') /\ (Learns => History')
<1>0. /\ Typed /\ CAt /\ (OnTime => Numbered) /\ (Learns => History)
      /\ (OnTime <=> MaxLag <= Second + 1) /\ program' = program
  BY DEF PublisherInv, OnTime, CKeeps
<1> DEFINE cnts == [a \in 1 .. NoAsdu |-> C(f, n)!Counted[a - 1]]
<1>1. /\ pc = "due" /\ pc' = "poll"
      /\ \/ PutOnWire(next, cnts, gen, ~g_running)
         \/ f /\ UNCHANGED <<wire, after>>
      /\ Account(after_set, cnts[NoAsdu])
      /\ smp_cnt' = C(f, n)!Counted[NoAsdu]
      /\ after_set' = FALSE
      /\ next' = C(f, n)!Later(next)
      /\ UNCHANGED <<now, gen, g_running>>
  BY DEF C!Due, C!send_frame, C!PutOnWire, PutOnWire, C!Account, Account, C!Reason, Reason,
         C!input, C!totals, C!seen
<1>2. /\ frames \in Nat /\ frames * NoAsdu \in Nat
      /\ smp_cnt = (frames * NoAsdu) % Wrap
      /\ next \in Nat /\ now \in Nat /\ gen \in Nat
      /\ after_set \in BOOLEAN /\ g_running \in BOOLEAN /\ (~g_running) \in BOOLEAN
      /\ after = 0
  BY <1>0, <1>1, Constants DEF Typed, CAt
<1>3. \A i \in 0 .. NoAsdu : C(f, n)!Counted[i] = (frames * NoAsdu + i) % Wrap
  BY <1>2, CCounts
<1>4. cnts = CntsOf(frames) /\ C(f, n)!Counted[NoAsdu] = ((frames + 1) * NoAsdu) % Wrap
  BY <1>2, <1>3, FrameNumbers
<1> HIDE DEF cnts
<1>5. CntsOf(frames) \in [1 .. NoAsdu -> Cnts] /\ CntsOf(frames)[NoAsdu] \in Cnts
  BY <1>2, CntsTyped
<1>6. Account(after_set, CntsOf(frames)[NoAsdu])
  BY <1>1, <1>4
<1>7. /\ frames' = frames + 1 /\ frames' \in Nat /\ samples' = frames' * NoAsdu
      /\ out' \in Seq(Event)
  BY <1>0, <1>2, <1>5, <1>6, CountedOnce
<1>8. next' \in Nat /\ next' >= next /\ (MaxLag <= Second + 1 => next' = frames')
  <2>1. next' = IF now > next + 1 + Second THEN now + 1 ELSE next + 1
    BY <1>1 DEF C!Later
  <2>2. now <= next + MaxLag /\ (MaxLag <= Second + 1 => next = frames)
    BY <1>0 DEF CAt
  <2> QED BY <1>2, <1>7, <2>1, <2>2, Constants
<1>9. smp_cnt' = (frames' * NoAsdu) % Wrap
  BY <1>1, <1>4, <1>7
<1>10. now' <= next' + MaxLag
  BY <1>0, <1>1, <1>2, <1>8, Constants DEF CAt
<1>11. CASE PutOnWire(next, cnts, gen, ~g_running)
  <2>1. PutOnWire(next, CntsOf(frames), gen, ~g_running)
    BY <1>4, <1>11
  <2>2. /\ wire' \in Seq(Frame) /\ LastGen' = gen
        /\ Numbered /\ CntsOf(frames) = CntsOf(next) => Numbered'
    BY <1>0, <1>2, <1>5, <2>1, OnWire
  <2>7. after' = IF ~g_running THEN after + 1 ELSE after
    BY <2>1 DEF PutOnWire
  <2>8. after' = 0 \/ (after' = 1 /\ ~g_running)
    BY <1>2, <2>7
  <2>3. OnTime => Numbered'
    BY <1>0, <2>2 DEF CAt
  <2>4. ASSUME Learns PROVE History'
    <3>1. LastGen <= gen /\ (after_set <=> LastGen # gen) /\ History /\ pc # "exited"
      BY <1>0, <1>1, <2>4 DEF CAt
    <3> QED BY <1>0, <1>2, <1>5, <1>6, <2>1, <3>1, SentTells
  <2>5. Typed'
    BY <1>1, <1>2, <1>7, <2>2, <2>8 DEF Typed
  <2>6. CAt'
    <3>1. after' = 0 \/ (after' = 1 /\ ~g_running')
      BY <1>1, <1>2, <2>8
    <3>2. LastGen' <= gen' /\ (after_set' <=> LastGen' # gen')
      BY <1>1, <1>2, <2>2
    <3> QED BY <1>1, <1>2, <1>7, <1>8, <1>9, <1>10, <3>1, <3>2 DEF CAt
  <2> QED BY <2>3, <2>4, <2>5, <2>6
<1>12. CASE f /\ UNCHANGED <<wire, after>>
  <2>1. ~Learns /\ ~Learns'
    BY <1>0, <1>12 DEF Learns
  <2>2. OnTime => Numbered'
    BY <1>0, <1>12 DEF Numbered, CntsOf
  <2>3. Typed'
    BY <1>0, <1>1, <1>2, <1>7, <1>12 DEF Typed
  <2>4. CAt'
    BY <1>1, <1>2, <1>7, <1>8, <1>9, <1>10, <1>12, <2>1 DEF CAt
  <2> QED BY <2>1, <2>2, <2>3, <2>4
<1> QED BY <1>1, <1>11, <1>12

LEMMA CStep ==
  ASSUME NEW f \in BOOLEAN, NEW n, PublisherInv, InC, Learns => ~f, C(f, n)!Next, CKeeps
  PROVE  PublisherInv'
<1>0. /\ program \in {"c", "badC"} /\ program' = program
      /\ Typed /\ CAt /\ (OnTime => Numbered) /\ (Learns => History)
  BY DEF PublisherInv, InC, CKeeps
<1> SUFFICES Typed' /\ CAt' /\ (OnTime => Numbered') /\ (Learns => History')
  BY <1>0 DEF PublisherInv, InGo, InC, InRs, OnTime, Learns
<1>T. LastGen \in Nat /\ now \in Nat /\ gen \in Nat /\ MaxLag \in Nat
  BY <1>0, LastGenTyped, Constants DEF Typed
<1>Q. ASSUME UNCHANGED <<frames, samples, wire, out, after, next, smp_cnt>>,
             now' \in {now, now + 1}, gen' \in {gen, gen + 1}, pc # "exited"
      PROVE  /\ Typed' /\ (OnTime => Numbered') /\ (Learns => History')
             /\ LastGen' = LastGen
  <2>1. Typed'
    BY <1>0, <1>Q DEF Typed
  <2> QED BY <1>0, <1>Q, <2>1, QuietTells
<1> USE DEF C!totals, C!seen, C!input, C!main
<1>1. CASE C(f, n)!Due
  <2>1. CASE now >= next /\ frames < MaxFrames
    BY <1>1, <2>1, CSend
  <2>2. CASE ~(now >= next /\ frames < MaxFrames)
    <3>1. /\ pc = "due" /\ pc' = "poll"
          /\ UNCHANGED <<now, gen, frames, samples, wire, out, after, next, smp_cnt, after_set,
                         g_running>>
      BY <1>1, <2>2 DEF C!Due
    <3>2. /\ Typed' /\ (OnTime => Numbered') /\ (Learns => History') /\ LastGen' = LastGen
      BY <1>Q, <3>1
    <3> QED BY <1>0, <3>1, <3>2 DEF CAt, Learns
  <2> QED BY <2>1, <2>2
<1>2. CASE C(f, n)!While /\ ~g_running
  <2>1. /\ pc = "while" /\ pc' = "exited" /\ emit_stopped
        /\ UNCHANGED <<now, gen, frames, samples, wire, after, next, smp_cnt, after_set,
                       g_running>>
    BY <1>2 DEF C!While, C!emit_stopped, emit_stopped
  <2>2. out' \in Seq(Event) /\ (Learns => History')
    BY <1>0, <2>1, StoppedTells
  <2>3. Typed'
    BY <1>0, <2>1, <2>2 DEF Typed
  <2>4. LastGen' = LastGen /\ (OnTime => Numbered')
    BY <1>0, <2>1 DEF LastGen, Numbered, CntsOf
  <2> QED BY <1>0, <2>1, <2>2, <2>3, <2>4 DEF CAt, Learns
<1>3. CASE \/ C(f, n)!While /\ g_running
           \/ C(f, n)!Timeout \/ C(f, n)!ReadLines \/ C(f, n)!ReadEof \/ C(f, n)!sig_handler
  <2>1. /\ pc # "exited" /\ pc' \in {"while", "due", "poll", "lines"}
        /\ pc' = "due" => g_running \/ pc = "due"
        /\ g_running' \in BOOLEAN /\ (~g_running => ~g_running')
        /\ UNCHANGED <<now, gen, frames, samples, wire, out, after, next, smp_cnt, after_set>>
    <3>0. pc \in {"while", "due", "poll", "lines", "exited"} /\ g_running \in BOOLEAN
      BY <1>0 DEF CAt
    <3>1. CASE C(f, n)!While /\ g_running
      BY <3>0, <3>1 DEF C!While
    <3>2. CASE C(f, n)!Timeout
      BY <3>0, <3>2 DEF C!Timeout
    <3>3. CASE C(f, n)!ReadLines
      BY <3>0, <3>3 DEF C!ReadLines
    <3>4. CASE C(f, n)!ReadEof
      BY <3>0, <3>4 DEF C!ReadEof
    <3>5. CASE C(f, n)!sig_handler
      BY <3>0, <3>5 DEF C!sig_handler
    <3> QED BY <1>3, <3>1, <3>2, <3>3, <3>4, <3>5
  <2>2. /\ Typed' /\ (OnTime => Numbered') /\ (Learns => History') /\ LastGen' = LastGen
    BY <1>Q, <2>1
  <2> QED BY <1>0, <2>1, <2>2 DEF CAt, Learns
<1>4. CASE C(f, n)!handle_line
  <2>1. /\ pc = "lines" /\ pc' \in {"while", "lines"}
        /\ \/ gen' = gen + 1 /\ after_set'
           \/ gen' = gen /\ (after_set' <=> after_set)
        /\ after_set' \in BOOLEAN
        /\ g_running' \in BOOLEAN /\ (~g_running => ~g_running')
        /\ UNCHANGED <<now, frames, samples, wire, out, after, next, smp_cnt>>
    BY <1>0, <1>4 DEF C!handle_line, C!Halt, CAt
  <2>2. /\ Typed' /\ (OnTime => Numbered') /\ (Learns => History') /\ LastGen' = LastGen
    BY <1>Q, <2>1
  <2>3. Learns => LastGen' <= gen' /\ (after_set' <=> LastGen' # gen')
    BY <1>0, <1>T, <2>1, <2>2 DEF CAt
  <2> QED BY <1>0, <2>1, <2>2, <2>3 DEF CAt, Learns
<1>5. CASE C(f, n)!Tick \/ C(f, n)!Operator
  <2>1. /\ pc # "exited" /\ now' \in {now, now + 1} /\ (now' = now + 1 => now < next + MaxLag)
        /\ UNCHANGED <<gen, frames, samples, wire, out, after, pc, next, smp_cnt, after_set,
                       g_running>>
    BY <1>5, <1>T DEF C!Tick, C!Operator, C!Clock
  <2>2. /\ Typed' /\ (OnTime => Numbered') /\ (Learns => History') /\ LastGen' = LastGen
    BY <1>Q, <2>1
  <2>3. now' <= next + MaxLag
    BY <1>0, <1>T, <2>1 DEF CAt
  <2> QED BY <1>0, <2>1, <2>2, <2>3 DEF CAt, Learns
<1> QED BY <1>1, <1>2, <1>3, <1>4, <1>5 DEF C!Next

-----------------------------------------------------------------------------
(* Rust.                                                                   *)

LEMMA RsSend ==
  ASSUME NEW f \in BOOLEAN, NEW n, NEW afterSet \in BOOLEAN,
         PublisherInv, InRs, Learns => ~f,
         Rs(f, n)!send_frame(afterSet), pc \in {"first", "send"}, pc' = "check",
         afterSet = pending_set, pending_set' = FALSE,
         UNCHANGED <<now, gen, STOP, program>>
  PROVE  Typed' /\ RsAt' /\ Numbered' /\ (Learns => History')
<1>0. Typed /\ RsAt /\ Numbered /\ (Learns => History)
  BY DEF PublisherInv, OnTime, InC, InRs
<1> DEFINE cnts == [j \in 1 .. NoAsdu |-> Rs(f, n)!SmpCnt(samples + j - 1)]
           last == Rs(f, n)!SmpCnt(samples + NoAsdu - 1)
<1>1. /\ \/ PutOnWire(frames, cnts, gen, STOP)
         \/ f /\ UNCHANGED <<wire, after>>
      /\ Account(afterSet, last)
  BY DEF Rs!send_frame, Rs!PutOnWire, PutOnWire, Rs!Account, Account, Rs!Reason, Reason
<1>2. /\ frames \in Nat /\ samples = frames * NoAsdu /\ gen \in Nat /\ STOP \in BOOLEAN
      /\ after = 0
  BY <1>0 DEF Typed, RsAt
<1>3. cnts = CntsOf(frames) /\ last = CntsOf(frames)[NoAsdu]
  BY <1>2, Constants DEF Rs!SmpCnt, CntsOf
<1> HIDE DEF cnts, last
<1>4. CntsOf(frames) \in [1 .. NoAsdu -> Cnts] /\ CntsOf(frames)[NoAsdu] \in Cnts
  BY <1>2, CntsTyped
<1>5. Account(afterSet, CntsOf(frames)[NoAsdu])
  BY <1>1, <1>3
<1>6. /\ frames' \in Nat /\ samples' = frames' * NoAsdu
      /\ out' \in Seq(Event)
  BY <1>0, <1>4, <1>5, CountedOnce
<1>7. CASE PutOnWire(frames, cnts, gen, STOP)
  <2>1. PutOnWire(frames, CntsOf(frames), gen, STOP)
    BY <1>3, <1>7
  <2>2. /\ wire' \in Seq(Frame) /\ LastGen' = gen
        /\ Numbered /\ CntsOf(frames) = CntsOf(frames) => Numbered'
    BY <1>0, <1>2, <1>4, <2>1, OnWire
  <2>6. after' = IF STOP THEN after + 1 ELSE after
    BY <2>1 DEF PutOnWire
  <2>7. after' = 0 \/ (after' = 1 /\ STOP)
    BY <1>2, <2>6
  <2>3. ASSUME Learns PROVE History'
    <3>1. LastGen <= gen /\ (afterSet <=> LastGen # gen) /\ History /\ pc # "exited"
      BY <1>0, <2>3 DEF RsAt
    <3> QED BY <1>0, <1>2, <1>4, <1>5, <2>1, <3>1, SentTells
  <2>4. Typed'
    BY <1>0, <1>2, <1>6, <2>2, <2>7 DEF Typed
  <2>5. RsAt'
    <3>1. after' = 0 \/ (after' = 1 /\ STOP')
      BY <1>2, <2>7
    <3>2. LastGen' <= gen' /\ (pending_set' <=> LastGen' # gen')
      BY <1>2, <2>2
    <3> QED BY <1>2, <3>1, <3>2 DEF RsAt
  <2> QED BY <1>0, <2>2, <2>3, <2>4, <2>5
<1>8. CASE f /\ UNCHANGED <<wire, after>>
  <2>1. ~Learns /\ ~Learns'
    BY <1>8 DEF Learns
  <2>2. Numbered'
    BY <1>0, <1>8 DEF Numbered, CntsOf
  <2>3. Typed'
    BY <1>0, <1>6, <1>8 DEF Typed
  <2>4. RsAt'
    BY <1>0, <1>2, <1>8, <2>1 DEF RsAt
  <2> QED BY <2>1, <2>2, <2>3, <2>4
<1> QED BY <1>1, <1>7, <1>8

LEMMA RsStep ==
  ASSUME NEW f \in BOOLEAN, NEW n, PublisherInv, InRs, Learns => ~f, Rs(f, n)!Next, RsKeeps
  PROVE  PublisherInv'
<1>0. /\ program \in {"rs", "badRs"} /\ program' = program
      /\ Typed /\ RsAt /\ Numbered /\ (Learns => History)
  BY DEF PublisherInv, InRs, InC, OnTime, RsKeeps
<1> SUFFICES Typed' /\ RsAt' /\ Numbered' /\ (Learns => History')
  BY <1>0 DEF PublisherInv, InGo, InC, InRs, OnTime, Learns
<1>T. LastGen \in Nat /\ now \in Nat /\ gen \in Nat
  BY <1>0, LastGenTyped DEF Typed
<1>Q. ASSUME UNCHANGED <<frames, samples, wire, out, after>>,
             now' \in {now, now + 1}, gen' \in {gen, gen + 1}, pc # "exited"
      PROVE  Typed' /\ Numbered' /\ (Learns => History') /\ LastGen' = LastGen
  <2>1. Typed'
    BY <1>0, <1>Q DEF Typed
  <2> QED BY <1>0, <1>Q, <2>1, QuietTells
<1>S. ASSUME emit_stopped, pc # "exited", pc' = "exited", gen' \in {gen, gen + 1},
             UNCHANGED <<now, frames, samples, wire, after>>
      PROVE  Typed' /\ Numbered' /\ (Learns => History') /\ LastGen' = LastGen
  <2>1. out' \in Seq(Event) /\ (Learns => History')
    BY <1>0, <1>S, StoppedTells
  <2>2. Typed'
    BY <1>0, <1>S, <2>1 DEF Typed
  <2> QED BY <1>0, <1>S, <2>1, <2>2 DEF LastGen, Numbered, CntsOf
<1> USE DEF Rs!totals, Rs!seen, Rs!input, Rs!main, Rs!threads
<1>1. CASE Rs(f, n)!First
  <2>1. /\ Rs(f, n)!send_frame(FALSE) /\ pc = "first" /\ pc' = "check"
        /\ UNCHANGED <<now, gen, STOP, pending_set>>
    BY <1>1 DEF Rs!First
  <2>2. pending_set = FALSE
    BY <1>0, <2>1 DEF RsAt
  <2> QED BY <1>0, <2>1, <2>2, RsSend
<1>2. CASE Rs(f, n)!Send
  <2>1. /\ Rs(f, n)!send_frame(pending_set) /\ pc = "send" /\ pc' = "check"
        /\ pending_set' = FALSE /\ UNCHANGED <<now, gen, STOP>>
    BY <1>2 DEF Rs!Send
  <2>2. pending_set \in BOOLEAN
    BY <1>0 DEF RsAt
  <2> QED BY <1>0, <2>1, <2>2, RsSend
<1>3. CASE Rs(f, n)!Check /\ STOP
  <2>1. /\ emit_stopped /\ pc = "check" /\ pc' = "exited"
        /\ UNCHANGED <<now, gen, frames, samples, wire, after, STOP, pending_set>>
    BY <1>3 DEF Rs!Check, Rs!Stop, Rs!emit_stopped, emit_stopped
  <2>2. Typed' /\ Numbered' /\ (Learns => History') /\ LastGen' = LastGen
    BY <1>S, <2>1
  <2> QED BY <1>0, <2>1, <2>2 DEF RsAt, Learns
<1>4. CASE Rs(f, n)!Check /\ ~STOP
  <2>1. /\ pc = "check" /\ pc' = "drain"
        /\ UNCHANGED <<now, gen, frames, samples, wire, out, after, STOP, pending_set>>
    BY <1>4 DEF Rs!Check
  <2>2. Typed' /\ Numbered' /\ (Learns => History') /\ LastGen' = LastGen
    BY <1>Q, <2>1
  <2> QED BY <1>0, <1>4, <2>1, <2>2 DEF RsAt, Learns
<1>5. CASE Rs(f, n)!handle_line
  <2>1. /\ pc = "drain"
        /\ \/ gen' = gen + 1 /\ pending_set'
           \/ gen' = gen /\ (pending_set' <=> pending_set)
        /\ pending_set' \in BOOLEAN
        /\ \/ emit_stopped /\ pc' = "exited"
           \/ UNCHANGED <<pc, out>>
        /\ UNCHANGED <<now, frames, samples, wire, after, STOP>>
    BY <1>0, <1>5 DEF Rs!handle_line, Rs!Stop, Rs!emit_stopped, emit_stopped, RsAt
  <2>2. Typed' /\ Numbered' /\ (Learns => History') /\ LastGen' = LastGen
    BY <1>Q, <1>S, <2>1
  <2>3. Learns => LastGen' <= gen' /\ (pending_set' <=> LastGen' # gen')
    BY <1>0, <1>T, <2>1, <2>2 DEF RsAt
  <2> QED BY <1>0, <2>1, <2>2, <2>3 DEF RsAt, Learns
<1>6. CASE Rs(f, n)!Drained
  <2>1. /\ pc = "drain" /\ pc' \in {"send", "check"}
        /\ UNCHANGED <<now, gen, frames, samples, wire, out, after, STOP, pending_set>>
    BY <1>6 DEF Rs!Drained
  <2>2. Typed' /\ Numbered' /\ (Learns => History') /\ LastGen' = LastGen
    BY <1>Q, <2>1
  <2> QED BY <1>0, <2>1, <2>2 DEF RsAt, Learns
<1>7. CASE \/ Rs(f, n)!Forward \/ Rs(f, n)!ReaderEnds \/ Rs(f, n)!on_signal
           \/ Rs(f, n)!Tick \/ Rs(f, n)!Operator
  <2>1. /\ pc # "exited" /\ now' \in {now, now + 1}
        /\ STOP' \in BOOLEAN /\ (STOP => STOP')
        /\ UNCHANGED <<gen, frames, samples, wire, out, after, pc, pending_set>>
    BY <1>0, <1>7 DEF Rs!Forward, Rs!ReaderEnds, Rs!on_signal, Rs!Tick, Rs!Clock, Rs!Operator,
                      RsAt
  <2>2. Typed' /\ Numbered' /\ (Learns => History') /\ LastGen' = LastGen
    BY <1>Q, <2>1
  <2> QED BY <1>0, <2>1, <2>2 DEF RsAt, Learns
<1> QED BY <1>1, <1>2, <1>3, <1>4, <1>5, <1>6, <1>7 DEF Rs!Next

-----------------------------------------------------------------------------

LEMMA PublisherInvHolds == Spec => []PublisherInv
<1>1. Init => PublisherInv
  <2> SUFFICES ASSUME Init PROVE PublisherInv
    OBVIOUS
  <2>1. /\ now = 0 /\ gen = 0 /\ frames = 0 /\ samples = 0 /\ after = 0
        /\ wire = << >> /\ out = << >>
    BY DEF Init, PublishingInit
  <2>2. << >> \in Seq(Frame) /\ << >> \in Seq(Event) /\ Len(<< >>) = 0
    OBVIOUS
  <2>3. Typed
    BY <2>1, <2>2, Constants DEF Typed
  <2>4. Numbered /\ LastGen = 0
    BY <2>1, <2>2 DEF Numbered, LastGen
  <2>5. History
    BY <2>1, <2>2 DEF History
  <2>6. (0 * NoAsdu) % Wrap = 0 /\ 0 <= 0 + MaxLag
    BY Constants
  <2>7. ASSUME InGo PROVE GoAt
    <3>1. pc = "wait" /\ k = 0 /\ smpCnt = 0 /\ lastGen = 0 /\ stop = FALSE
      BY <2>7 DEF Init, Go!OwnInit
    <3>2. /\ k \in Nat /\ LastGen <= gen
          /\ smpCnt = ((IF pc = "built" THEN k + 1 ELSE k) * NoAsdu) % Wrap
      BY <2>1, <2>4, <2>6, <3>1
    <3>3. stop \in BOOLEAN
      BY <3>1
    <3> QED BY <2>1, <2>4, <3>1, <3>2, <3>3 DEF GoAt
  <2>8. ASSUME InC PROVE CAt
    <3>1. pc = "while" /\ next = 0 /\ smp_cnt = 0 /\ after_set = FALSE /\ g_running = TRUE
      BY <2>8 DEF Init, C!OwnInit, InC, InGo
    <3>2. /\ next \in Nat /\ next = frames /\ now <= next + MaxLag /\ LastGen <= gen
          /\ LastGen = gen /\ smp_cnt = (frames * NoAsdu) % Wrap
      BY <2>1, <2>4, <2>6, <3>1
    <3>3. g_running \in BOOLEAN /\ after_set \in BOOLEAN /\ ~after_set
      BY <3>1
    <3> QED BY <2>1, <3>1, <3>2, <3>3 DEF CAt
  <2>9. ASSUME InRs PROVE RsAt
    <3>1. pc = "first" /\ pending_set = FALSE /\ STOP = FALSE
      BY <2>9 DEF Init, Rs!OwnInit, InRs, InC, InGo
    <3>2. LastGen <= gen /\ LastGen = gen
      BY <2>1, <2>4
    <3>3. STOP \in BOOLEAN /\ pending_set \in BOOLEAN /\ ~pending_set
      BY <3>1
    <3> QED BY <2>1, <3>1, <3>2, <3>3 DEF RsAt
  <2> QED BY <2>3, <2>4, <2>5, <2>7, <2>8, <2>9 DEF PublisherInv, Init
<1>2. PublisherInv /\ [Next]_vars => PublisherInv'
  <2> SUFFICES ASSUME PublisherInv, [Next]_vars PROVE PublisherInv'
    OBVIOUS
  <2>0. FALSE \in BOOLEAN /\ Faulty \in BOOLEAN
    BY SvPublishingAssumption
  <2>1. CASE InGo /\ Go!Next /\ GoKeeps
    BY <2>1, GoStep
  <2>2. CASE program = "c" /\ C(FALSE, MaxLines)!Next /\ CKeeps
    BY <2>2, CStep DEF InC
  <2>3. CASE program = "badC" /\ C(Faulty, 1)!Next /\ CKeeps
    BY <2>0, <2>3, CStep DEF InC, Learns
  <2>4. CASE program = "rs" /\ Rs(FALSE, MaxLines)!Next /\ RsKeeps
    BY <2>4, RsStep DEF InRs
  <2>5. CASE program = "badRs" /\ Rs(Faulty, 1)!Next /\ RsKeeps
    BY <2>0, <2>5, RsStep DEF InRs, Learns
  <2>6. CASE UNCHANGED vars
    <3>1. UNCHANGED <<now, gen, frames, samples, wire, out, after, program, pc, k, smpCnt, built,
                      lastGen, stop, next, smp_cnt, after_set, g_running, STOP, pending_set>>
      BY <2>6 DEF vars, goVars, cVars, rsVars, totals, seen
    <3>2. LastGen' = LastGen /\ (Numbered => Numbered') /\ (History => History')
      BY <3>1, QuietTells
    <3>3. (Typed => Typed') /\ (GoAt => GoAt') /\ (CAt => CAt') /\ (RsAt => RsAt')
      BY <3>1, <3>2 DEF Typed, GoAt, CAt, RsAt, CntsOf, Learns
    <3> QED BY <3>1, <3>2, <3>3 DEF PublisherInv, InGo, InC, InRs, OnTime, Learns
  <2> QED BY <2>1, <2>2, <2>3, <2>4, <2>5, <2>6 DEF Next
<1> QED BY <1>1, <1>2, PTL DEF Spec

(***************************************************************************)
(* smpCnt is the time of the sample, in the Go and the Rust program        *)
(* always, and in the C program as long as it is never so late that        *)
(* sv_publisher.c starts its schedule again: for every number of ASDUs per *)
(* frame and every wrap, through refused frames.                           *)
(***************************************************************************)
THEOREM SlotsNumbered == Spec => []((InC => MaxLag <= Second + 1) => SmpCntOfSlot)
<1>1. PublisherInv => ((InC => MaxLag <= Second + 1) => SmpCntOfSlot)
  <2> SUFFICES ASSUME PublisherInv, OnTime, NEW j \in 1 .. Len(wire), NEW i \in 1 .. NoAsdu
               PROVE  wire[j].cnts[i] = (wire[j].slot * NoAsdu + i - 1) % Wrap
    BY DEF SmpCntOfSlot, Range, OnTime, PublisherInv, Typed
  <2>1. wire[j].cnts = CntsOf(wire[j].slot)
    BY DEF PublisherInv, Numbered
  <2> QED BY <2>1 DEF CntsOf
<1> QED BY <1>1, PublisherInvHolds, PTL

(***************************************************************************)
(* However late a program is and whatever it is doing when the stop or the *)
(* signal comes, at most the frame that was under way follows.             *)
(***************************************************************************)
THEOREM OneFrameAtMost == Spec => []StopsAtOnce
<1>1. PublisherInv => StopsAtOnce
  BY DEF PublisherInv, Typed, GoAt, CAt, RsAt, InGo, InC, InRs, StopsAtOnce
<1> QED BY <1>1, PublisherInvHolds, PTL

(***************************************************************************)
(* Every "published" and "stopped" event is true, and every first frame    *)
(* with new values is announced and no other, of a program that learns     *)
(* what the socket did.                                                    *)
(***************************************************************************)
THEOREM EventsTell == Spec => []EventsTrueIfLearnt
<1>1. PublisherInv => EventsTrueIfLearnt
  <2> SUFFICES ASSUME PublisherInv, Learns PROVE EventsTrue /\ SetAnnounced
    BY DEF EventsTrueIfLearnt
  <2>1. History /\ wire \in Seq(Frame) /\ out \in Seq(Event)
    BY DEF PublisherInv, Typed
  <2>2. EventsTrue
    <3> SUFFICES ASSUME NEW j \in 1 .. Len(out)
                 PROVE  /\ out[j].samples = out[j].frames * NoAsdu
                        /\ IF out[j].reason = "stopped" THEN out[j].frames = Len(wire)
                           ELSE /\ out[j].frames \in 1 .. Len(wire)
                                /\ out[j].smpCnt = wire[out[j].frames].cnts[NoAsdu]
      BY <2>1 DEF EventsTrue, Range
    <3>1. True(out[j], wire, pc)
      BY <2>1 DEF History
    <3> QED BY <3>1 DEF True
  <2>3. SetAnnounced
    <3>1. ASSUME NEW i
          PROVE  Announced(i, out) <=> \E e \in Range(out) : e.reason = "set" /\ e.frames = i
      BY <2>1 DEF Announced, Range
    <3> QED BY <2>1, <3>1 DEF History, SetAnnounced
  <2> QED BY <2>2, <2>3
<1> QED BY <1>1, PublisherInvHolds, PTL
=============================================================================
