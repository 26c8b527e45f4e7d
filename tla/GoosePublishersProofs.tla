----------------------- MODULE GoosePublishersProofs -----------------------
(***************************************************************************)
(* Proofs about the C and the Rust goose-publisher, for words of any       *)
(* length, any schedule, and values and sockets that may refuse a frame.   *)
(***************************************************************************)
EXTENDS MCGoosePublishers, SequenceTheorems, WellFoundedInduction, TLAPS

(* The program is one whose frames all get through.                        *)
Fresh == program \in {"freshC", "freshRs"}

-----------------------------------------------------------------------------
(* The invariant.                                                          *)

Typed ==
  /\ program \in {"c", "freshC", "rs", "freshRs", "schedule"}
  /\ stdin \in Seq(Lines) /\ batch \in Seq(Lines) /\ channel \in Seq(Lines)
  /\ typed \in Nat
  /\ st_num \in 1 .. Word - 1 /\ sq_num \in 0 .. Word - 1
  /\ step \in Nat /\ wait \in Int /\ gap \in Nat
  /\ wire.st \in Nat /\ wire.tal \in Nat

(* The library counts like the program, and in Rust the last event is      *)
(* about the last frame.                                                   *)
Alike ==
  /\ lib = [st |-> st_num, sq |-> sq_num]
  /\ InRs => PublishedIsOnWire

(* The last frame is of the current state or of an earlier one, and not so *)
(* much earlier that stNum could have come round again.                    *)
Named ==
  /\ wire.st = st_num => wire.val = val /\ sq_num # 0
  /\ IF Fresh THEN wire.st \in {0, st_num}
     ELSE /\ wire.st <= st_num /\ typed <= MaxLines
          /\ st_num + (Len(stdin) + Len(batch) + Len(channel)) <= typed + 1

(* Frames and deadline are at most an interval apart.                      *)
InTime ==
  Fresh => /\ wait >= -FreshLag
           /\ wire.st # 0 => 2 * (gap + wait) <= wire.tal /\ 2 * FreshLag < wire.tal

(* No more state changes than a word has values.                           *)
FewLines == MaxLines < Word - 1

PublisherInv ==
  /\ Typed
  /\ Alike
  /\ Fresh \/ FewLines => Named
  /\ InTime
  /\ InRs /\ stopped => ~running

-----------------------------------------------------------------------------
(* Sending.                                                                *)

LEMMA WordInc ==
  ASSUME NEW n \in 0 .. Word - 1
  PROVE  Inc(n) \in 1 .. Word - 1 /\ Inc(n) # n
BY PublishingAssumption DEF Inc

(* What either send_frame does with a state, its numbers and its values.   *)
Sent(v, st, sq) ==
  /\ val' = v /\ st_num' = st /\ step' \in Nat \ {0}
  /\ \E i \in Nat \ {0} :
       /\ wait' = i /\ (Fresh => FreshLag < i)
       /\ \/ /\ wire' = [st |-> st, sq |-> sq, val |-> v, tal |-> 2 * i] /\ gap' = 0
             /\ published' = [st |-> st, sq |-> sq, tal |-> 2 * i]
             /\ sq_num' = Inc(sq)
          \/ /\ ~Fresh /\ UNCHANGED <<wire, gap>>
             /\ \/ UNCHANGED published /\ sq_num' \in {sq, Inc(sq)}
                \/ /\ InC /\ sq_num' = Inc(sq)
                   /\ published' = [st |-> st, sq |-> sq, tal |-> 2 * i]
  /\ lib' = [st |-> st, sq |-> sq_num']

LEMMA Interval ==
  ASSUME NEW s \in Nat, NEW steps \in Seq(Nat \ {0}), Len(steps) > 0
  PROVE  LET j == (IF s < Len(steps) THEN s ELSE Len(steps) - 1) + 1
         IN  j \in 1 .. Len(steps) /\ steps[j] \in Nat \ {0}
<1> DEFINE j == (IF s < Len(steps) THEN s ELSE Len(steps) - 1) + 1
<1>1. j \in 1 .. Len(steps)
  OBVIOUS
<1> HIDE DEF j
<1>2. steps[j] \in Nat \ {0}
  BY <1>1
<1> QED BY <1>1, <1>2 DEF j

LEMMA CSends ==
  ASSUME NEW fresh \in BOOLEAN, fresh <=> Fresh, InC,
         NEW v, NEW st, NEW sq, NEW s \in Nat,
         C(fresh)!send_frame(v, st, sq, [st |-> st, sq |-> sq], s)
  PROVE  Sent(v, st, sq)
<1> DEFINE l == [st |-> st, sq |-> sq]
           steps == IF fresh THEN FreshSteps ELSE Steps
           i == C(fresh)!IntervalAt(s)
<1>1. l.st = st /\ l.sq = sq /\ [l EXCEPT !.sq = Inc(sq)] = [st |-> st, sq |-> Inc(sq)]
  OBVIOUS
<1>2. steps \in Seq(Nat \ {0}) /\ Len(steps) > 0
  BY PublishingAssumption, FreshAssumption
<1>3. i \in Nat \ {0} /\ (Fresh => FreshLag < i)
  <2> DEFINE j == (IF s < Len(steps) THEN s ELSE Len(steps) - 1) + 1
  <2>1. i = steps[j]
    BY DEF C!IntervalAt, C!LastStep
  <2>2. j \in 1 .. Len(steps) /\ steps[j] \in Nat \ {0}
    BY <1>2, Interval
  <2> HIDE DEF j, i
  <2>3. Fresh => FreshLag < steps[j]
    BY <2>2, FreshAssumption
  <2> QED BY <2>1, <2>2, <2>3
<1>4. /\ val' = v /\ st_num' = st /\ wait' = i
      /\ step' = IF s <= Len(steps) - 1 THEN s + 1 ELSE s
  BY DEF C!send_frame, C!Later, C!LastStep
<1>5. step' \in Nat \ {0}
  BY <1>2, <1>4
<1>6. CASE v \notin IF fresh THEN {} ELSE TooBig
  <2>1. /\ \/ wire' = [st |-> l.st, sq |-> l.sq, val |-> v, tal |-> 2 * i] /\ gap' = 0
           \/ Faulty /\ ~fresh /\ UNCHANGED <<wire, gap>>
        /\ published' = [st |-> st, sq |-> sq, tal |-> 2 * i]
        /\ sq_num' = Inc(sq)
        /\ lib' = [l EXCEPT !.sq = Inc(l.sq)]
    BY <1>6 DEF C!send_frame, C!PutOnWire, C!TalOf, C!emit_published, C!Inc, Inc
  <2>2. lib' = [st |-> st, sq |-> sq_num']
    BY <1>1, <2>1
  <2> HIDE DEF i, l
  <2> QED BY <1>1, <1>3, <1>4, <1>5, <2>1, <2>2 DEF Sent
<1>7. CASE ~(v \notin IF fresh THEN {} ELSE TooBig)
  <2>1. /\ UNCHANGED <<wire, gap, published>> /\ sq_num' = sq /\ lib' = l /\ ~fresh
    BY <1>7 DEF C!send_frame, C!seen
  <2> HIDE DEF i
  <2> QED BY <1>3, <1>4, <1>5, <2>1 DEF Sent
<1> QED BY <1>6, <1>7

LEMMA RsSends ==
  ASSUME NEW fresh \in BOOLEAN, fresh <=> Fresh,
         NEW v, NEW st, NEW sq, NEW s \in Nat,
         Rs(fresh)!send_frame(v, st, sq, [st |-> st, sq |-> sq], s)
  PROVE  Sent(v, st, sq)
<1> DEFINE l == [st |-> st, sq |-> sq]
           steps == IF fresh THEN FreshSteps ELSE Steps
           i == Rs(fresh)!IntervalAt(s)
<1>1. l.st = st /\ l.sq = sq /\ [l EXCEPT !.sq = Inc(sq)] = [st |-> st, sq |-> Inc(sq)]
  OBVIOUS
<1>2. steps \in Seq(Nat \ {0}) /\ Len(steps) > 0
  BY PublishingAssumption, FreshAssumption
<1>3. i \in Nat \ {0} /\ (Fresh => FreshLag < i)
  <2> DEFINE j == (IF s < Len(steps) THEN s ELSE Len(steps) - 1) + 1
  <2>1. i = steps[j]
    BY DEF Rs!IntervalAt, Rs!LastStep
  <2>2. j \in 1 .. Len(steps) /\ steps[j] \in Nat \ {0}
    BY <1>2, Interval
  <2> HIDE DEF j, i
  <2>3. Fresh => FreshLag < steps[j]
    BY <2>2, FreshAssumption
  <2> QED BY <2>1, <2>2, <2>3
<1>4. /\ val' = v /\ st_num' = st /\ wait' = i
      /\ step' = IF s <= Len(steps) - 1 THEN s + 1 ELSE s
  BY DEF Rs!send_frame, Rs!Later, Rs!LastStep
<1>5. step' \in Nat \ {0}
  BY <1>2, <1>4
<1>6. CASE v \notin IF fresh THEN {} ELSE TooBig
  <2>1. /\ \/ /\ wire' = [st |-> l.st, sq |-> l.sq, val |-> v, tal |-> 2 * i] /\ gap' = 0
              /\ published' = [st |-> st, sq |-> sq, tal |-> 2 * i]
           \/ Faulty /\ ~fresh /\ UNCHANGED <<wire, gap, published>>
        /\ sq_num' = Inc(sq)
        /\ lib' = [l EXCEPT !.sq = Inc(l.sq)]
    BY <1>6 DEF Rs!send_frame, Rs!PutOnWire, Rs!TalOf, Rs!emit_published, Rs!Inc, Inc, Rs!seen
  <2>2. lib' = [st |-> st, sq |-> sq_num']
    BY <1>1, <2>1
  <2> HIDE DEF i, l
  <2> QED BY <1>1, <1>3, <1>4, <1>5, <2>1, <2>2 DEF Sent
<1>7. CASE ~(v \notin IF fresh THEN {} ELSE TooBig)
  <2>1. /\ UNCHANGED <<wire, gap, published>> /\ sq_num' = sq /\ lib' = l /\ ~fresh
    BY <1>7 DEF Rs!send_frame, Rs!seen
  <2> HIDE DEF i
  <2> QED BY <1>3, <1>4, <1>5, <2>1 DEF Sent
<1> QED BY <1>6, <1>7

(* The lines, and whether the program was stopped.                         *)
Queues ==
  /\ stdin' \in Seq(Lines) /\ batch' \in Seq(Lines) /\ channel' \in Seq(Lines)
  /\ typed' \in Nat /\ (~Fresh /\ typed <= MaxLines => typed' <= MaxLines)
  /\ program' = program
  /\ InRs /\ stopped' => ~running'

(* Frames that follow each other with one stNum.                           *)
SameState == wire' # wire /\ wire'.st = wire.st => wire'.val = wire.val /\ wire'.sq # 0

(* Frames are announced, and events name the numbers of the library.       *)
Announced ==
  /\ wire' # wire => PublishedIsOnWire'
  /\ published' # published =>
       /\ lib' = [st |-> published'.st, sq |-> Inc(published'.sq)]
       /\ InRs => wire' # wire

LEMMA SentKeeps ==
  ASSUME PublisherInv, NEW v, NEW st, NEW sq, Sent(v, st, sq), Queues, typed' = typed,
         NEW w \in Nat, w = Len(stdin) + Len(batch) + Len(channel),
         NEW x \in Nat, x = Len(stdin') + Len(batch') + Len(channel'),
         \/ st = st_num /\ sq = sq_num /\ v = val /\ x = w
         \/ st = Inc(st_num) /\ sq = 0 /\ x + 1 <= w
  PROVE  PublisherInv' /\ (Fresh \/ FewLines => SameState) /\ Announced
<1>0. Typed /\ Alike /\ (Fresh \/ FewLines => Named) /\ InTime
  BY DEF PublisherInv
<1>1. /\ (Fresh' <=> Fresh) /\ (InRs' <=> InRs) /\ (FewLines' <=> FewLines)
      /\ program' = program
  BY DEF Queues, Fresh, InRs, FewLines
<1>2. st \in 1 .. Word - 1 /\ sq \in 0 .. Word - 1 /\ Word \in Nat /\ Word > 2
  <2>1. Word \in Nat /\ Word > 2 /\ st_num \in 1 .. Word - 1 /\ sq_num \in 0 .. Word - 1
    BY <1>0, PublishingAssumption DEF Typed
  <2>2. st_num \in 0 .. Word - 1 /\ 0 \in 0 .. Word - 1
    BY <2>1
  <2>3. Inc(st_num) \in 1 .. Word - 1
    BY <2>2, WordInc
  <2> QED BY <2>1, <2>2, <2>3
<1>3. Inc(sq) \in 1 .. Word - 1 /\ Inc(sq) # sq
  BY <1>2, WordInc
<1>4. PICK i \in Nat \ {0} :
        /\ wait' = i /\ (Fresh => FreshLag < i)
        /\ \/ /\ wire' = [st |-> st, sq |-> sq, val |-> v, tal |-> 2 * i] /\ gap' = 0
              /\ published' = [st |-> st, sq |-> sq, tal |-> 2 * i]
              /\ sq_num' = Inc(sq)
           \/ /\ ~Fresh /\ UNCHANGED <<wire, gap>>
              /\ \/ UNCHANGED published /\ sq_num' \in {sq, Inc(sq)}
                 \/ /\ InC /\ sq_num' = Inc(sq)
                    /\ published' = [st |-> st, sq |-> sq, tal |-> 2 * i]
  BY DEF Sent
<1>5. val' = v /\ st_num' = st /\ step' \in Nat /\ lib' = [st |-> st, sq |-> sq_num']
  BY DEF Sent
<1>7. ASSUME Fresh \/ FewLines
      PROVE  /\ IF Fresh THEN wire.st \in {0, st_num} ELSE wire.st <= st_num
             /\ ~Fresh => st + x <= typed + 1 /\ typed' <= MaxLines /\ wire.st <= st
             /\ \/ st = st_num /\ sq = sq_num /\ v = val
                \/ wire.st # st /\ sq = 0
  <2>1. Named
    BY <1>0, <1>7
  <2>2. CASE st = st_num /\ sq = sq_num /\ v = val /\ x = w
    BY <1>0, <2>1, <2>2 DEF Named, Typed
  <2>3. CASE st = Inc(st_num) /\ sq = 0 /\ x + 1 <= w
    <3>1. CASE Fresh
      <4>1. st # st_num /\ st # 0
        BY <1>0, <2>3, WordInc DEF Typed
      <4> QED BY <2>1, <2>3, <3>1, <4>1 DEF Named
    <3>2. CASE ~Fresh
      <4>1. st_num + w <= typed + 1 /\ typed <= MaxLines /\ wire.st <= st_num
        BY <2>1, <3>2 DEF Named
      <4>0. /\ st_num \in Nat /\ wire.st \in Nat /\ typed \in Nat /\ MaxLines \in Nat /\ Word \in Nat
            /\ MaxLines < Word - 1 /\ x + 1 <= w /\ typed' = typed
        BY <1>0, <1>2, <1>7, <2>3, <3>2, PublishingAssumption DEF Typed, FewLines
      <4>2. st_num + 1 < Word
        BY <4>0, <4>1
      <4>3. st = st_num + 1
        BY <2>3, <4>0, <4>2 DEF Inc
      <4>4. st + x <= typed + 1 /\ wire.st <= st /\ wire.st # st
        BY <4>0, <4>1, <4>3
      <4> QED BY <2>3, <3>2, <4>0, <4>1, <4>4
    <3> QED BY <3>1, <3>2
  <2> QED BY <2>2, <2>3
<1>8. CASE /\ wire' = [st |-> st, sq |-> sq, val |-> v, tal |-> 2 * i] /\ gap' = 0
           /\ published' = [st |-> st, sq |-> sq, tal |-> 2 * i]
           /\ sq_num' = Inc(sq)
  <2>1. wire'.st = st /\ wire'.sq = sq /\ wire'.val = v /\ wire'.tal = 2 * i
    BY <1>8
  <2>2. Typed'
    <3>1. st_num' \in 1 .. Word - 1 /\ sq_num' \in 0 .. Word - 1
      BY <1>2, <1>3, <1>5, <1>8
    <3>2. step' \in Nat /\ wait' \in Int /\ gap' \in Nat
      BY <1>4, <1>5, <1>8
    <3>3. wire'.st \in Nat /\ wire'.tal \in Nat
      BY <1>2, <1>4, <2>1
    <3>4. /\ program' \in {"c", "freshC", "rs", "freshRs", "schedule"} /\ typed' \in Nat
          /\ stdin' \in Seq(Lines) /\ batch' \in Seq(Lines) /\ channel' \in Seq(Lines)
      BY <1>0, <1>1 DEF Typed, Queues
    <3> QED
      BY <3>1, <3>2, <3>3, <3>4 DEF Typed
  <2>3. Alike'
    BY <1>5, <1>8, <2>1 DEF Alike, PublishedIsOnWire
  <2>4. ASSUME Fresh \/ FewLines PROVE Named' /\ SameState
    <3>1. Named'
      BY <1>0, <1>1, <1>2, <1>3, <1>5, <1>7, <1>8, <2>1, <2>4 DEF Named
    <3>2. SameState
      BY <1>0, <1>7, <2>1, <2>4 DEF SameState, Named
    <3> QED BY <3>1, <3>2
  <2>5. InTime'
    <3>1. FreshLag \in Nat
      BY FreshAssumption
    <3> QED BY <1>1, <1>4, <1>8, <2>1, <3>1 DEF InTime
  <2>6. Announced
    <3>1. published'.st = st /\ published'.sq = sq
      BY <1>8
    <3>2. published' # published /\ InRs => wire' # wire
      BY <1>0, <1>8, <2>1 DEF Alike, PublishedIsOnWire
    <3> QED BY <1>5, <1>8, <2>1, <3>1, <3>2 DEF Announced, PublishedIsOnWire
  <2> QED BY <1>1, <2>2, <2>3, <2>4, <2>5, <2>6 DEF PublisherInv, Queues
<1>9. CASE /\ ~Fresh /\ UNCHANGED <<wire, gap>>
           /\ \/ UNCHANGED published /\ sq_num' \in {sq, Inc(sq)}
              \/ /\ InC /\ sq_num' = Inc(sq)
                 /\ published' = [st |-> st, sq |-> sq, tal |-> 2 * i]
  <2>1. sq_num' \in 0 .. Word - 1 /\ (sq # 0 => sq_num' # 0)
    BY <1>2, <1>3, <1>9
  <2>2. Typed'
    BY <1>0, <1>1, <1>2, <1>4, <1>5, <1>9, <2>1 DEF Typed, Queues
  <2>3. Alike'
    BY <1>0, <1>1, <1>5, <1>9 DEF Alike, PublishedIsOnWire, InC, InRs
  <2>4. ASSUME FewLines PROVE Named'
    BY <1>0, <1>1, <1>5, <1>7, <1>9, <2>1, <2>4 DEF Named
  <2>5. InTime' /\ SameState
    BY <1>1, <1>9 DEF InTime, SameState
  <2>6. Announced
    <3>1. CASE UNCHANGED published
      BY <1>9, <3>1 DEF Announced
    <3>2. CASE /\ InC /\ sq_num' = Inc(sq)
               /\ published' = [st |-> st, sq |-> sq, tal |-> 2 * i]
      <4>1. published'.st = st /\ published'.sq = sq
        BY <3>2
      <4> QED BY <1>5, <1>9, <3>2, <4>1 DEF Announced, InC, InRs
    <3> QED BY <1>9, <3>1, <3>2
  <2> QED BY <1>1, <1>9, <2>2, <2>3, <2>4, <2>5, <2>6 DEF PublisherInv, Queues
<1> QED BY <1>4, <1>8, <1>9

LEMMA StillFits ==
  ASSUME NEW s \in Nat, NEW w \in Nat, NEW x \in Nat, NEW t \in Nat, NEW u \in Nat,
         s + w <= t + 1, x + t <= w + u
  PROVE  s + x <= u + 1
OBVIOUS

(* One line less in two of three queues.                                   *)
LEMMA OneLess ==
  ASSUME NEW s \in Nat, NEW b \in Nat, NEW n \in Nat, NEW p \in Nat, NEW q \in Nat,
         p + q = b + n - 1
  PROVE  s + p + q \in Nat /\ (s + p + q) + 1 = s + b + n
OBVIOUS

(* Nothing is sent: time passes, or lines move between the queues.         *)
LEMMA QuietKeeps ==
  ASSUME PublisherInv, Queues,
         UNCHANGED <<val, st_num, sq_num, lib, step, wire, published>>,
         NEW w \in Nat, w = Len(stdin) + Len(batch) + Len(channel),
         NEW x \in Nat, x = Len(stdin') + Len(batch') + Len(channel'),
         typed <= typed' /\ x + typed <= w + typed',
         \/ UNCHANGED <<wait, gap>>
         \/ /\ wait' = wait - 1 /\ gap' \in {gap, gap + 1}
            /\ Fresh => wait > -FreshLag
  PROVE  PublisherInv' /\ SameState /\ Announced
<1>0. Typed /\ Alike /\ (Fresh \/ FewLines => Named) /\ InTime
  BY DEF PublisherInv
<1>1. /\ (Fresh' <=> Fresh) /\ (InRs' <=> InRs) /\ (FewLines' <=> FewLines)
      /\ program' = program
  BY DEF Queues, Fresh, InRs, FewLines
<1>2. Typed'
  <2>1. wait \in Int /\ gap \in Nat
    BY <1>0 DEF Typed
  <2>2. wait' \in Int /\ gap' \in Nat
    BY <2>1
  <2>3. UNCHANGED <<st_num, sq_num, step, wire>> /\ program' = program
    BY <1>1
  <2> HIDE DEF Fresh
  <2> QED BY <1>0, <2>2, <2>3 DEF Typed, Queues
<1>3. Alike'
  BY <1>0, <1>1 DEF Alike, PublishedIsOnWire
<1>5. ASSUME Fresh \/ FewLines PROVE Named'
  <2>1. CASE Fresh
    BY <1>0, <1>1, <2>1 DEF Named
  <2>2. CASE ~Fresh
    <3>1. Named /\ typed <= MaxLines /\ typed' <= MaxLines
      BY <1>0, <1>5, <2>2 DEF Named, Queues
    <3>0. st_num \in Nat /\ typed \in Nat /\ typed' \in Nat /\ st_num' = st_num
      BY <1>0, <1>2 DEF Typed
    <3>a. st_num + w <= typed + 1
      BY <2>2, <3>1 DEF Named
    <3>2. st_num' + x <= typed' + 1
      BY <3>0, <3>a, StillFits
    <3> QED BY <1>1, <2>2, <3>1, <3>2 DEF Named
  <2> QED BY <2>1, <2>2
<1>6. InTime'
  <2> SUFFICES ASSUME Fresh PROVE InTime'
    BY <1>1 DEF InTime
  <2>1. FreshLag \in Nat /\ wait \in Int /\ gap \in Nat /\ wire.tal \in Nat
    BY <1>0, FreshAssumption DEF Typed
  <2>2. /\ wait >= -FreshLag
        /\ wire.st # 0 => 2 * (gap + wait) <= wire.tal /\ 2 * FreshLag < wire.tal
    BY <1>0 DEF InTime
  <2>3. wait' >= -FreshLag /\ gap' + wait' <= gap + wait /\ gap' + wait' \in Int
    BY <2>1, <2>2
  <2> QED BY <2>1, <2>2, <2>3 DEF InTime
<1>7. Announced
  BY DEF Announced
<1> QED BY <1>1, <1>2, <1>3, <1>5, <1>6, <1>7 DEF PublisherInv, Queues, SameState

-----------------------------------------------------------------------------
(* The steps of the programs.                                              *)

(* Lengths of the queues, as numbers.                                      *)
LEMMA Lengths ==
  ASSUME NEW a \in Seq(Lines), NEW b \in Seq(Lines), NEW c \in Seq(Lines)
  PROVE  /\ Len(a) \in Nat /\ Len(b) \in Nat /\ Len(c) \in Nat
         /\ Len(a) + Len(b) + Len(c) \in Nat
<1>1. Len(a) \in Nat /\ Len(b) \in Nat /\ Len(c) \in Nat
  BY LenProperties
<1> QED BY <1>1

LEMMA Split ==
  ASSUME NEW q \in Seq(Lines), NEW n \in 1 .. Len(q)
  PROVE  /\ SubSeq(q, 1, n) \in Seq(Lines) /\ SubSeq(q, n + 1, Len(q)) \in Seq(Lines)
         /\ Len(SubSeq(q, 1, n)) + Len(SubSeq(q, n + 1, Len(q))) = Len(q)
<1>1. Len(q) \in Nat /\ \A i \in 1 .. Len(q) : q[i] \in Lines
  BY LenProperties
<1>2. n \in Int /\ n + 1 \in Int /\ Len(q) \in Int /\ 1 \in Int
  BY <1>1
<1>3. \A i \in 1 .. n : q[i] \in Lines
  BY <1>1
<1>4. \A i \in n + 1 .. Len(q) : q[i] \in Lines
  BY <1>1
<1>5. SubSeq(q, 1, n) \in Seq(Lines) /\ Len(SubSeq(q, 1, n)) = IF 1 <= n THEN n - 1 + 1 ELSE 0
  BY <1>2, <1>3, SubSeqProperties
<1>6. /\ SubSeq(q, n + 1, Len(q)) \in Seq(Lines)
      /\ Len(SubSeq(q, n + 1, Len(q))) = IF n + 1 <= Len(q) THEN Len(q) - (n + 1) + 1 ELSE 0
  BY <1>2, <1>4, SubSeqProperties
<1> QED BY <1>1, <1>5, <1>6

(* A frame of the current state, or of a new one for a line that is taken  *)
(* from a queue.                                                           *)
LEMMA DueKeeps ==
  ASSUME PublisherInv, Sent(val, st_num, sq_num), program' = program,
         UNCHANGED <<running, stopped, stdin, batch, channel, typed>>
  PROVE  PublisherInv' /\ (Fresh \/ FewLines => SameState) /\ Announced
<1>1. Typed /\ (InRs /\ stopped => ~running)
  BY DEF PublisherInv
<1>2. Queues
  BY <1>1 DEF Queues, Typed, InRs
<1>3. Len(stdin) + Len(batch) + Len(channel) \in Nat
  BY <1>1, Lengths DEF Typed
<1> DEFINE w == Len(stdin) + Len(batch) + Len(channel)
<1>4. w = Len(stdin') + Len(batch') + Len(channel')
  OBVIOUS
<1>5. w \in Nat /\ w = Len(stdin) + Len(batch) + Len(channel)
  BY <1>3
<1> HIDE DEF w
<1> QED BY <1>2, <1>4, <1>5, SentKeeps

(* A step that neither sends nor moves a line.                             *)
LEMMA StillKeeps ==
  ASSUME PublisherInv, program' = program,
         InRs /\ stopped' => ~running',
         UNCHANGED <<stdin, batch, channel, typed, val, st_num, sq_num, lib, step, wire, published>>,
         \/ UNCHANGED <<wait, gap>>
         \/ /\ wait' = wait - 1 /\ gap' \in {gap, gap + 1}
            /\ Fresh => wait > -FreshLag
  PROVE  PublisherInv' /\ SameState /\ Announced
<1>1. Typed
  BY DEF PublisherInv
<1>2. Queues
  BY <1>1 DEF Queues, Typed
<1>3. Len(stdin) + Len(batch) + Len(channel) \in Nat /\ typed \in Nat
  BY <1>1, Lengths DEF Typed
<1> DEFINE w == Len(stdin) + Len(batch) + Len(channel)
<1>4. w = Len(stdin') + Len(batch') + Len(channel')
  OBVIOUS
<1>5. w \in Nat /\ w = Len(stdin) + Len(batch) + Len(channel)
  BY <1>3
<1> HIDE DEF w
<1>6. typed <= typed' /\ w + typed <= w + typed'
  BY <1>3, <1>5
<1> QED BY <1>2, <1>4, <1>5, <1>6, QuietKeeps

(* The operator writes a line, or closes standard input.                   *)
LEMMA TypeKeeps ==
  ASSUME PublisherInv, program' = program, InRs /\ stopped' => ~running',
         UNCHANGED <<batch, channel, val, st_num, sq_num, lib, step, wait, wire, published, gap>>,
         \/ /\ \E c \in Lines : stdin' = Append(stdin, c)
            /\ typed' = typed + 1 /\ (~Fresh => typed < MaxLines)
         \/ UNCHANGED <<stdin, typed>>
  PROVE  PublisherInv' /\ SameState /\ Announced
<1>1. Typed
  BY DEF PublisherInv
<1>2. CASE UNCHANGED <<stdin, typed>>
  BY <1>2, StillKeeps
<1>3. CASE /\ \E c \in Lines : stdin' = Append(stdin, c)
           /\ typed' = typed + 1 /\ (~Fresh => typed < MaxLines)
  <2>1. PICK c \in Lines : stdin' = Append(stdin, c)
    BY <1>3
  <2>2. stdin' \in Seq(Lines) /\ Len(stdin') = Len(stdin) + 1
    BY <1>1, <2>1, AppendProperties DEF Typed
  <2>3. typed \in Nat /\ MaxLines \in Nat
    BY <1>1, PublishingAssumption DEF Typed
  <2>4. typed' \in Nat /\ (~Fresh /\ typed <= MaxLines => typed' <= MaxLines)
    BY <1>3, <2>3
  <2>5. Queues
    BY <1>1, <2>2, <2>4 DEF Queues, Typed
  <2> DEFINE w == Len(stdin) + Len(batch) + Len(channel)
             x == Len(stdin') + Len(batch') + Len(channel')
  <2>6. /\ w \in Nat /\ w = Len(stdin) + Len(batch) + Len(channel)
        /\ Len(stdin) \in Nat /\ Len(batch) \in Nat /\ Len(channel) \in Nat
    BY <1>1, Lengths DEF Typed
  <2>7. x = w + 1 /\ x = Len(stdin') + Len(batch') + Len(channel')
    BY <2>2, <2>6
  <2> HIDE DEF w, x
  <2>8. x \in Nat /\ typed <= typed' /\ x + typed <= w + typed'
    BY <1>3, <2>3, <2>6, <2>7
  <2> QED BY <2>5, <2>6, <2>7, <2>8, QuietKeeps
<1> QED BY <1>2, <1>3

(* A line is taken from a queue and handled: a new state is sent, or the   *)
(* program is stopped, or nothing happens.                                 *)
LEMMA LineKeeps ==
  ASSUME PublisherInv, program' = program, InRs /\ stopped' => ~running',
         UNCHANGED <<stdin, typed>>,
         \/ batch # << >> /\ batch' = Tail(batch) /\ UNCHANGED channel
         \/ channel # << >> /\ channel' = Tail(channel) /\ UNCHANGED batch,
         \/ \E v : Sent(v, Inc(st_num), 0)
         \/ UNCHANGED <<val, st_num, sq_num, lib, step, wait, wire, published, gap>>
  PROVE  PublisherInv' /\ (Fresh \/ FewLines => SameState) /\ Announced
<1>1. Typed
  BY DEF PublisherInv
<1> DEFINE w == Len(stdin) + Len(batch) + Len(channel)
           x == Len(stdin') + Len(batch') + Len(channel')
<1>2. /\ batch' \in Seq(Lines) /\ channel' \in Seq(Lines)
      /\ Len(batch') + Len(channel') = Len(batch) + Len(channel) - 1
  <2>1. Len(batch) \in Nat /\ Len(channel) \in Nat
    BY <1>1, Lengths DEF Typed
  <2>2. batch # << >> => Tail(batch) \in Seq(Lines) /\ Len(Tail(batch)) = Len(batch) - 1
    BY <1>1, HeadTailProperties DEF Typed
  <2>3. channel # << >> => Tail(channel) \in Seq(Lines) /\ Len(Tail(channel)) = Len(channel) - 1
    BY <1>1, HeadTailProperties DEF Typed
  <2>4. batch \in Seq(Lines) /\ channel \in Seq(Lines)
    BY <1>1 DEF Typed
  <2>5. CASE batch # << >> /\ batch' = Tail(batch) /\ UNCHANGED channel
    BY <2>1, <2>2, <2>4, <2>5
  <2>6. CASE channel # << >> /\ channel' = Tail(channel) /\ UNCHANGED batch
    BY <2>1, <2>3, <2>4, <2>6
  <2> QED BY <2>5, <2>6
<1>3. Queues
  BY <1>1, <1>2 DEF Queues, Typed
<1>4. /\ Len(stdin) \in Nat /\ Len(batch) \in Nat /\ Len(channel) \in Nat /\ w \in Nat
      /\ Len(batch') \in Nat /\ Len(channel') \in Nat /\ typed \in Nat
      /\ w = Len(stdin) + Len(batch) + Len(channel)
  BY <1>1, <1>2, Lengths DEF Typed
<1>5. x \in Nat /\ x + 1 = w /\ x = Len(stdin') + Len(batch') + Len(channel')
  <2>1. Len(stdin') = Len(stdin)
    OBVIOUS
  <2>2. /\ Len(stdin) + Len(batch') + Len(channel') \in Nat
        /\ (Len(stdin) + Len(batch') + Len(channel')) + 1 = Len(stdin) + Len(batch) + Len(channel)
    <3>1. \A s, b, n, p, q \in Nat :
            p + q = b + n - 1 => s + p + q \in Nat /\ (s + p + q) + 1 = s + b + n
      BY OneLess
    <3>2. /\ Len(stdin) \in Nat /\ Len(batch) \in Nat /\ Len(channel) \in Nat
          /\ Len(batch') \in Nat /\ Len(channel') \in Nat
      BY <1>4
    <3>3. Len(batch') + Len(channel') = Len(batch) + Len(channel) - 1
      BY <1>2
    <3> HIDE DEF w, x
    <3> QED
      BY <3>1, <3>2, <3>3
  <2> QED
    BY <2>1, <2>2
<1> HIDE DEF w, x
<1>6. x + 1 <= w /\ typed <= typed' /\ x + typed <= w + typed'
  BY <1>4, <1>5
<1>7. CASE \E v : Sent(v, Inc(st_num), 0)
  <2>1. PICK v : Sent(v, Inc(st_num), 0)
    BY <1>7
  <2> QED BY <1>3, <1>4, <1>5, <1>6, <2>1, SentKeeps
<1>8. CASE UNCHANGED <<val, st_num, sq_num, lib, step, wait, wire, published, gap>>
  BY <1>3, <1>4, <1>5, <1>6, <1>8, QuietKeeps
<1> QED BY <1>7, <1>8

LEMMA CStep ==
  ASSUME PublisherInv, NEW fresh \in BOOLEAN, fresh <=> Fresh, InC,
         C(fresh)!Next, CKeeps
  PROVE  PublisherInv' /\ (Fresh \/ FewLines => SameState) /\ Announced
<1>1. /\ Typed /\ step \in Nat /\ stdin \in Seq(Lines)
      /\ lib = [st |-> st_num, sq |-> sq_num]
  BY DEF PublisherInv, Typed, Alike
<1>2. program' = program /\ channel' = channel /\ ~InRs
  BY DEF CKeeps, InC, InRs
<1>3. CASE C(fresh)!Due
  <2>1. C(fresh)!send_frame(val, st_num, sq_num, [st |-> st_num, sq |-> sq_num], step)
    BY <1>1, <1>3 DEF C!Due
  <2>2. Sent(val, st_num, sq_num)
    BY <1>1, <2>1, CSends
  <2>3. UNCHANGED <<running, stopped, stdin, batch, channel, typed>>
    BY <1>2, <1>3 DEF C!Due, C!input
  <2> QED BY <1>2, <2>2, <2>3, DueKeeps
<1>4. CASE C(fresh)!ReadLines
  <2>1. /\ batch = << >> /\ UNCHANGED <<typed, val, st_num, sq_num, lib, step, wait, wire, published, gap>>
        /\ \E n \in 1 .. Len(stdin) :
             batch' = SubSeq(stdin, 1, n) /\ stdin' = SubSeq(stdin, n + 1, Len(stdin))
    BY <1>4 DEF C!ReadLines, C!counters, C!seen
  <2>2. PICK n \in 1 .. Len(stdin) :
          batch' = SubSeq(stdin, 1, n) /\ stdin' = SubSeq(stdin, n + 1, Len(stdin))
    BY <2>1
  <2>3. /\ batch' \in Seq(Lines) /\ stdin' \in Seq(Lines)
        /\ Len(batch') + Len(stdin') = Len(stdin)
    BY <1>1, <2>2, Split
  <2>4. Queues
    BY <1>1, <1>2, <2>1, <2>3 DEF Queues, Typed
  <2> DEFINE w == Len(stdin) + Len(batch) + Len(channel)
  <2>5. /\ Len(stdin) \in Nat /\ Len(batch) \in Nat /\ Len(channel) \in Nat /\ w \in Nat
        /\ Len(batch') \in Nat /\ Len(stdin') \in Nat /\ Len(batch) = 0 /\ typed \in Nat
        /\ channel' = channel /\ typed' = typed
        /\ w = Len(stdin) + Len(batch) + Len(channel)
    BY <1>1, <1>2, <2>1, <2>3, Lengths, EmptySeq DEF Typed
  <2>6. w = Len(stdin') + Len(batch') + Len(channel')
    BY <2>3, <2>5
  <2> HIDE DEF w
  <2>7. typed <= typed' /\ w + typed <= w + typed'
    BY <2>5
  <2> QED BY <2>1, <2>4, <2>5, <2>6, <2>7, QuietKeeps
<1>5. CASE C(fresh)!ReadEof \/ C(fresh)!sig_handler
  BY <1>2, <1>5, StillKeeps DEF C!ReadEof, C!sig_handler, C!input, C!counters, C!seen
<1>6. CASE C(fresh)!handle_line
  <2>1. batch # << >> /\ batch' = Tail(batch) /\ UNCHANGED <<stdin, typed>>
    BY <1>6 DEF C!handle_line, C!input
  <2>2. \/ \E v : C(fresh)!state_change(v)
        \/ UNCHANGED <<val, st_num, sq_num, lib, step, wait, wire, published, gap>>
    BY <1>6 DEF C!handle_line, C!counters, C!seen
  <2>3. \A v : C(fresh)!state_change(v) => Sent(v, Inc(st_num), 0)
    <3> SUFFICES ASSUME NEW v, C(fresh)!state_change(v)
                 PROVE  Sent(v, Inc(st_num), 0)
      OBVIOUS
    <3>1. C(fresh)!send_frame(v, Inc(st_num), 0, [st |-> Inc(st_num), sq |-> 0], 0)
      BY <1>1 DEF C!state_change, C!increaseStNum, C!Inc, Inc
    <3> QED BY <3>1, CSends
  <2> QED BY <1>2, <2>1, <2>2, <2>3, LineKeeps
<1>7. CASE C(fresh)!Tick
  <2>1. /\ wait > -(IF fresh THEN FreshLag ELSE MaxLag) /\ wait' = wait - 1
        /\ gap' \in {gap, gap + 1}
        /\ UNCHANGED <<stdin, batch, typed, val, st_num, sq_num, lib, step, wire, published>>
    BY <1>7 DEF C!Tick, C!Clock, C!input
  <2> QED BY <1>2, <2>1, StillKeeps
<1>8. CASE C(fresh)!Operator
  <2>1. UNCHANGED <<batch, val, st_num, sq_num, lib, step, wait, wire, published, gap>>
    BY <1>8 DEF C!Operator, C!counters, C!seen
  <2>2. \/ /\ \E c \in Lines : stdin' = Append(stdin, c)
           /\ typed' = typed + 1 /\ (~Fresh => typed < MaxLines)
        \/ UNCHANGED <<stdin, typed>>
    BY <1>8 DEF C!Operator, C!Type, C!CloseStdin, C!Lines, Lines
  <2> QED BY <1>2, <2>1, <2>2, TypeKeeps
<1> QED BY <1>3, <1>4, <1>5, <1>6, <1>7, <1>8 DEF C!Next

LEMMA RsStep ==
  ASSUME PublisherInv, NEW fresh \in BOOLEAN, fresh <=> Fresh, InRs,
         Rs(fresh)!Next, RsKeeps
  PROVE  PublisherInv' /\ (Fresh \/ FewLines => SameState) /\ Announced
<1>1. /\ Typed /\ step \in Nat /\ stdin \in Seq(Lines) /\ channel \in Seq(Lines)
      /\ lib = [st |-> st_num, sq |-> sq_num] /\ (stopped => ~running)
  BY DEF PublisherInv, Typed, Alike
<1>2. program' = program /\ batch' = batch
  BY DEF RsKeeps
<1>3. running
  BY DEF Rs!Next, Rs!Forward, Rs!ReaderEnds, Rs!Due, Rs!handle_line, Rs!Disconnected, Rs!Signal,
         Rs!Tick, Rs!Operator
<1>4. CASE Rs(fresh)!Due
  <2>1. Rs(fresh)!send_frame(val, st_num, sq_num, [st |-> st_num, sq |-> sq_num], step)
    BY <1>1, <1>4 DEF Rs!Due
  <2>2. Sent(val, st_num, sq_num)
    BY <1>1, <2>1, RsSends
  <2>3. UNCHANGED <<running, stopped, stdin, batch, channel, typed>>
    BY <1>2, <1>4 DEF Rs!Due, Rs!input, Rs!threads
  <2> QED BY <1>1, <1>2, <1>3, <2>2, <2>3, DueKeeps
<1>5. CASE Rs(fresh)!Forward
  <2>1. /\ stdin # << >> /\ stdin' = Tail(stdin) /\ channel' = Append(channel, Head(stdin))
        /\ UNCHANGED <<running, stopped, typed, val, st_num, sq_num, lib, step, wait, wire, published, gap>>
    BY <1>5 DEF Rs!Forward, Rs!counters, Rs!seen
  <2>2. Head(stdin) \in Lines /\ stdin' \in Seq(Lines) /\ Len(stdin') = Len(stdin) - 1
    BY <1>1, <2>1, HeadTailProperties
  <2>3. channel' \in Seq(Lines) /\ Len(channel') = Len(channel) + 1
    BY <1>1, <2>1, <2>2, AppendProperties
  <2>4. Queues
    BY <1>1, <1>2, <2>1, <2>2, <2>3 DEF Queues, Typed
  <2> DEFINE w == Len(stdin) + Len(batch) + Len(channel)
  <2>5. /\ Len(stdin) \in Nat /\ Len(batch) \in Nat /\ Len(channel) \in Nat /\ w \in Nat
        /\ typed \in Nat /\ batch' = batch /\ typed' = typed
        /\ w = Len(stdin) + Len(batch) + Len(channel)
    BY <1>1, <1>2, <2>1, Lengths DEF Typed
  <2>6. w = Len(stdin') + Len(batch') + Len(channel')
    BY <2>2, <2>3, <2>5
  <2> HIDE DEF w
  <2>7. typed <= typed' /\ w + typed <= w + typed'
    BY <2>5
  <2> QED BY <1>1, <1>3, <2>1, <2>4, <2>5, <2>6, <2>7, QuietKeeps
<1>6. CASE Rs(fresh)!ReaderEnds \/ Rs(fresh)!Disconnected \/ Rs(fresh)!Signal
  <2>1. /\ UNCHANGED <<stdin, channel, typed, val, st_num, sq_num, lib, step, wire, published, wait, gap>>
        /\ stopped' = stopped
    BY <1>6 DEF Rs!ReaderEnds, Rs!Disconnected, Rs!Signal, Rs!input, Rs!counters, Rs!seen, Rs!threads
  <2> QED BY <1>1, <1>2, <1>3, <2>1, StillKeeps
<1>7. CASE Rs(fresh)!handle_line
  <2>1. channel # << >> /\ channel' = Tail(channel) /\ UNCHANGED <<stdin, typed>>
    BY <1>7 DEF Rs!handle_line, Rs!input
  <2>2. /\ \/ \E v : Rs(fresh)!state_change(v)
           \/ UNCHANGED <<val, st_num, sq_num, lib, step, wait, wire, published, gap>>
        /\ stopped' = stopped \/ ~running'
    BY <1>7 DEF Rs!handle_line, Rs!counters, Rs!seen, Rs!Halt
  <2>3. \A v : Rs(fresh)!state_change(v) => Sent(v, Inc(st_num), 0)
    <3> SUFFICES ASSUME NEW v, Rs(fresh)!state_change(v)
                 PROVE  Sent(v, Inc(st_num), 0)
      OBVIOUS
    <3>1. Rs(fresh)!send_frame(v, Inc(st_num), 0, [st |-> Inc(st_num), sq |-> 0], 0)
      BY <1>1 DEF Rs!state_change, Rs!increase_st_num, Rs!Inc, Inc
    <3> QED BY <3>1, RsSends
  <2>4. ~stopped
    BY <1>1, <1>3
  <2>5. stopped' => ~running'
    BY <2>2, <2>4
  <2> QED BY <1>2, <2>1, <2>2, <2>3, <2>4, <2>5, LineKeeps
<1>8. CASE Rs(fresh)!Tick
  <2>1. /\ wait > -(IF fresh THEN FreshLag ELSE MaxLag) /\ wait' = wait - 1
        /\ gap' \in {gap, gap + 1}
        /\ UNCHANGED <<running, stopped, stdin, channel, typed, val, st_num, sq_num, lib, step, wire, published>>
    BY <1>8 DEF Rs!Tick, Rs!Clock, Rs!input, Rs!threads
  <2> QED BY <1>1, <1>2, <1>3, <2>1, StillKeeps
<1>9. CASE Rs(fresh)!Operator
  <2>1. UNCHANGED <<running, stopped, channel, val, st_num, sq_num, lib, step, wait, wire, published, gap>>
    BY <1>9 DEF Rs!Operator, Rs!counters, Rs!seen, Rs!threads
  <2>2. \/ /\ \E c \in Lines : stdin' = Append(stdin, c)
           /\ typed' = typed + 1 /\ (~Fresh => typed < MaxLines)
        \/ UNCHANGED <<stdin, typed>>
    BY <1>9 DEF Rs!Operator, Rs!Type, Rs!CloseStdin, Rs!Lines, Lines
  <2> QED BY <1>1, <1>2, <1>3, <2>1, <2>2, TypeKeeps
<1> QED BY <1>4, <1>5, <1>6, <1>7, <1>8, <1>9 DEF Rs!Next

-----------------------------------------------------------------------------
(* The theorems.                                                           *)

LEMMA AnyStep ==
  ASSUME PublisherInv, [Next]_vars
  PROVE  PublisherInv' /\ (Fresh \/ FewLines => SameState) /\ Announced
<1>1. CASE program = "schedule" /\ Walk!Next /\ WalkKeeps
  <2>1. /\ program' = program
        /\ UNCHANGED <<running, stopped, stdin, batch, channel, typed, val, st_num, sq_num, lib, step, wait,
                       wire, published, gap>>
    BY <1>1 DEF WalkKeeps, input, counters, seen
  <2>2. InRs /\ stopped' => ~running'
    BY <2>1 DEF PublisherInv
  <2> QED BY <2>1, <2>2, StillKeeps
<1>2. CASE program = "c" /\ C(FALSE)!Next /\ CKeeps
  BY <1>2, CStep DEF Fresh, InC, InRs
<1>3. CASE program = "freshC" /\ C(TRUE)!Next /\ CKeeps
  BY <1>3, CStep DEF Fresh, InC, InRs
<1>4. CASE program = "rs" /\ Rs(FALSE)!Next /\ RsKeeps
  BY <1>4, RsStep DEF Fresh, InRs
<1>5. CASE program = "freshRs" /\ Rs(TRUE)!Next /\ RsKeeps
  BY <1>5, RsStep DEF Fresh, InRs
<1>6. CASE UNCHANGED vars
  <2>1. /\ program' = program
        /\ UNCHANGED <<running, stopped, stdin, batch, channel, typed, val, st_num, sq_num, lib, step, wait,
                       wire, published, gap>>
    BY <1>6 DEF vars, input, counters, seen
  <2>2. InRs /\ stopped' => ~running'
    BY <2>1 DEF PublisherInv
  <2> QED BY <2>1, <2>2, StillKeeps
<1> QED BY <1>1, <1>2, <1>3, <1>4, <1>5, <1>6 DEF Next

LEMMA AtStart == Init => PublisherInv
<1> SUFFICES ASSUME Init PROVE PublisherInv
  OBVIOUS
<1>1. /\ stdin = << >> /\ batch = << >> /\ channel = << >> /\ typed = 0 /\ ~stopped
      /\ st_num = 1 /\ sq_num = 0 /\ lib = [st |-> 1, sq |-> 0] /\ step = 0 /\ wait = 0 /\ gap = 0
      /\ wire = [st |-> 0, sq |-> 0, val |-> val, tal |-> 0]
      /\ published = [st |-> 0, sq |-> 0, tal |-> 0]
      /\ program \in {"c", "freshC", "rs", "freshRs", "schedule"}
  BY DEF Init, C!Init, C!PublishingInit, Rs!Init
<1>2. wire.st = 0 /\ wire.sq = 0 /\ wire.tal = 0
  BY <1>1
<1>3. << >> \in Seq(Lines) /\ Len(<< >>) = 0
  BY EmptySeq
<1>4. Word \in Nat /\ Word > 2 /\ MaxLines \in Nat /\ FreshLag \in Nat
  BY PublishingAssumption, FreshAssumption
<1>5. Typed
  BY <1>1, <1>2, <1>3, <1>4 DEF Typed
<1>6. Alike
  BY <1>1, <1>2 DEF Alike, PublishedIsOnWire
<1>7. Named
  <2>1. Len(stdin) + Len(batch) + Len(channel) = 0
    BY <1>1, <1>3
  <2> QED BY <1>1, <1>2, <1>4, <2>1 DEF Named
<1>8. InTime
  BY <1>1, <1>2, <1>4 DEF InTime
<1> QED BY <1>1, <1>5, <1>6, <1>7, <1>8 DEF PublisherInv

LEMMA PublisherInvHolds == Spec => []PublisherInv
<1>1. PublisherInv /\ [Next]_vars => PublisherInv'
  BY AnyStep
<1> QED BY AtStart, <1>1, PTL DEF Spec

(***************************************************************************)
(* With words of any length, any schedule and a socket that may refuse     *)
(* frames, each frame on the wire has its event and each event the numbers *)
(* of a frame the library encoded; in Rust, of one on the wire (send_frame *)
(* and the library's own counters never drift apart).                      *)
(***************************************************************************)
THEOREM EventsPerFrame == Spec => EventPerFrame
<1>1. PublisherInv /\ [Next]_vars =>
        [/\ wire' # wire => PublishedIsOnWire'
         /\ published' # published =>
              /\ lib' = [st |-> published'.st, sq |-> Inc(published'.sq)]
              /\ InRs => wire' # wire]_<<wire, published>>
  BY AnyStep DEF Announced
<1> QED BY PublisherInvHolds, <1>1, PTL DEF Spec, EventPerFrame

(***************************************************************************)
(* A publisher whose frames get through and that is less late than its     *)
(* shortest interval sends the next frame before the timeAllowedToLive of  *)
(* the last one has passed, whatever its schedule and however often the    *)
(* state changes.                                                          *)
(***************************************************************************)
THEOREM NeverExpires == Spec => []FreshWhenHealthy
<1>1. PublisherInv => FreshWhenHealthy
  <2> SUFFICES ASSUME PublisherInv, Fresh, running, wire.st # 0 PROVE gap < wire.tal
    BY DEF FreshWhenHealthy, FreshBeforeExpiry, Fresh
  <2>1. /\ wait >= -FreshLag /\ 2 * (gap + wait) <= wire.tal /\ 2 * FreshLag < wire.tal
        /\ wait \in Int /\ gap \in Nat /\ wire.tal \in Nat /\ FreshLag \in Nat
    BY FreshAssumption DEF PublisherInv, InTime, Typed
  <2> QED BY <2>1
<1> QED BY PublisherInvHolds, <1>1, PTL

(***************************************************************************)
(* As long as there are fewer state changes than stNum has values, frames  *)
(* that follow each other with one stNum carry the same values, although   *)
(* any of the frames between them may have been refused.                   *)
(***************************************************************************)
THEOREM StatesNamed ==
  ASSUME FewLines
  PROVE  Spec => StNumNamesState
<1>1. PublisherInv /\ [Next]_vars =>
        [wire' # wire /\ wire'.st = wire.st => wire'.val = wire.val /\ wire'.sq # 0]_wire
  BY AnyStep DEF SameState
<1> QED BY PublisherInvHolds, <1>1, PTL DEF Spec, StNumNamesState

-----------------------------------------------------------------------------
(* Lines in turn.                                                          *)

(* Each program has its own buffer, and step 0 is that of a first frame.   *)
TurnInv ==
  /\ InC => channel = << >>
  /\ InRs => batch = << >>
  /\ step = 0 => sq_num = 0

(* The three things that may happen to the lines, and the end of the loop. *)
Idle == UNCHANGED <<Pending, val, st_num, stopped>>
Typing == (\E c \in Lines : Pending' = Append(Pending, c)) /\ UNCHANGED <<val, st_num, stopped>>
Ended == ~running => UNCHANGED stdin /\ (wire' # wire => wire'.sq = 0)

LEMMA Around ==
  ASSUME NEW a \in Seq(Lines), NEW b \in Seq(Lines)
  PROVE  (<< >> \o a) \o b = a \o b /\ (a \o << >>) \o b = a \o b
BY ConcatEmptySeq

LEMMA AppendBehind ==
  ASSUME NEW a \in Seq(Lines), NEW b \in Seq(Lines), NEW x \in Lines
  PROVE  a \o Append(b, x) = Append(a \o b, x)
<1>1. Append(b, x) = b \o <<x>> /\ <<x>> \in Seq(Lines)
  BY AppendIsConcat
<1>2. a \o b \in Seq(Lines)
  BY ConcatProperties
<1>3. Append(a \o b, x) = (a \o b) \o <<x>>
  BY <1>2, AppendIsConcat
<1> QED BY <1>1, <1>3, ConcatAssociative

LEMMA HeadAndTail ==
  ASSUME NEW a \in Seq(Lines), a # << >>
  PROVE  a = <<Head(a)>> \o Tail(a) /\ <<Head(a)>> \in Seq(Lines) /\ Tail(a) \in Seq(Lines)
<1>1. Len(a) \in Nat \ {0} /\ Head(a) = a[1]
  BY EmptySeq
<1>2. 1 \in 1 .. Len(a) /\ Len(a) \in 1 .. Len(a)
  BY <1>1
<1>3. SubSeq(a, 1, Len(a)) = <<a[1]>> \o SubSeq(a, 1 + 1, Len(a))
  BY <1>2, SubSeqRecursiveFirst
<1>4. SubSeq(a, 1, Len(a)) = a /\ Tail(a) = SubSeq(a, 2, Len(a)) /\ 1 + 1 = 2
  BY SubSeqFull, TailIsSubSeq
<1>5. Head(a) \in Lines /\ Tail(a) \in Seq(Lines)
  BY HeadTailProperties
<1> QED BY <1>1, <1>3, <1>4, <1>5

LEMMA TailAhead ==
  ASSUME NEW a \in Seq(Lines), NEW b \in Seq(Lines), a # << >>
  PROVE  a \o b # << >> /\ Head(a \o b) = Head(a) /\ Tail(a \o b) = Tail(a) \o b
<1>1. a \o b \in Seq(Lines) /\ a \o b # << >>
  BY ConcatProperties, ConcatEqualIffEmpty
<1>2. a = <<Head(a)>> \o Tail(a) /\ <<Head(a)>> \in Seq(Lines) /\ Tail(a) \in Seq(Lines)
  BY HeadAndTail
<1>3. a \o b = <<Head(a)>> \o (Tail(a) \o b)
  BY <1>2, ConcatAssociative
<1>4. Len(a) \in Nat \ {0} /\ Len(b) \in Nat
  BY EmptySeq, LenProperties
<1>5. 1 \in 1 .. Len(a) + Len(b) /\ 1 <= Len(a)
  BY <1>4
<1>6. (a \o b)[1] = a[1]
  BY <1>5, ConcatProperties
<1>7. Head(a \o b) = Head(a)
  BY <1>1, <1>6
<1>8. a \o b = <<Head(a)>> \o Tail(a \o b) /\ Tail(a \o b) \in Seq(Lines)
  BY <1>1, <1>7, HeadAndTail
<1>9. Tail(a) \o b \in Seq(Lines)
  BY <1>2, ConcatProperties
<1>10. \A s, t, v \in Seq(Lines) : s \o t = s \o v => t = v
  BY ConcatSimplifications
<1>11. Tail(a \o b) = Tail(a) \o b
  <2> DEFINE h == <<Head(a)>>
             t == Tail(a \o b)
             v == Tail(a) \o b
  <2>1. h \in Seq(Lines) /\ t \in Seq(Lines) /\ v \in Seq(Lines) /\ h \o t = h \o v
    BY <1>2, <1>3, <1>8, <1>9
  <2> HIDE DEF h, t, v
  <2>2. t = v
    BY <1>10, <2>1
  <2> QED BY <2>2 DEF t, v
<1> QED BY <1>1, <1>7, <1>11

(* A line from the head of one queue to the end of the one before it.      *)
LEMMA PassOn ==
  ASSUME NEW a \in Seq(Lines), NEW b \in Seq(Lines), b # << >>
  PROVE  Append(a, Head(b)) \o Tail(b) = a \o b
<1>1. b = <<Head(b)>> \o Tail(b) /\ <<Head(b)>> \in Seq(Lines) /\ Tail(b) \in Seq(Lines)
  BY HeadAndTail
<1>2. Head(b) \in Lines
  BY HeadTailProperties
<1>3. Append(a, Head(b)) = a \o <<Head(b)>>
  BY <1>2, AppendIsConcat
<1> QED BY <1>1, <1>3, ConcatAssociative

(* What a frame does to the loop's end.                                    *)
LEMMA SentEnds ==
  ASSUME NEW v, NEW st, NEW sq, Sent(v, st, sq)
  PROVE  /\ val' = v /\ st_num' = st /\ step' # 0
         /\ wire' # wire => wire'.sq = sq
BY DEF Sent

(* The line at the head of a queue has its effect.                         *)
Effect(c) ==
  <<val', st_num', stopped'>> =
    CASE c[1] = "set" -> <<c[2], Inc(st_num), stopped>>
      [] c[1] = "stop" -> <<val, st_num, TRUE>>
      [] OTHER -> <<val, st_num, stopped>>

LEMMA Taken ==
  ASSUME Pending # << >>, Pending' = Tail(Pending), stopped => InC /\ batch # << >>,
         NEW c, c = Head(Pending), Effect(c)
  PROVE  TakesLine
BY DEF TakesLine, Effect
LEMMA Cut ==
  ASSUME NEW q \in Seq(Lines), NEW n \in 1 .. Len(q)
  PROVE  SubSeq(q, 1, n) \o SubSeq(q, n + 1, Len(q)) = q
<1>1. Len(q) \in Nat
  BY LenProperties
<1>2. 1 \in 1 .. Len(q) + 1 /\ n \in 1 - 1 .. Len(q) /\ Len(q) \in n .. Len(q)
  BY <1>1
<1>3. SubSeq(q, 1, n) \o SubSeq(q, n + 1, Len(q)) = SubSeq(q, 1, Len(q))
  BY <1>2, ConcatAdjacentSubSeq
<1> QED BY <1>3, SubSeqFull

(* The line at the head of the program's buffer is handled: a frame of a   *)
(* new state, or no frame.                                                 *)
LEMMA Obeyed ==
  ASSUME NEW q \in Seq(Lines), q # << >>, NEW r \in Seq(Lines),
         Pending = q \o r, Pending' = Tail(q) \o r, program' = program,
         UNCHANGED stdin, stopped => InC /\ batch # << >>,
         NEW c, c = Head(q),
         \/ c[1] = "set" /\ Sent(c[2], Inc(st_num), 0) /\ UNCHANGED stopped
         \/ c[1] = "stop" /\ stopped' = TRUE /\ UNCHANGED <<val, st_num, sq_num, step, wire>>
         \/ c[1] = "bad" /\ UNCHANGED <<stopped, val, st_num, sq_num, step, wire>>,
         step = 0 => sq_num = 0
  PROVE  TakesLine /\ Ended /\ (step' = 0 => sq_num' = 0)
<1>1. Pending # << >> /\ c = Head(Pending) /\ Pending' = Tail(Pending)
  BY TailAhead
<1>2. CASE c[1] = "set" /\ Sent(c[2], Inc(st_num), 0) /\ UNCHANGED stopped
  <2>1. /\ val' = c[2] /\ st_num' = Inc(st_num) /\ step' # 0
        /\ wire' # wire => wire'.sq = 0
    BY <1>2, SentEnds
  <2>2. Effect(c)
    BY <1>2, <2>1 DEF Effect
  <2> QED BY <1>1, <2>1, <2>2, Taken DEF Ended
<1>3. CASE c[1] = "stop" /\ stopped' = TRUE /\ UNCHANGED <<val, st_num, sq_num, step, wire>>
  <2>1. Effect(c)
    BY <1>3 DEF Effect
  <2> QED BY <1>1, <1>3, <2>1, Taken DEF Ended
<1>4. CASE c[1] = "bad" /\ UNCHANGED <<stopped, val, st_num, sq_num, step, wire>>
  <2>1. Effect(c)
    BY <1>4 DEF Effect
  <2> QED BY <1>1, <1>4, <2>1, Taken DEF Ended
<1> QED BY <1>2, <1>3, <1>4

(* A line is typed behind the program's buffer, or none is.                *)
LEMMA TypedBehind ==
  ASSUME NEW q \in Seq(Lines), stdin \in Seq(Lines),
         Pending = q \o stdin, Pending' = q \o stdin',
         (\E c \in Lines : stdin' = Append(stdin, c)) \/ UNCHANGED stdin,
         UNCHANGED <<val, st_num, stopped>>
  PROVE  Idle \/ Typing
<1>1. CASE UNCHANGED stdin
  BY <1>1 DEF Idle
<1>2. CASE \E c \in Lines : stdin' = Append(stdin, c)
  <2>1. PICK c \in Lines : stdin' = Append(stdin, c)
    BY <1>2
  <2>2. \A b \in Seq(Lines) : q \o Append(b, c) = Append(q \o b, c)
    BY <2>1, AppendBehind
  <2>3. Pending' = Append(Pending, c)
    BY <2>1, <2>2
  <2> QED BY <2>1, <2>3 DEF Typing
<1> QED BY <1>1, <1>2

LEMMA CTurn ==
  ASSUME PublisherInv, TurnInv, NEW fresh \in BOOLEAN, fresh <=> Fresh, InC,
         C(fresh)!Next, CKeeps, PublisherInv'
  PROVE  (Idle \/ Typing \/ TakesLine) /\ Ended /\ TurnInv'
<1>1. /\ step \in Nat /\ stdin \in Seq(Lines) /\ batch \in Seq(Lines)
      /\ stdin' \in Seq(Lines) /\ batch' \in Seq(Lines)
      /\ lib = [st |-> st_num, sq |-> sq_num]
  BY DEF PublisherInv, Typed, Alike
<1>2. /\ program' = program /\ channel = << >> /\ channel' = << >> /\ ~InRs /\ ~InRs'
      /\ step = 0 => sq_num = 0
  BY DEF CKeeps, InC, InRs, TurnInv
<1>3. Pending = batch \o stdin /\ Pending' = batch' \o stdin'
  BY <1>1, <1>2, Around DEF Pending
<1>4. (step' = 0 => sq_num' = 0) => TurnInv'
  BY <1>2 DEF TurnInv
<1>5. CASE C(fresh)!Due
  <2>1. C(fresh)!send_frame(val, st_num, sq_num, [st |-> st_num, sq |-> sq_num], step)
    BY <1>1, <1>5 DEF C!Due
  <2>2. Sent(val, st_num, sq_num)
    BY <1>1, <2>1, CSends
  <2>3. UNCHANGED <<stopped, stdin, batch>> /\ (running \/ step = 0)
    BY <1>5 DEF C!Due, C!input
  <2>4. val' = val /\ st_num' = st_num /\ step' # 0 /\ (wire' # wire => wire'.sq = sq_num)
    BY <2>2, SentEnds
  <2>5. Idle
    BY <1>3, <2>3, <2>4 DEF Idle
  <2>6. Ended
    BY <1>2, <2>3, <2>4 DEF Ended
  <2> QED BY <1>4, <2>4, <2>5, <2>6
<1>6. CASE C(fresh)!ReadLines
  <2>1. /\ batch = << >> /\ running
        /\ \E n \in 1 .. Len(stdin) :
             batch' = SubSeq(stdin, 1, n) /\ stdin' = SubSeq(stdin, n + 1, Len(stdin))
        /\ UNCHANGED <<stopped, val, st_num, sq_num, step>>
    BY <1>6 DEF C!ReadLines, C!counters
  <2>2. PICK n \in 1 .. Len(stdin) :
          batch' = SubSeq(stdin, 1, n) /\ stdin' = SubSeq(stdin, n + 1, Len(stdin))
    BY <2>1
  <2>3. batch' \o stdin' = stdin
    BY <1>1, <2>2, Cut
  <2>4. batch \o stdin = stdin
    BY <1>1, <2>1, ConcatEmptySeq
  <2>5. Idle
    BY <1>3, <2>1, <2>3, <2>4 DEF Idle
  <2> QED BY <1>2, <1>4, <2>1, <2>5 DEF Ended
<1>7. CASE C(fresh)!ReadEof \/ C(fresh)!sig_handler \/ C(fresh)!Tick
  <2>1. UNCHANGED <<stdin, batch, stopped, val, st_num, sq_num, step, wire>>
    BY <1>7 DEF C!ReadEof, C!sig_handler, C!Tick, C!input, C!counters, C!seen
  <2>2. Idle /\ Ended
    BY <1>3, <2>1 DEF Idle, Ended
  <2> QED BY <1>2, <1>4, <2>1, <2>2
<1>8. CASE C(fresh)!handle_line
  <2>1. /\ batch # << >> /\ batch' = Tail(batch) /\ UNCHANGED stdin
    BY <1>8 DEF C!handle_line, C!input
  <2> DEFINE c == Head(batch)
  <2>2. \/ c[1] = "set" /\ C(fresh)!state_change(c[2]) /\ UNCHANGED stopped
        \/ c[1] = "stop" /\ stopped' = TRUE /\ UNCHANGED <<val, st_num, sq_num, step, wire>>
        \/ c[1] = "bad" /\ UNCHANGED <<stopped, val, st_num, sq_num, step, wire>>
    BY <1>8 DEF C!handle_line, C!Halt, C!counters, C!seen
  <2>3. C(fresh)!state_change(c[2]) => Sent(c[2], Inc(st_num), 0)
    <3> SUFFICES ASSUME NEW v, C(fresh)!state_change(v)
                 PROVE  Sent(v, Inc(st_num), 0)
      OBVIOUS
    <3>1. C(fresh)!send_frame(v, Inc(st_num), 0, [st |-> Inc(st_num), sq |-> 0], 0)
      BY <1>1 DEF C!state_change, C!increaseStNum, C!Inc, Inc
    <3> QED BY <3>1, CSends
  <2>4. c = Head(batch)
    OBVIOUS
  <2> HIDE DEF c
  <2>5. TakesLine /\ Ended /\ (step' = 0 => sq_num' = 0)
    BY <1>1, <1>2, <1>3, <2>1, <2>2, <2>3, <2>4, Obeyed
  <2> QED BY <1>4, <2>5
<1>9. CASE C(fresh)!Operator
  <2>1. running /\ UNCHANGED <<batch, stopped, val, st_num, sq_num, step, wire>>
    BY <1>9 DEF C!Operator, C!counters, C!seen
  <2>2. (\E c \in Lines : stdin' = Append(stdin, c)) \/ UNCHANGED stdin
    BY <1>9 DEF C!Operator, C!Type, C!CloseStdin, C!Lines, Lines
  <2>3. Idle \/ Typing
    <3>1. Pending' = batch \o stdin'
      BY <1>3, <2>1
    <3> QED BY <1>1, <1>3, <2>1, <2>2, <3>1, TypedBehind
  <2> QED BY <1>2, <1>4, <2>1, <2>3 DEF Ended
<1> QED BY <1>5, <1>6, <1>7, <1>8, <1>9 DEF C!Next

LEMMA RsTurn ==
  ASSUME PublisherInv, TurnInv, NEW fresh \in BOOLEAN, fresh <=> Fresh, InRs,
         Rs(fresh)!Next, RsKeeps, PublisherInv'
  PROVE  (Idle \/ Typing \/ TakesLine) /\ Ended /\ TurnInv'
<1>1. /\ step \in Nat /\ stdin \in Seq(Lines) /\ channel \in Seq(Lines)
      /\ stdin' \in Seq(Lines) /\ channel' \in Seq(Lines)
      /\ lib = [st |-> st_num, sq |-> sq_num] /\ (stopped => ~running)
  BY DEF PublisherInv, Typed, Alike
<1>2. /\ program' = program /\ batch = << >> /\ batch' = << >> /\ ~InC /\ ~InC'
      /\ step = 0 => sq_num = 0
  BY DEF RsKeeps, InC, InRs, TurnInv
<1>3. Pending = channel \o stdin /\ Pending' = channel' \o stdin'
  BY <1>1, <1>2, Around DEF Pending
<1>4. (step' = 0 => sq_num' = 0) => TurnInv'
  BY <1>2 DEF TurnInv
<1>5. running /\ Ended
  BY DEF Rs!Next, Rs!Forward, Rs!ReaderEnds, Rs!Due, Rs!handle_line, Rs!Disconnected, Rs!Signal,
         Rs!Tick, Rs!Operator, Ended
<1>6. CASE Rs(fresh)!Due
  <2>1. Rs(fresh)!send_frame(val, st_num, sq_num, [st |-> st_num, sq |-> sq_num], step)
    BY <1>1, <1>6 DEF Rs!Due
  <2>2. Sent(val, st_num, sq_num)
    BY <1>1, <2>1, RsSends
  <2>3. UNCHANGED <<stopped, stdin, channel>>
    BY <1>6 DEF Rs!Due, Rs!input, Rs!threads
  <2>4. val' = val /\ st_num' = st_num /\ step' # 0
    BY <2>2, SentEnds
  <2>5. Idle
    BY <1>3, <2>3, <2>4 DEF Idle
  <2> QED BY <1>4, <1>5, <2>4, <2>5
<1>7. CASE Rs(fresh)!Forward
  <2>1. /\ stdin # << >> /\ stdin' = Tail(stdin) /\ channel' = Append(channel, Head(stdin))
        /\ UNCHANGED <<stopped, val, st_num, sq_num, step>>
    BY <1>7 DEF Rs!Forward, Rs!counters
  <2>2. channel' \o stdin' = channel \o stdin
    BY <1>1, <2>1, PassOn
  <2>3. Idle
    BY <1>3, <2>1, <2>2 DEF Idle
  <2> QED BY <1>2, <1>4, <1>5, <2>1, <2>3
<1>8. CASE Rs(fresh)!ReaderEnds \/ Rs(fresh)!Disconnected \/ Rs(fresh)!Signal \/ Rs(fresh)!Tick
  <2>1. UNCHANGED <<stdin, channel, stopped, val, st_num, sq_num, step>>
    BY <1>8 DEF Rs!ReaderEnds, Rs!Disconnected, Rs!Signal, Rs!Tick, Rs!input, Rs!counters, Rs!threads
  <2>2. Idle
    BY <1>3, <2>1 DEF Idle
  <2> QED BY <1>2, <1>4, <1>5, <2>1, <2>2
<1>9. CASE Rs(fresh)!handle_line
  <2>1. channel # << >> /\ channel' = Tail(channel) /\ UNCHANGED stdin
    BY <1>9 DEF Rs!handle_line, Rs!input
  <2> DEFINE c == Head(channel)
  <2>2. \/ c[1] = "set" /\ Rs(fresh)!state_change(c[2]) /\ UNCHANGED stopped
        \/ c[1] = "stop" /\ stopped' = TRUE /\ UNCHANGED <<val, st_num, sq_num, step, wire>>
        \/ c[1] = "bad" /\ UNCHANGED <<stopped, val, st_num, sq_num, step, wire>>
    BY <1>9 DEF Rs!handle_line, Rs!Halt, Rs!counters, Rs!seen
  <2>3. Rs(fresh)!state_change(c[2]) => Sent(c[2], Inc(st_num), 0)
    <3> SUFFICES ASSUME NEW v, Rs(fresh)!state_change(v)
                 PROVE  Sent(v, Inc(st_num), 0)
      OBVIOUS
    <3>1. Rs(fresh)!send_frame(v, Inc(st_num), 0, [st |-> Inc(st_num), sq |-> 0], 0)
      BY <1>1 DEF Rs!state_change, Rs!increase_st_num, Rs!Inc, Inc
    <3> QED BY <3>1, RsSends
  <2>4. c = Head(channel)
    OBVIOUS
  <2> HIDE DEF c
  <2>5. ~stopped
    BY <1>1, <1>5
  <2>6. TakesLine /\ Ended /\ (step' = 0 => sq_num' = 0)
    BY <1>1, <1>2, <1>3, <2>1, <2>2, <2>3, <2>4, <2>5, Obeyed
  <2> QED BY <1>4, <2>6
<1>10. CASE Rs(fresh)!Operator
  <2>1. UNCHANGED <<channel, stopped, val, st_num, sq_num, step>>
    BY <1>10 DEF Rs!Operator, Rs!counters, Rs!threads
  <2>2. (\E c \in Lines : stdin' = Append(stdin, c)) \/ UNCHANGED stdin
    BY <1>10 DEF Rs!Operator, Rs!Type, Rs!CloseStdin, Rs!Lines, Lines
  <2>3. Idle \/ Typing
    <3>1. Pending' = channel \o stdin'
      BY <1>3, <2>1
    <3> QED BY <1>1, <1>3, <2>1, <2>2, <3>1, TypedBehind
  <2> QED BY <1>2, <1>4, <1>5, <2>1, <2>3
<1> QED BY <1>6, <1>7, <1>8, <1>9, <1>10 DEF Rs!Next

LEMMA AnyTurn ==
  ASSUME PublisherInv, TurnInv, [Next]_vars, PublisherInv'
  PROVE  (Idle \/ Typing \/ TakesLine) /\ Ended /\ TurnInv'
<1>1. CASE \/ program = "schedule" /\ Walk!Next /\ WalkKeeps
           \/ UNCHANGED vars
  <2>1. UNCHANGED <<program, stopped, stdin, batch, channel, val, st_num, sq_num, step, wire>>
    BY <1>1 DEF WalkKeeps, vars, input, counters, seen
  <2>2. Idle /\ Ended
    BY <2>1 DEF Idle, Pending, Ended
  <2> QED BY <2>1, <2>2 DEF TurnInv, InC, InRs
<1>2. CASE program = "c" /\ C(FALSE)!Next /\ CKeeps
  BY <1>2, CTurn DEF Fresh, InC
<1>3. CASE program = "freshC" /\ C(TRUE)!Next /\ CKeeps
  BY <1>3, CTurn DEF Fresh, InC
<1>4. CASE program = "rs" /\ Rs(FALSE)!Next /\ RsKeeps
  BY <1>4, RsTurn DEF Fresh, InRs
<1>5. CASE program = "freshRs" /\ Rs(TRUE)!Next /\ RsKeeps
  BY <1>5, RsTurn DEF Fresh, InRs
<1> QED BY <1>1, <1>2, <1>3, <1>4, <1>5 DEF Next

(***************************************************************************)
(* However many lines are typed, and however a read cuts them into batches *)
(* or the reader thread hands them on: each takes effect once and in its   *)
(* turn, none is lost, and once the loop has been ended nothing is read    *)
(* and no frame repeats a state (LinesInTurn).                             *)
(***************************************************************************)
THEOREM LinesObeyed == Spec => LinesInTurn
<1>1. Init => TurnInv
  BY DEF Init, TurnInv, C!Init, Rs!Init, C!PublishingInit
<1>2. TurnInv /\ PublisherInv /\ PublisherInv' /\ [Next]_vars =>
        /\ TurnInv'
        /\ [/\ \/ UNCHANGED <<Pending, val, st_num, stopped>>
               \/ /\ \E c \in Lines : Pending' = Append(Pending, c)
                  /\ UNCHANGED <<val, st_num, stopped>>
               \/ TakesLine
            /\ ~running => UNCHANGED stdin /\ (wire' # wire => wire'.sq = 0)
           ]_<<Pending, stdin, val, st_num, stopped, wire>>
  BY AnyTurn DEF Idle, Typing, Ended
<1> QED BY PublisherInvHolds, <1>1, <1>2, PTL DEF Spec, LinesInTurn

-----------------------------------------------------------------------------
(* Induction, from the least element of a set of numbers.                  *)

(* Every set of numbers has a least one.                                   *)
LEMMA Least ==
  ASSUME NEW T \in SUBSET Nat, T # {}
  PROVE  \E x \in T : \A y \in T : x <= y
<1> DEFINE R == {ss \in Nat \X Nat : ss[1] < ss[2]}
<1>1. IsWellFoundedOn(R, Nat)
  BY NatLessThanWellFounded DEF OpToRel
<1>2. ASSUME NEW x \in Nat, NEW y \in Nat, y < x PROVE <<y, x>> \in R
  BY <1>2
<1> HIDE DEF R
<1>3. PICK x \in T : \A y \in T : ~(<<y, x>> \in R)
  BY <1>1, WFMin
<1>4. \A y \in T : x \in Nat /\ y \in Nat /\ ~(y < x)
  BY <1>2, <1>3
<1> QED BY <1>4

(* Induction, for a set of numbers.                                        *)
LEMMA AllNumbers ==
  ASSUME NEW T \in SUBSET Nat, 0 \in T, \A n \in Nat : n \in T => n + 1 \in T
  PROVE  T = Nat
<1> SUFFICES ASSUME Nat \ T # {} PROVE FALSE
  OBVIOUS
<1>1. PICK x \in Nat \ T : \A y \in Nat \ T : x <= y
  BY Least
<1>2. x # 0 /\ x - 1 \in Nat
  BY <1>1
<1>3. x - 1 \in T
  BY <1>1, <1>2
<1>4. (x - 1) + 1 \in T
  BY <1>2, <1>3
<1> QED BY <1>1, <1>4

-----------------------------------------------------------------------------
(* The retransmission schedule.                                            *)

(* A number and what a function makes of it, again and again.              *)
Iterated(f, lo, N, g) ==
  /\ g \in [0 .. N -> Nat]
  /\ g = [k \in 0 .. N |-> IF k = 0 THEN lo ELSE f[g[k - 1]]]

(***************************************************************************)
(* There are these numbers.                                                *)
(***************************************************************************)
LEMMA Iterates ==
  ASSUME NEW f \in [Nat -> Nat], NEW lo \in Nat
  PROVE  \A N \in Nat : \E g : Iterated(f, lo, N, g)
<1> DEFINE T == {N \in Nat : \E g : Iterated(f, lo, N, g)}
<1>1. 0 \in T
  <2> DEFINE h == [k \in 0 .. 0 |-> lo]
  <2>1. \A k \in 0 .. 0 : k = 0
    OBVIOUS
  <2>2. h = [k \in 0 .. 0 |-> IF k = 0 THEN lo ELSE f[h[k - 1]]] /\ h \in [0 .. 0 -> Nat]
    BY <2>1
  <2>3. Iterated(f, lo, 0, h)
    BY <2>2 DEF Iterated
  <2> QED
    BY <2>3
<1>2. ASSUME NEW N \in Nat, N \in T PROVE N + 1 \in T
  <2>0. PICK g : Iterated(f, lo, N, g)
    BY <1>2
  <2>1. g \in [0 .. N -> Nat] /\ g = [k \in 0 .. N |-> IF k = 0 THEN lo ELSE f[g[k - 1]]]
    BY <2>0 DEF Iterated
  <2> DEFINE h == [k \in 0 .. N + 1 |-> IF k \in 0 .. N THEN g[k] ELSE f[g[N]]]
  <2>2. \A k \in 0 .. N + 1 : k \in 0 .. N \/ k = N + 1
    OBVIOUS
  <2>3. N + 1 \notin 0 .. N /\ N + 1 # 0 /\ (N + 1) - 1 = N /\ N \in 0 .. N /\ N \in 0 .. N + 1
    OBVIOUS
  <2>4. \A k \in 0 .. N : k \in 0 .. N + 1 /\ (k # 0 => k - 1 \in 0 .. N /\ k - 1 \in 0 .. N + 1)
    OBVIOUS
  <2>5. \A k \in 0 .. N : h[k] = g[k]
    BY <2>4
  <2>6. h[N + 1] = f[g[N]]
    BY <2>3
  <2>7. \A k \in 0 .. N : g[k] \in Nat /\ g[k] = IF k = 0 THEN lo ELSE f[g[k - 1]]
    BY <2>1
  <2>8. h = [k \in 0 .. N + 1 |-> h[k]]
    OBVIOUS
  <2>9. f[g[N]] \in Nat
    BY <2>3, <2>7
  <2> HIDE DEF h
  <2>10. ASSUME NEW k \in 0 .. N + 1
         PROVE  h[k] \in Nat /\ h[k] = IF k = 0 THEN lo ELSE f[h[k - 1]]
    <3>1. CASE k \in 0 .. N
      BY <2>4, <2>5, <2>7, <3>1
    <3>2. CASE k = N + 1
      BY <2>3, <2>5, <2>6, <2>9, <3>2
    <3> QED
      BY <2>2, <3>1, <3>2
  <2>11. h = [k \in 0 .. N + 1 |-> IF k = 0 THEN lo ELSE f[h[k - 1]]] /\ h \in [0 .. N + 1 -> Nat]
    BY <2>8, <2>10
  <2>12. Iterated(f, lo, N + 1, h)
    BY <2>11 DEF Iterated
  <2> QED
    BY <2>12
<1> HIDE DEF T
<1>3. T \in SUBSET Nat
  BY DEF T
<1>4. T = Nat
  BY <1>1, <1>2, <1>3, AllNumbers
<1> QED
  BY <1>4 DEF T

(* d starts at lo and doubles as long as the double fits in a word.        *)
Doubles(d, lo) ==
  /\ d[0] = lo
  /\ \A k \in 1 .. ScheduleSteps :
       d[k - 1] \in Nat /\ 2 * d[k - 1] < ScheduleWord => d[k] = 2 * d[k - 1]

(***************************************************************************)
(* What the loops of the C and the Rust program make of d does.            *)
(***************************************************************************)
LEMMA BothDouble ==
  ASSUME NEW min \in Nat, NEW max \in Nat, Walk!MinOf(min, max) \in Nat
  PROVE  /\ \E d : /\ Doubles(d, Walk!MinOf(min, max))
                   /\ Walk!build_schedule_C(min, max) = Walk!Collect(d, Walk!MaxOf(min, max))
         /\ \E d : /\ Doubles(d, Walk!MinOf(min, max))
                   /\ Walk!build_schedule_Rs(min, max) = Walk!Collect(d, Walk!MaxOf(min, max))
<1> DEFINE lo == Walk!MinOf(min, max)
           S == ScheduleSteps
           F(d) == [k \in 0 .. S |-> IF k = 0 THEN lo ELSE (2 * d[k - 1]) % ScheduleWord]
           G(d) == [k \in 0 .. S |-> IF k = 0 THEN lo ELSE Walk!saturating_mul(2, d[k - 1])]
           c == CHOOSE d : d = F(d)
           r == CHOOSE d : d = G(d)
<1>0. ScheduleWord \in Nat /\ ScheduleWord > 2000 /\ S \in Nat \ {0} /\ lo \in Nat
  BY ScheduleAssumption
<1>1. Walk!build_schedule_C(min, max) = Walk!Collect(c, Walk!MaxOf(min, max))
  BY DEF Walk!build_schedule_C
<1>2. Walk!build_schedule_Rs(min, max) = Walk!Collect(r, Walk!MaxOf(min, max))
  BY DEF Walk!build_schedule_Rs
<1>3. \A n \in Nat : (2 * n) % ScheduleWord \in Nat /\ (2 * n < ScheduleWord => (2 * n) % ScheduleWord = 2 * n)
  BY <1>0
<1>4. \A n \in Nat : /\ Walk!saturating_mul(2, n) \in Nat
                     /\ 2 * n < ScheduleWord => Walk!saturating_mul(2, n) = 2 * n
  BY <1>0 DEF Walk!saturating_mul
<1>5. \A k \in 0 .. S : k # 0 => k - 1 \in 0 .. S
  BY <1>0
<1> HIDE DEF lo
<1>6. c = F(c)
  <2> DEFINE f == [n \in Nat |-> (2 * n) % ScheduleWord]
  <2>1. f \in [Nat -> Nat]
    BY <1>3
  <2> HIDE DEF f
  <2>2. S \in Nat /\ lo \in Nat
    BY <1>0
  <2>3. \E g : Iterated(f, lo, S, g)
    BY <2>2, <2>1, Iterates, Zenon
  <2>4. PICK g : Iterated(f, lo, S, g)
    BY <2>3
  <2>5. g \in [0 .. S -> Nat] /\ g = [k \in 0 .. S |-> IF k = 0 THEN lo ELSE f[g[k - 1]]]
    BY <2>4 DEF Iterated
  <2>6. \A k \in 0 .. S : k # 0 => f[g[k - 1]] = (2 * g[k - 1]) % ScheduleWord
    BY <1>5, <2>5 DEF f
  <2>7. g = F(g)
    BY <2>5, <2>6
  <2> HIDE DEF F
  <2> QED
    BY <2>7
<1>7. r = G(r)
  <2> DEFINE f == [n \in Nat |-> Walk!saturating_mul(2, n)]
  <2>1. f \in [Nat -> Nat]
    BY <1>4
  <2> HIDE DEF f
  <2>2. S \in Nat /\ lo \in Nat
    BY <1>0
  <2>3. \E g : Iterated(f, lo, S, g)
    BY <2>2, <2>1, Iterates, Zenon
  <2>4. PICK g : Iterated(f, lo, S, g)
    BY <2>3
  <2>5. g \in [0 .. S -> Nat] /\ g = [k \in 0 .. S |-> IF k = 0 THEN lo ELSE f[g[k - 1]]]
    BY <2>4 DEF Iterated
  <2>6. \A k \in 0 .. S : k # 0 => f[g[k - 1]] = Walk!saturating_mul(2, g[k - 1])
    BY <1>5, <2>5 DEF f
  <2>7. g = G(g)
    BY <2>5, <2>6
  <2> HIDE DEF G
  <2> QED
    BY <2>7
<1> HIDE DEF c, r
<1>8. 0 \in 0 .. S /\ \A k \in 1 .. S : k \in 0 .. S /\ k # 0
  BY <1>0
<1>9. Doubles(c, lo)
  <2>1. c[0] = lo /\ \A k \in 1 .. S : c[k] = (2 * c[k - 1]) % ScheduleWord
    BY <1>6, <1>8
  <2> QED
    BY <1>3, <2>1 DEF Doubles
<1>10. Doubles(r, lo)
  <2>1. r[0] = lo /\ \A k \in 1 .. S : r[k] = Walk!saturating_mul(2, r[k - 1])
    BY <1>7, <1>8
  <2> QED
    BY <1>4, <2>1 DEF Doubles
<1> QED
  BY <1>1, <1>2, <1>9, <1>10 DEF lo

(***************************************************************************)
(* Below hi both sequences are the same, and double.                       *)
(***************************************************************************)
LEMMA DoubledBelow ==
  ASSUME NEW d, NEW e, NEW lo \in Nat \ {0}, NEW hi \in Nat, 2 * hi < ScheduleWord,
         Doubles(d, lo), Doubles(e, lo), NEW n \in 0 .. ScheduleSteps,
         \A j \in 0 .. n - 1 : ~(d[j] >= hi)
  PROVE  \A j \in 0 .. n : /\ d[j] \in Nat \ {0} /\ e[j] = d[j]
                           /\ j # n => d[j] < hi /\ d[j + 1] = 2 * d[j]
<1> DEFINE P(j) == d[j] \in Nat \ {0} /\ e[j] = d[j]
           T == {j \in Nat : j <= n => P(j)}
<1>0. ScheduleWord \in Nat /\ ScheduleSteps \in Nat \ {0} /\ n \in Nat /\ n <= ScheduleSteps
  BY ScheduleAssumption
<1>1. 0 \in T
  BY DEF Doubles
<1>2. ASSUME NEW j \in Nat, j + 1 <= n, P(j)
      PROVE  P(j + 1) /\ d[j] < hi /\ d[j + 1] = 2 * d[j]
  <2>1. j \in 0 .. n - 1 /\ j + 1 \in 1 .. ScheduleSteps /\ (j + 1) - 1 = j
    BY <1>0, <1>2
  <2>2. d[j] < hi
    BY <1>2, <2>1
  <2>3. 2 * d[j] < ScheduleWord /\ 2 * d[j] \in Nat \ {0}
    BY <1>0, <1>2, <2>2
  <2>4. d[j + 1] = 2 * d[j]
    BY <1>2, <2>1, <2>3 DEF Doubles
  <2>5. e[j + 1] = 2 * e[j]
    BY <1>2, <2>1, <2>3 DEF Doubles
  <2> QED
    BY <1>2, <2>2, <2>3, <2>4, <2>5
<1> HIDE DEF P
<1>3. ASSUME NEW j \in Nat, j \in T PROVE j + 1 \in T
  <2>1. j + 1 <= n => j <= n
    BY <1>0
  <2> QED
    BY <1>2, <1>3, <2>1
<1>4. T \in SUBSET Nat
  OBVIOUS
<1> HIDE DEF T
<1>5. T = Nat
  BY <1>1, <1>3, <1>4, AllNumbers
<1>6. \A j \in 0 .. n : P(j)
  <2>1. \A j \in 0 .. n : j \in T /\ j <= n
    BY <1>0, <1>5
  <2> QED
    BY <2>1 DEF T
<1>7. \A j \in 0 .. n : j # n => j \in Nat /\ j + 1 <= n
  BY <1>0
<1> QED
  BY <1>2, <1>6, <1>7 DEF P

(* n intervals are collected: the first that is not below hi, or the       *)
(* longest schedule.                                                       *)
Stops(d, hi, n) ==
  /\ n \in 0 .. ScheduleSteps - 1
  /\ n = ScheduleSteps - 1 \/ d[n] >= hi
  /\ \A j \in 0 .. n - 1 : ~(j = ScheduleSteps - 1 \/ d[j] >= hi)

(***************************************************************************)
(* Collect collects them.                                                  *)
(***************************************************************************)
LEMMA Collected ==
  ASSUME NEW d, NEW hi
  PROVE  \E n : /\ Stops(d, hi, n)
                /\ Walk!Collect(d, hi) = [i \in 1 .. n + 1 |-> IF i <= n THEN d[i - 1] ELSE hi]
<1> DEFINE S == ScheduleSteps
           K(k) == k = S - 1 \/ d[k] >= hi
           T == {k \in 0 .. S - 1 : K(k)}
           N == CHOOSE k \in 0 .. S - 1 : K(k) /\ \A j \in 0 .. k - 1 : ~K(j)
<1>0. S \in Nat \ {0}
  BY ScheduleAssumption
<1>1. Walk!Collect(d, hi) = [i \in 1 .. N + 1 |-> IF i <= N THEN d[i - 1] ELSE hi]
  BY DEF Walk!Collect
<1>2. S - 1 \in T /\ T \in SUBSET Nat
  BY <1>0
<1> HIDE DEF T
<1>3. PICK n \in T : \A m \in T : n <= m
  BY <1>2, Least
<1>4. n \in 0 .. S - 1 /\ K(n)
  BY <1>3 DEF T
<1>5. ASSUME NEW j \in 0 .. n - 1 PROVE ~K(j)
  <2>1. j \in 0 .. S - 1 /\ ~(n <= j)
    BY <1>0, <1>4
  <2>2. j \notin T
    BY <1>3, <2>1
  <2> QED
    BY <2>1, <2>2 DEF T
<1> HIDE DEF K
<1>6. N \in 0 .. S - 1 /\ K(N) /\ \A j \in 0 .. N - 1 : ~K(j)
  BY <1>4, <1>5
<1> HIDE DEF N
<1>7. Stops(d, hi, N)
  BY <1>6 DEF Stops, K
<1> QED
  BY <1>1, <1>7

(***************************************************************************)
(* The two programs stop at the same interval.                             *)
(***************************************************************************)
LEMMA SameStop ==
  ASSUME NEW d, NEW e, NEW lo \in Nat \ {0}, NEW hi \in Nat, 2 * hi < ScheduleWord,
         Doubles(d, lo), Doubles(e, lo), NEW n, Stops(d, hi, n), NEW m, Stops(e, hi, m)
  PROVE  m = n
<1>0. ScheduleSteps \in Nat \ {0} /\ n \in 0 .. ScheduleSteps /\ m \in 0 .. ScheduleSteps
  BY ScheduleAssumption DEF Stops
<1>1. \A j \in 0 .. n : e[j] = d[j]
  BY <1>0, DoubledBelow DEF Stops
<1>2. \A j \in 0 .. m : d[j] = e[j]
  BY <1>0, DoubledBelow DEF Stops
<1>3. CASE m < n
  <2>1. m \in 0 .. n - 1 /\ m \in 0 .. n
    BY <1>0, <1>3
  <2> QED
    BY <1>1, <2>1 DEF Stops
<1>4. CASE n < m
  <2>1. n \in 0 .. m - 1 /\ n \in 0 .. m
    BY <1>0, <1>4
  <2> QED
    BY <1>2, <2>1 DEF Stops
<1> QED
  BY <1>0, <1>3, <1>4

(* A schedule: lo, doubled while below hi, then hi.                        *)
Schedule(s, lo, hi) ==
  /\ Len(s) \in Nat \ {0} /\ s[Len(s)] = hi
  /\ \A i \in 1 .. Len(s) : i # Len(s) => s[i] \in Nat \ {0} /\ s[i] < hi
  /\ \A i \in 1 .. Len(s) : i + 1 < Len(s) => s[i + 1] = 2 * s[i]
  /\ Len(s) # 1 => s[1] = lo

(***************************************************************************)
(* Both programs build one, and the same.                                  *)
(***************************************************************************)
LEMMA Built ==
  ASSUME NEW min \in Nat, NEW max \in Nat, 2 * min < ScheduleWord, 2 * max < ScheduleWord
  PROVE  LET lo == Walk!MinOf(min, max)
             hi == Walk!MaxOf(min, max)
         IN  /\ lo \in Nat \ {0} /\ hi \in Nat \ {0} /\ lo <= hi /\ 2 * hi < ScheduleWord
             /\ Schedule(Walk!build_schedule_C(min, max), lo, hi)
             /\ Walk!build_schedule_Rs(min, max) = Walk!build_schedule_C(min, max)
<1> DEFINE lo == Walk!MinOf(min, max)
           hi == Walk!MaxOf(min, max)
<1>0. ScheduleWord \in Nat /\ ScheduleWord > 2000 /\ ScheduleSteps \in Nat \ {0}
  BY ScheduleAssumption
<1>1. lo \in Nat \ {0} /\ 2 * lo < ScheduleWord
  BY <1>0 DEF Walk!MinOf
<1>2. hi \in Nat \ {0} /\ lo <= hi /\ 2 * hi < ScheduleWord
  <2>1. CASE min = 0 /\ max = 0
    BY <1>0, <2>1 DEF Walk!MaxOf, Walk!MinOf
  <2>2. CASE ~(min = 0 /\ max = 0)
    <3>1. hi = IF max < lo THEN lo ELSE max
      BY <2>2 DEF Walk!MaxOf
    <3> HIDE DEF lo, hi
    <3> QED
      BY <1>1, <3>1
  <2> QED
    BY <2>1, <2>2
<1>3. PICK d : Doubles(d, lo) /\ Walk!build_schedule_C(min, max) = Walk!Collect(d, hi)
  BY <1>1, BothDouble
<1>4. PICK e : Doubles(e, lo) /\ Walk!build_schedule_Rs(min, max) = Walk!Collect(e, hi)
  BY <1>1, BothDouble
<1> DEFINE s == Walk!build_schedule_C(min, max)
<1> HIDE DEF lo, hi, s
<1>5. PICK n : /\ Stops(d, hi, n)
               /\ Walk!Collect(d, hi) = [i \in 1 .. n + 1 |-> IF i <= n THEN d[i - 1] ELSE hi]
  BY Collected
<1>6. PICK m : /\ Stops(e, hi, m)
               /\ Walk!Collect(e, hi) = [i \in 1 .. m + 1 |-> IF i <= m THEN e[i - 1] ELSE hi]
  BY Collected
<1>7. m = n
  BY <1>1, <1>2, <1>3, <1>4, <1>5, <1>6, SameStop
<1>8. n \in Nat /\ n \in 0 .. ScheduleSteps /\ \A j \in 0 .. n - 1 : ~(d[j] >= hi)
  BY <1>0, <1>5 DEF Stops
<1>9. \A j \in 0 .. n : /\ d[j] \in Nat \ {0} /\ e[j] = d[j]
                        /\ j # n => d[j] < hi /\ d[j + 1] = 2 * d[j]
  BY <1>1, <1>2, <1>3, <1>4, <1>8, DoubledBelow
<1>10. \A i \in 1 .. n + 1 : i <= n => i - 1 \in 0 .. n /\ i - 1 # n /\ (i - 1) + 1 = i
  BY <1>8
<1>11. Walk!Collect(e, hi) = Walk!Collect(d, hi)
  BY <1>5, <1>6, <1>7, <1>9, <1>10
<1>12. Schedule(s, lo, hi)
  <2>1. s = [i \in 1 .. n + 1 |-> IF i <= n THEN d[i - 1] ELSE hi]
    BY <1>3, <1>5 DEF s
  <2>2. n + 1 \in 1 .. n + 1 /\ ~(n + 1 <= n) /\ \A i \in 1 .. n + 1 : i # n + 1 => i <= n
    BY <1>8
  <2>3. \A i \in 1 .. n + 1 : i <= n => s[i] = d[i - 1] /\ s[i] \in Nat \ {0} /\ s[i] < hi
    BY <1>9, <1>10, <2>1
  <2>4. s[n + 1] = hi
    BY <2>1, <2>2
  <2>5. Len(s) = n + 1
    <3>1. s \in [1 .. n + 1 -> Nat]
      BY <1>2, <2>1, <2>3, <2>4
    <3> QED
      BY <1>8, <3>1, LenProperties
  <2>6. \A i \in 1 .. n + 1 : i + 1 < n + 1 => s[i + 1] = 2 * s[i]
    <3> SUFFICES ASSUME NEW i \in 1 .. n + 1, i + 1 < n + 1 PROVE s[i + 1] = 2 * s[i]
      OBVIOUS
    <3>1. i + 1 \in 1 .. n + 1 /\ i + 1 <= n /\ i <= n /\ (i + 1) - 1 = i
      BY <1>8
    <3>2. s[i + 1] = d[i] /\ s[i] = d[i - 1]
      BY <2>3, <3>1
    <3>3. d[i] = 2 * d[i - 1]
      BY <1>9, <1>10, <3>1
    <3> QED
      BY <3>2, <3>3
  <2>7. n + 1 # 1 => s[1] = lo
    <3>1. n + 1 # 1 => 1 \in 1 .. n + 1 /\ 1 <= n /\ 1 - 1 = 0
      BY <1>8
    <3>2. d[0] = lo
      BY <1>3 DEF Doubles
    <3> QED
      BY <2>3, <3>1, <3>2
  <2>8. n + 1 \in Nat \ {0}
    BY <1>8
  <2> QED
    BY <2>2, <2>3, <2>4, <2>5, <2>6, <2>7, <2>8 DEF Schedule
<1> QED
  BY <1>1, <1>2, <1>3, <1>4, <1>11, <1>12 DEF lo, hi, s

(***************************************************************************)
(* A walk through a schedule.                                              *)
(***************************************************************************)
LEMMA WalkSound ==
  ASSUME NEW s, NEW lo \in Nat \ {0}, NEW hi \in Nat \ {0}, lo <= hi, 2 * hi < ScheduleWord,
         Schedule(s, lo, hi), NEW k \in Nat
  PROVE  LET x == Walk!IntervalAt(s, k)
             y == Walk!IntervalAt(s, k + 1)
         IN  /\ x > 0 /\ y >= x /\ y \in {2 * x, hi}
             /\ k = 0 => x = IF Len(s) = 1 THEN hi ELSE lo
             /\ k + 1 >= Len(s) => x = hi
             /\ Walk!TalOf(x) > x
<1> DEFINE x == Walk!IntervalAt(s, k)
           y == Walk!IntervalAt(s, k + 1)
           l == Len(s)
<1>0. ScheduleWord \in Nat /\ ScheduleWord > 2000
  BY ScheduleAssumption
<1>1. l \in Nat \ {0} /\ s[l] = hi
  BY DEF Schedule
<1>2. x = (IF k < l THEN s[k + 1] ELSE s[l]) /\ y = (IF k + 1 < l THEN s[(k + 1) + 1] ELSE s[l])
  BY DEF Walk!IntervalAt
<1>3. ASSUME k + 1 < l
      PROVE  x = s[k + 1] /\ y = s[(k + 1) + 1] /\ x \in Nat \ {0} /\ x < hi /\ k + 1 \in 1 .. l /\ k + 1 # l
  <2>1. k < l /\ k + 1 \in 1 .. l /\ k + 1 # l
    BY <1>1, <1>3
  <2>2. x = s[k + 1] /\ y = s[(k + 1) + 1]
    BY <1>2, <1>3, <2>1
  <2> QED
    BY <2>1, <2>2 DEF Schedule
<1>4. ASSUME ~(k + 1 < l) PROVE x = hi /\ y = hi
  <2>1. k < l => k + 1 = l
    BY <1>1, <1>4
  <2> QED
    BY <1>1, <1>2, <1>4, <2>1
<1>5. k + 1 < l => y = 2 * x \/ y = hi
  <2> SUFFICES ASSUME k + 1 < l PROVE y = 2 * x \/ y = hi
    OBVIOUS
  <2>1. CASE (k + 1) + 1 < l
    BY <1>3, <2>1 DEF Schedule
  <2>2. CASE ~((k + 1) + 1 < l)
    <3>1. (k + 1) + 1 = l
      BY <1>1, <2>2
    <3> QED
      BY <1>1, <1>3, <3>1
  <2> QED
    BY <2>1, <2>2
<1>6. k = 0 => x = IF l = 1 THEN hi ELSE lo
  <2> SUFFICES ASSUME k = 0 PROVE x = IF l = 1 THEN hi ELSE lo
    OBVIOUS
  <2>1. CASE l = 1
    BY <1>4, <2>1
  <2>2. CASE l # 1
    <3>0. k + 1 = 1
      OBVIOUS
    <3>1. k + 1 < l
      <4> HIDE DEF l
      <4> QED
        BY <1>1, <2>2, <3>0
    <3> QED
      BY <1>3, <2>2, <3>0, <3>1 DEF Schedule
  <2> QED
    BY <2>1, <2>2
<1> HIDE DEF x, y, l
<1>7. x \in Nat \ {0} /\ x <= hi /\ y \in {2 * x, hi} /\ y >= x
  <2>1. CASE k + 1 < l
    BY <1>3, <1>5, <2>1
  <2>2. CASE ~(k + 1 < l)
    BY <1>4, <2>2
  <2> QED
    BY <2>1, <2>2
<1>8. Walk!TalOf(x) > x
  <2>1. Walk!TalOf(x) = (2 * x) % ScheduleWord
    BY DEF Walk!TalOf
  <2>2. 2 * x < ScheduleWord /\ 2 * x \in Nat
    BY <1>0, <1>7
  <2>3. (2 * x) % ScheduleWord = 2 * x
    BY <1>0, <2>2
  <2> QED
    BY <1>7, <2>1, <2>3
<1>9. k + 1 >= l => x = hi
  <2>1. k + 1 >= l => ~(k + 1 < l)
    BY <1>1
  <2> QED
    BY <1>4, <2>1
<1>10. x > 0
  BY <1>7
<1> QED
  BY <1>6, <1>7, <1>8, <1>9, <1>10 DEF x, y, l

(* The times the schedule is built from.                                   *)
WalkInv ==
  program = "schedule" => min_time \in Times /\ max_time \in Times /\ at \in Nat

(***************************************************************************)
(* For all command-line times of which the double fits in a word, every    *)
(* word size and length of the schedule: the intervals of both             *)
(* goose-publishers double up to MaxTime, are the same, and are shorter    *)
(* than the timeAllowedToLive (ScheduleSound).                             *)
(***************************************************************************)
THEOREM SchedulesSound == Spec => []ScheduleSound
<1>1. Init => WalkInv
  BY DEF Init, WalkInv, Walk!Init
<1>2. WalkInv /\ [Next]_vars => WalkInv'
  <2> SUFFICES ASSUME WalkInv, [Next]_vars, program' = "schedule" PROVE WalkInv'
    BY DEF WalkInv
  <2>1. CASE program = "schedule" /\ Walk!Next /\ WalkKeeps
    BY <2>1 DEF WalkInv, Walk!Next, Walk!Retransmit, Walk!StateChange
  <2>2. CASE UNCHANGED <<program, min_time, max_time, at>>
    BY <2>2 DEF WalkInv
  <2> QED
    BY <2>1, <2>2 DEF Next, CKeeps, RsKeeps, vars
<1>3. WalkInv => ScheduleSound
  <2> SUFFICES ASSUME WalkInv, program = "schedule" PROVE Walk!ScheduleSound
    BY DEF ScheduleSound
  <2> DEFINE lo == Walk!MinOf(min_time, max_time)
             hi == Walk!MaxOf(min_time, max_time)
             s == Walk!build_schedule_C(min_time, max_time)
             k == at
  <2>1. min_time \in Nat /\ max_time \in Nat /\ 2 * min_time < ScheduleWord /\ 2 * max_time < ScheduleWord
    <3>1. \A t \in Times : t \in Nat /\ 2 * t < ScheduleWord
      BY ScheduleAssumption
    <3> QED
      BY <3>1 DEF WalkInv
  <2>2. /\ lo \in Nat \ {0} /\ hi \in Nat \ {0} /\ lo <= hi /\ 2 * hi < ScheduleWord
        /\ Schedule(s, lo, hi)
        /\ Walk!build_schedule_Rs(min_time, max_time) = s
    BY <2>1, Built
  <2>3. k \in Nat
    BY DEF WalkInv
  <2> HIDE DEF lo, hi, s, k
  <2>4. LET x == Walk!IntervalAt(s, k)
            y == Walk!IntervalAt(s, k + 1)
        IN  /\ x > 0 /\ y >= x /\ y \in {2 * x, hi}
            /\ k = 0 => x = IF Len(s) = 1 THEN hi ELSE lo
            /\ k + 1 >= Len(s) => x = hi
            /\ Walk!TalOf(x) > x
    BY <2>2, <2>3, WalkSound
  <2>5. s[Len(s)] = hi
    BY <2>2 DEF Schedule
  <2>6. Walk!StepsC = s /\ Walk!StepsRs = s
    BY <2>2 DEF Walk!StepsC, Walk!StepsRs, s
  <2>7. Walk!Doubling(s)
    BY <2>4, <2>5 DEF Walk!Doubling, k, lo, hi
  <2> QED
    BY <2>4, <2>6, <2>7 DEF Walk!ScheduleSound, k
<1> QED
  BY <1>1, <1>2, <1>3, PTL DEF Spec
=============================================================================
