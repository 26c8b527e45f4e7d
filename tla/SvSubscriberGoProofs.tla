------------------------ MODULE SvSubscriberGoProofs ------------------------
(***************************************************************************)
(* Proofs about the Go sv-subscriber, for every set of streams and frames, *)
(* every capacity of the output channel and every number of frames and     *)
(* seconds: its type invariant, that a stats line is never half of an      *)
(* ASDU, and that the sv events on stdout are in the order of the ASDUs on *)
(* the wire, each at most once.                                            *)
(***************************************************************************)
EXTENDS SvSubscriberGo, SequenceTheorems, TLAPS

-----------------------------------------------------------------------------
(* Types.                                                                  *)

(***************************************************************************)
(* The ASDUs of a frame are ASDUs: Head and Tail of what main has left of  *)
(* one stay in the sets TypeOK names.                                      *)
(***************************************************************************)
LEMMA AsduFields ==
  ASSUME NEW a \in Asdus
  PROVE  a.stream \in Streams /\ a.cnt \in Nat
<1>1. PICK f \in Frames : a \in Range(f)
  BY DEF Asdus
<1>2. f \in Seq([stream : Streams, cnt : Nat])
  BY SubscriberAssumption
<1>3. PICK i \in DOMAIN f : a = f[i]
  BY <1>1 DEF Range
<1>4. f[i] \in [stream : Streams, cnt : Nat]
  BY <1>2, <1>3, ElementOfSeq, LenProperties
<1> QED
  BY <1>3, <1>4

(***************************************************************************)
(* A frame is a sequence of ASDUs.                                         *)
(***************************************************************************)
LEMMA FrameAsdus ==
  ASSUME NEW f \in Frames
  PROVE  f \in Seq(Asdus)
<1>1. f \in Seq([stream : Streams, cnt : Nat])
  BY SubscriberAssumption
<1>2. DOMAIN f = 1 .. Len(f) /\ Len(f) \in Nat
  BY <1>1, LenProperties
<1>3. \A i \in 1 .. Len(f) : f[i] \in Asdus
  BY <1>2 DEF Asdus, Range
<1>4. f \in [1 .. Len(f) -> Asdus]
  BY <1>1, <1>2, <1>3, LenProperties
<1> QED
  BY <1>2, <1>4, SeqDef

(* The state of one stream together with the totals.                       *)
TallyType ==
  [prev : Nat \cup {None}, maxSeen : Nat, received : Nat, lost : Nat,
   duplicates : Nat, outOfOrder : Nat]

(***************************************************************************)
(* stats.count keeps the types of the stream's state and of the totals.    *)
(***************************************************************************)
LEMMA CountType ==
  ASSUME NEW w \in Nat, NEW n \in Nat, NEW s \in TallyType
  PROVE  countGo(w, s, n) \in TallyType
<1>1. /\ s.prev \in Nat \cup {None} /\ s.maxSeen \in Nat /\ s.received \in Nat
      /\ s.lost \in Nat /\ s.duplicates \in Nat /\ s.outOfOrder \in Nat
  BY DEF TallyType
<1>2. \A p \in Nat \cup {None}, m \in Nat, l \in Int, d \in Nat, o \in Nat :
        Tally(s, p, m, l, d, o) \in TallyType
  <2> TAKE p \in Nat \cup {None}, m \in Nat, l \in Int, d \in Nat, o \in Nat
  <2>1. \A x \in Int : (x % U64) \in Nat
    BY WordAssumption
  <2>2. ((s.lost + l) % U64) \in Nat
    BY <1>1, <2>1
  <2> QED
    BY <1>1, <2>2 DEF Tally, TallyType
<1>3. Larger(s.maxSeen, n) \in Nat
  BY <1>1 DEF Larger
<1> DEFINE max == Larger(s.maxSeen, n)
           wrap == IF w = 0 THEN max + 1 ELSE w
           d == n - s.prev
<1>4. max \in Nat /\ wrap \in Nat /\ d \in Int
  BY <1>1, <1>3 DEF None
<1>5. s.prev # None => s.prev \in Nat /\ (d - 1) \in Int /\ ((wrap - 1 - s.prev) + n) \in Int
  BY <1>1, <1>4
<1>6. countGo(w, s, n) =
        IF s.prev = None THEN Tally(s, n, max, 0, 0, 0)
        ELSE CASE d = 1 -> Tally(s, n, max, 0, 0, 0)
               [] d = 0 -> Tally(s, n, max, 0, 1, 0)
               [] d > 1 -> Tally(s, n, max, d - 1, 0, 0)
               [] d < 0 /\ -d > wrap \div 2 ->
                    Tally(s, n, max, (wrap - 1 - s.prev) + n, 0, 0)
               [] OTHER -> Tally(s, s.prev, max, 0, 0, 1)
  BY DEF countGo
<1> HIDE DEF max, wrap, d
<1>7. CASE s.prev = None
  <2>1. Tally(s, n, max, 0, 0, 0) \in TallyType
    BY <1>2, <1>4
  <2>2. countGo(w, s, n) = Tally(s, n, max, 0, 0, 0)
    BY <1>6, <1>7
  <2> QED
    BY <2>1, <2>2
<1>8. CASE s.prev # None
  <2>1. /\ Tally(s, n, max, 0, 0, 0) \in TallyType /\ Tally(s, n, max, 0, 1, 0) \in TallyType
        /\ Tally(s, n, max, d - 1, 0, 0) \in TallyType
        /\ Tally(s, n, max, (wrap - 1 - s.prev) + n, 0, 0) \in TallyType
        /\ Tally(s, s.prev, max, 0, 0, 1) \in TallyType
    BY <1>2, <1>4, <1>5, <1>8
  <2> QED
    BY <1>4, <1>6, <1>8, <2>1
<1> QED
  BY <1>7, <1>8

(***************************************************************************)
(* So does counting an ASDU as received.                                   *)
(***************************************************************************)
LEMMA OneMore ==
  ASSUME NEW t \in TotalsType
  PROVE  [t EXCEPT !.received = @ + 1] \in TotalsType
<1>1. t.received \in Nat
  BY DEF TotalsType
<1>2. t.received + 1 \in Nat
  BY <1>1
<1> QED
  BY <1>2 DEF TotalsType

(***************************************************************************)
(* A line other than Nothing, and Nothing itself, are told apart by their  *)
(* first component.                                                        *)
(***************************************************************************)
LEMMA LineKinds ==
  /\ Nothing \in LineType
  /\ \A a \in Asdus : <<"sv", a>> \in LineType /\ <<"sv", a>> # Nothing
  /\ \A t \in TotalsType : <<"stats", t>> \in LineType /\ <<"stats", t>> # Nothing
<1>1. /\ Nothing[1] = "nothing"
      /\ \A x : <<"sv", x>>[1] = "sv" /\ <<"stats", x>>[1] = "stats"
  BY DEF Nothing
<1> QED
  BY <1>1 DEF LineType

(***************************************************************************)
(* Initially the types are right.                                          *)
(***************************************************************************)
LEMMA TypeInit == Init => TypeOK
<1> SUFFICES ASSUME Init PROVE TypeOK
  OBVIOUS
<1>1. << >> \in Seq(Frames) /\ << >> \in Seq(Asdus) /\ Len(<< >>) = 0
  BY EmptySeq
<1>2. NewStream \in [prev : Nat \cup {None}, maxSeen : Nat] /\ NoTotals \in TotalsType
  BY DEF NewStream, NoTotals, Fresh, TotalsType
<1>3. Nothing \in LineType
  BY LineKinds
<1>4. 0 \in 0 .. MaxArrive /\ 0 \in 0 .. MaxTicks /\ 0 <= OutCap
  BY SubscriberAssumption
<1>5. line \in [Printers -> LineType]
  BY <1>3 DEF Init
<1>6. streams \in [Streams -> [prev : Nat \cup {None}, maxSeen : Nat]] /\ stats \in TotalsType
  BY <1>2 DEF Init
<1> QED
  BY <1>1, <1>4, <1>5, <1>6 DEF Init, TypeOK

(***************************************************************************)
(* Every step of every goroutine keeps the types: the loop of main, ...    *)
(***************************************************************************)
LEMMA TypeMain == TypeOK /\ Main => TypeOK'
<1> SUFFICES ASSUME TypeOK, Main PROVE TypeOK'
  OBVIOUS
<1> USE DEF TypeOK
<1>1. CASE Read
  BY <1>1 DEF Read, receive, counted
<1>2. CASE Recvfrom
  <2>1. Head(rx) \in Frames /\ Tail(rx) \in Seq(Frames)
    BY <1>2, HeadTailProperties DEF Recvfrom
  <2>2. Head(rx) \in Seq(Asdus)
    BY <2>1, FrameAsdus
  <2> QED
    BY <1>2, <2>1, <2>2 DEF Recvfrom, counted
<1>3. CASE Again
  BY <1>3 DEF Again, receive, counted
<1>4. CASE Take
  <2>1. [stats EXCEPT !.received = @ + 1] \in TotalsType
    BY OneMore
  <2>2. stats' \in TotalsType
    BY <1>4, <2>1 DEF Take
  <2> QED
    BY <1>4, <2>2 DEF Take, receive
<1>5. CASE Count
  <2> DEFINE a == Head(asdus)
             t == countGo(SmpCntWrap[a.stream], Tallied(streams[a.stream]), a.cnt)
  <2>1. a \in Asdus
    BY <1>5, HeadTailProperties DEF Count
  <2>2. a.stream \in Streams /\ a.cnt \in Nat
    BY <2>1, AsduFields
  <2>3. SmpCntWrap[a.stream] \in Nat
    BY <2>2, SubscriberAssumption
  <2>4. Tallied(streams[a.stream]) \in TallyType
    BY <2>2 DEF Tallied, TotalsType, TallyType
  <2>5. /\ t.prev \in Nat \cup {None} /\ t.maxSeen \in Nat
        /\ t.lost \in Nat /\ t.duplicates \in Nat /\ t.outOfOrder \in Nat
    BY <2>2, <2>3, <2>4, CountType DEF TallyType
  <2>6. /\ streams' = [streams EXCEPT ![a.stream] = [prev |-> t.prev, maxSeen |-> t.maxSeen]]
        /\ stats' = [stats EXCEPT !.lost = t.lost, !.duplicates = t.duplicates,
                                  !.outOfOrder = t.outOfOrder]
    BY <1>5 DEF Count
  <2> HIDE DEF a, t
  <2>7. streams' \in [Streams -> [prev : Nat \cup {None}, maxSeen : Nat]]
    BY <2>2, <2>5, <2>6
  <2>8. stats' \in TotalsType
    BY <2>5, <2>6 DEF TotalsType
  <2> QED
    BY <1>5, <2>7, <2>8 DEF Count, receive
<1>6. CASE HandOver
  <2>1. Head(asdus) \in Asdus /\ Tail(asdus) \in Seq(Asdus)
    BY <1>6, HeadTailProperties DEF HandOver
  <2>2. /\ Append(out, Head(asdus)) \in Seq(Asdus)
        /\ Len(Append(out, Head(asdus))) = Len(out) + 1
        /\ Len(out) \in Nat
    BY <2>1, AppendProperties, LenProperties
  <2>3. out' \in Seq(Asdus) /\ Len(out') <= OutCap
    BY <1>6, <2>2, SubscriberAssumption DEF HandOver, Room
  <2> QED
    BY <1>6, <2>1, <2>3 DEF HandOver, counted
<1>7. CASE Log
  BY <1>7 DEF Log, receive, counted
<1>8. CASE Fatal
  BY <1>8 DEF Fatal, receive, counted
<1> QED
  BY <1>1, <1>2, <1>3, <1>4, <1>5, <1>6, <1>7, <1>8 DEF Main

(***************************************************************************)
(* ... and the writer, the ticker, the signal goroutine and the link.      *)
(***************************************************************************)
LEMMA TypeOthers == TypeOK /\ Next /\ ~Main => TypeOK'
<1> SUFFICES ASSUME TypeOK, Next, ~Main PROVE TypeOK'
  OBVIOUS
<1> USE DEF TypeOK
<1>1. CASE TakeOut
  <2>1. Head(out) \in Asdus /\ Tail(out) \in Seq(Asdus) /\ Len(Tail(out)) = Len(out) - 1 /\ Len(out) \in Nat
    BY <1>1, HeadTailProperties, LenProperties DEF TakeOut
  <2>2. <<"sv", Head(out)>> \in LineType /\ <<"sv", Head(out)>> # Nothing
    BY <2>1, LineKinds
  <2>3. line' \in [Printers -> LineType] /\ (jlmu' # "free" => line'[jlmu'] # Nothing)
    BY <1>1, <2>2 DEF TakeOut, Printers
  <2>4. Len(out') <= OutCap
    BY <1>1, <2>1, SubscriberAssumption DEF TakeOut
  <2> QED
    BY <1>1, <2>1, <2>3, <2>4 DEF TakeOut, receive, counted
<1>2. CASE Ticker
  <2>1. <<"stats", stats>> \in LineType /\ <<"stats", stats>> # Nothing
    BY LineKinds
  <2>2. line' \in [Printers -> LineType] /\ (jlmu' # "free" => line'[jlmu'] # Nothing)
    BY <1>2, <2>1 DEF Ticker, emit, Printers
  <2>3. ticks' \in 0 .. MaxTicks
    BY <1>2, SubscriberAssumption DEF Ticker
  <2> QED
    BY <1>2, <2>2, <2>3 DEF Ticker, receive, counted
<1>3. CASE \E p \in Printers : Lock(p)
  BY <1>3 DEF Lock, receive, counted
<1>4. ASSUME NEW p \in Printers, Written(p) PROVE TypeOK'
  <2>1. line' \in [Printers -> LineType]
    BY <1>4, LineKinds DEF Written
  <2> QED
    BY <1>4, <2>1 DEF Written, receive, counted
<1>5. CASE Signal
  BY <1>5 DEF Signal, receive, counted
<1>6. CASE Close
  BY <1>6 DEF Close, receive, counted
<1>7. CASE EmitFinal
  <2>1. <<"stats", stats>> \in LineType /\ <<"stats", stats>> # Nothing
    BY LineKinds
  <2>2. line' \in [Printers -> LineType] /\ (jlmu' # "free" => line'[jlmu'] # Nothing)
    BY <1>7, <2>1 DEF EmitFinal, emit, Printers
  <2> QED
    BY <1>7, <2>2 DEF EmitFinal, receive, counted
<1>8. CASE Exit
  BY <1>8 DEF Exit, receive, counted
<1>9. CASE Arrive
  <2>1. rx' \in Seq(Frames)
    BY <1>9, AppendProperties DEF Arrive
  <2>2. arrived' \in 0 .. MaxArrive
    BY <1>9, SubscriberAssumption DEF Arrive
  <2> QED
    BY <1>9, <2>1, <2>2 DEF Arrive, counted
<1> QED
  BY <1>1, <1>2, <1>3, <1>4, <1>5, <1>6, <1>7, <1>8, <1>9 DEF Next

(***************************************************************************)
(* A step that changes nothing keeps the types.                            *)
(***************************************************************************)
LEMMA TypeStep == TypeOK /\ [Next]_vars => TypeOK'
<1>1. TypeOK /\ UNCHANGED vars => TypeOK'
  BY DEF TypeOK, vars, receive, counted
<1> QED
  BY <1>1, TypeMain, TypeOthers

(***************************************************************************)
(* The variables of the Go sv-subscriber keep their types: the channel     *)
(* never holds more than its capacity, main is between Lock and Unlock of  *)
(* the totals only with an ASDU in hand, and whoever holds the mutex of jl *)
(* has a line to write.                                                    *)
(***************************************************************************)
THEOREM TypeCorrect == BlockedSpec => []TypeOK
<1> QED
  BY TypeInit, TypeStep, PTL DEF BlockedSpec

-----------------------------------------------------------------------------
(* Stats lines.                                                            *)

(* What a goroutine other than main has in hand: the writer an sv event,   *)
(* the ticker and the signal goroutine totals that were those of stats     *)
(* after one and the same ASDU.                                            *)
InHand ==
  /\ line["writer"] # Nothing => line["writer"][1] = "sv"
  /\ \A p \in {"ticker", "signal"} :
       line[p] # Nothing => line[p][1] = "stats" /\ line[p][2] \in past

(* The strengthening: between two calls of count, stats is a snapshot.     *)
Snapshots ==
  /\ pc # "count" => stats \in past
  /\ InHand
  /\ printed \in Seq(LineType)
  /\ StatsAreSnapshots

(***************************************************************************)
(* Printing a line: the lines there were stay as they are, the new one     *)
(* comes last.                                                             *)
(***************************************************************************)
LEMMA PrintedAppend ==
  ASSUME NEW p \in Printers, TypeOK, printed \in Seq(LineType), Written(p)
  PROVE  /\ Len(printed) \in Nat /\ DOMAIN printed = 1 .. Len(printed)
         /\ printed' \in Seq(LineType)
         /\ DOMAIN printed' = 1 .. Len(printed) + 1
         /\ \A i \in 1 .. Len(printed) : printed'[i] = printed[i]
         /\ printed'[Len(printed) + 1] = line[p]
<1>1. printed' = Append(printed, line[p]) /\ line[p] \in LineType
  BY DEF Written, TypeOK
<1> QED
  BY <1>1, AppendProperties, LenProperties

(***************************************************************************)
(* Initially there is no line, and past holds the totals of the start.     *)
(***************************************************************************)
LEMMA SnapshotsInit == Init => Snapshots
<1> SUFFICES ASSUME Init PROVE Snapshots
  OBVIOUS
<1>1. printed \in Seq(LineType) /\ DOMAIN printed = {}
  BY EmptySeq DEF Init
<1>2. InHand
  BY DEF Init, InHand, Printers
<1> QED
  BY <1>1, <1>2 DEF Init, Snapshots, StatsAreSnapshots, StatsLines

(***************************************************************************)
(* The goroutines keep Snapshots: emit reads the four totals under the     *)
(* mutex that count holds from its first assignment to its last.           *)
(***************************************************************************)
LEMMA SnapshotsStep == TypeOK /\ Snapshots /\ [Next]_vars => Snapshots'
<1> SUFFICES ASSUME TypeOK, Snapshots, [Next]_vars PROVE Snapshots'
  OBVIOUS
<1> USE DEF Snapshots
<1>0. line \in [Printers -> LineType]
  BY DEF TypeOK
<1>1. CASE Main
  <2>1. UNCHANGED <<line, printed>> /\ past \subseteq past'
    BY <1>1 DEF Main, Read, Recvfrom, Again, Take, Count, HandOver, Log, Fatal, history
  <2>2. pc' # "count" => stats' \in past'
    BY <1>1 DEF Main, Read, Recvfrom, Again, Take, Count, HandOver, Log, Fatal, history, counted
  <2>3. InHand'
    BY <2>1 DEF InHand
  <2>4. StatsAreSnapshots'
    BY <2>1 DEF StatsAreSnapshots, StatsLines
  <2> QED
    BY <2>1, <2>2, <2>3, <2>4
<1>2. CASE TakeOut
  <2>1. InHand'
    BY <1>0, <1>2 DEF TakeOut, InHand, history, Printers
  <2> QED
    BY <1>2, <2>1 DEF TakeOut, StatsAreSnapshots, StatsLines, history, counted
<1>3. CASE Ticker \/ EmitFinal
  <2>1. PICK p \in {"ticker", "signal"} :
          line' = [line EXCEPT ![p] = <<"stats", stats>>] /\ stats \in past
    BY <1>3 DEF Ticker, EmitFinal, emit
  <2>2. UNCHANGED <<printed, past, stats, pc>>
    BY <1>3 DEF Ticker, EmitFinal, history, counted
  <2>3. InHand'
    BY <1>0, <2>1, <2>2 DEF InHand, Printers
  <2> QED
    BY <2>2, <2>3 DEF StatsAreSnapshots, StatsLines
<1>4. ASSUME NEW p \in Printers, Written(p) PROVE Snapshots'
  <2>1. /\ Len(printed) \in Nat /\ DOMAIN printed = 1 .. Len(printed)
        /\ printed' \in Seq(LineType)
        /\ DOMAIN printed' = 1 .. Len(printed) + 1
        /\ \A i \in 1 .. Len(printed) : printed'[i] = printed[i]
        /\ printed'[Len(printed) + 1] = line[p]
    BY <1>4, PrintedAppend
  <2>2. UNCHANGED <<past, stats, pc>> /\ line' = [line EXCEPT ![p] = Nothing] /\ line[p] # Nothing
    BY <1>4 DEF Written, history, counted, TypeOK, Printers
  <2>3. InHand'
    BY <1>0, <2>2 DEF InHand, Printers
  <2>4. line[p][1] = "stats" => line[p][2] \in past
    BY <2>2 DEF InHand, Printers
  <2>5. StatsAreSnapshots'
    BY <2>1, <2>2, <2>4 DEF StatsAreSnapshots, StatsLines
  <2> QED
    BY <2>1, <2>2, <2>3, <2>5
<1>5. CASE (\E p \in Printers : Lock(p)) \/ Signal \/ Close \/ Exit \/ Arrive \/ UNCHANGED vars
  <2>1. UNCHANGED <<line, printed, past, stats, pc>>
    BY <1>5 DEF Lock, Signal, Close, Exit, Arrive, vars, history, counted
  <2> QED
    BY <2>1 DEF InHand, StatsAreSnapshots, StatsLines
<1> QED
  BY <1>1, <1>2, <1>3, <1>4, <1>5 DEF Next

(***************************************************************************)
(* Every stats line of the Go sv-subscriber, the ticker's and the last     *)
(* one, holds the four totals as they were after one and the same ASDU,    *)
(* wherever main is in stats.count when emit is called.                    *)
(***************************************************************************)
THEOREM SnapshotsOnly == BlockedSpec => []StatsAreSnapshots
<1>1. Snapshots => StatsAreSnapshots
  BY DEF Snapshots
<1> QED
  BY <1>1, SnapshotsInit, TypeCorrect, SnapshotsStep, PTL DEF BlockedSpec


-----------------------------------------------------------------------------
(* The order of the sv events.                                             *)

(* A place in sampled for every sv event on stdout (at), for the last one  *)
(* the writer took (w, 0 if there was none) and for those in the channel   *)
(* (q), in this order.                                                     *)
Places(at, w, q) ==
  /\ \A i, j \in SvLines : i < j => at[i] < at[j]
  /\ \A i \in SvLines :
       /\ printed[i][2] = sampled[at[i]]
       /\ at[i] <= w /\ (line["writer"] # Nothing => at[i] < w)
  /\ line["writer"] # Nothing => w # 0 /\ line["writer"] = <<"sv", sampled[w]>>
  /\ \A i \in DOMAIN out : out[i] = sampled[q[i]] /\ w < q[i]
  /\ \A i, j \in DOMAIN out : i < j => q[i] < q[j]

(* The strengthening of ReportedInOrder.                                   *)
InOrder ==
  /\ sampled \in Seq(Asdus)
  /\ \E at \in [SvLines -> DOMAIN sampled], w \in 0 .. Len(sampled),
        q \in [DOMAIN out -> DOMAIN sampled] : Places(at, w, q)

(***************************************************************************)
(* Places for the next state, whatever they are, make InOrder hold there.  *)
(***************************************************************************)
LEMMA InOrderFrom ==
  ASSUME NEW at, NEW w, NEW q,
         sampled' \in Seq(Asdus),
         at \in [SvLines' -> DOMAIN sampled'],
         w \in 0 .. Len(sampled'),
         q \in [DOMAIN out' -> DOMAIN sampled'],
         \A i, j \in SvLines' : i < j => at[i] < at[j],
         \A i \in SvLines' :
           /\ printed'[i][2] = sampled'[at[i]]
           /\ at[i] <= w /\ (line'["writer"] # Nothing => at[i] < w),
         line'["writer"] # Nothing => w # 0 /\ line'["writer"] = <<"sv", sampled'[w]>>,
         \A i \in DOMAIN out' : out'[i] = sampled'[q[i]] /\ w < q[i],
         \A i, j \in DOMAIN out' : i < j => q[i] < q[j]
  PROVE  InOrder'
<1>1. Places(at, w, q)'
  BY DEF Places
<1> QED
  BY <1>1 DEF InOrder

(***************************************************************************)
(* A step that leaves stdout, the writer, the channel and sampled alone    *)
(* keeps the places.                                                       *)
(***************************************************************************)
LEMMA InOrderSame ==
  ASSUME InOrder, UNCHANGED <<printed, out, sampled>>, line'["writer"] = line["writer"]
  PROVE  InOrder'
<1>1. UNCHANGED SvLines /\ sampled \in Seq(Asdus)
  BY DEF SvLines, InOrder
<1>2. PICK at \in [SvLines -> DOMAIN sampled], w \in 0 .. Len(sampled),
           q \in [DOMAIN out -> DOMAIN sampled] : Places(at, w, q)
  BY DEF InOrder
<1>3. Places(at, w, q)'
  BY <1>1, <1>2 DEF Places
<1> QED
  BY <1>1, <1>2, <1>3 DEF InOrder

(***************************************************************************)
(* HandOver: the new place is the last one, and an ASDU the channel has no *)
(* room for leaves its place empty.                                        *)
(***************************************************************************)
LEMMA InOrderHandOver ==
  ASSUME TypeOK, InOrder, HandOver
  PROVE  InOrder'
<1> DEFINE a == Head(asdus)
<1>1. a \in Asdus /\ out \in Seq(Asdus) /\ sampled \in Seq(Asdus)
  BY HeadTailProperties DEF TypeOK, HandOver, InOrder
<1>2. UNCHANGED <<printed, line>> /\ UNCHANGED SvLines
  BY DEF HandOver, SvLines
<1>3. PICK at \in [SvLines -> DOMAIN sampled], w \in 0 .. Len(sampled),
           q \in [DOMAIN out -> DOMAIN sampled] : Places(at, w, q)
  BY DEF InOrder
<1>4. /\ Len(sampled) \in Nat /\ DOMAIN sampled = 1 .. Len(sampled)
      /\ Len(out) \in Nat /\ DOMAIN out = 1 .. Len(out)
  BY <1>1, LenProperties
<1>5. \/ sampled' = sampled /\ out' = out
      \/ sampled' = Append(sampled, a) /\ out' = out
      \/ sampled' = Append(sampled, a) /\ out' = Append(out, a)
  BY DEF HandOver
<1> HIDE DEF a
<1>6. CASE sampled' = sampled /\ out' = out
  BY <1>2, <1>6, InOrderSame
<1>7. CASE sampled' = Append(sampled, a)
  <2>1. /\ sampled' \in Seq(Asdus) /\ Len(sampled') = Len(sampled) + 1
        /\ \A i \in 1 .. Len(sampled) : sampled'[i] = sampled[i]
        /\ sampled'[Len(sampled) + 1] = a
        /\ DOMAIN sampled' = 1 .. Len(sampled) + 1
    BY <1>1, <1>4, <1>7, AppendProperties, LenProperties
  <2>2. at \in [SvLines' -> DOMAIN sampled'] /\ w \in 0 .. Len(sampled')
    BY <1>2, <1>4, <2>1
  <2>3. CASE out' = out
    <3>1. q \in [DOMAIN out' -> DOMAIN sampled']
      BY <1>4, <2>1, <2>3
    <3>2. Places(at, w, q)'
      BY <1>2, <1>3, <1>4, <2>1, <2>3 DEF Places
    <3> QED
      BY <2>1, <2>2, <3>1, <3>2 DEF InOrder
  <2>4. CASE out' = Append(out, a)
    <3>1. /\ Len(out') = Len(out) + 1 /\ DOMAIN out' = 1 .. Len(out) + 1
          /\ \A i \in 1 .. Len(out) : out'[i] = out[i]
          /\ out'[Len(out) + 1] = a
      BY <1>1, <1>4, <2>4, AppendProperties, LenProperties
    <3> DEFINE r == [i \in 1 .. Len(out) + 1 |-> IF i \in 1 .. Len(out) THEN q[i] ELSE Len(sampled) + 1]
    <3>2. /\ \A i \in 1 .. Len(out) : r[i] = q[i] /\ r[i] \in 1 .. Len(sampled)
          /\ r[Len(out) + 1] = Len(sampled) + 1
          /\ r \in [DOMAIN out' -> DOMAIN sampled']
      <4>1. \A i \in 1 .. Len(out) : q[i] \in 1 .. Len(sampled)
        BY <1>4
      <4>2. \A n \in Nat :
              /\ n + 1 \in 1 .. n + 1 /\ n + 1 \notin 1 .. n
              /\ \A i \in 1 .. n : i \in 1 .. n + 1
              /\ \A i \in 1 .. n + 1 : i \in 1 .. n \/ i = n + 1
        OBVIOUS
      <4>3. Len(out) \in Nat /\ Len(sampled) \in Nat
        BY <1>4
      <4>4. \A i \in 1 .. Len(out) : r[i] = q[i]
        BY <4>2, <4>3
      <4>5. r[Len(out) + 1] = Len(sampled) + 1
        BY <4>2, <4>3
      <4>6. DOMAIN r = 1 .. Len(out) + 1 /\ r = [i \in DOMAIN r |-> r[i]]
        OBVIOUS
      <4> HIDE DEF r
      <4>7. \A i \in 1 .. Len(out) + 1 : r[i] \in 1 .. Len(sampled) + 1
        BY <4>1, <4>2, <4>3, <4>4, <4>5
      <4> QED
        BY <2>1, <3>1, <4>1, <4>4, <4>5, <4>6, <4>7
    <3> HIDE DEF r
    <3>3. ASSUME NEW i \in DOMAIN out'
          PROVE  out'[i] = sampled'[r[i]] /\ w < r[i]
      <4>1. CASE i \in 1 .. Len(out)
        BY <1>3, <1>4, <2>1, <3>1, <3>2, <4>1 DEF Places
      <4>2. CASE i = Len(out) + 1
        BY <1>4, <2>1, <3>1, <3>2, <4>2
      <4> QED
        BY <1>4, <3>1, <4>1, <4>2
    <3>4. ASSUME NEW i \in DOMAIN out', NEW j \in DOMAIN out', i < j
          PROVE  r[i] < r[j]
      <4>1. i \in 1 .. Len(out)
        BY <1>4, <3>1, <3>4
      <4>2. CASE j \in 1 .. Len(out)
        BY <1>3, <1>4, <3>2, <3>4, <4>1, <4>2 DEF Places
      <4>3. CASE j = Len(out) + 1
        BY <1>4, <3>2, <4>1, <4>3
      <4> QED
        BY <1>4, <3>1, <4>2, <4>3
    <3>5. /\ \A i, j \in SvLines' : i < j => at[i] < at[j]
          /\ \A i \in SvLines' :
               /\ printed'[i][2] = sampled'[at[i]]
               /\ at[i] <= w /\ (line'["writer"] # Nothing => at[i] < w)
          /\ line'["writer"] # Nothing => w # 0 /\ line'["writer"] = <<"sv", sampled'[w]>>
      BY <1>2, <1>3, <1>4, <2>1 DEF Places
    <3> QED
      BY <2>1, <2>2, <3>2, <3>3, <3>4, <3>5, InOrderFrom
  <2> QED
    BY <1>5, <2>3, <2>4, <1>7
<1> QED
  BY <1>5, <1>6, <1>7

(***************************************************************************)
(* The writer takes the oldest ASDU of the channel: its place comes after  *)
(* those on stdout and before those left in the channel.                   *)
(***************************************************************************)
LEMMA InOrderTakeOut ==
  ASSUME TypeOK, InOrder, TakeOut
  PROVE  InOrder'
<1>1. out \in Seq(Asdus) /\ out # << >> /\ sampled \in Seq(Asdus)
  BY DEF TypeOK, TakeOut, InOrder
<1>2. UNCHANGED <<printed, sampled>> /\ UNCHANGED SvLines
  BY DEF TakeOut, SvLines, history
<1>3. PICK at \in [SvLines -> DOMAIN sampled], w \in 0 .. Len(sampled),
           q \in [DOMAIN out -> DOMAIN sampled] : Places(at, w, q)
  BY DEF InOrder
<1>4. /\ Len(sampled) \in Nat /\ DOMAIN sampled = 1 .. Len(sampled)
      /\ Len(out) \in Nat /\ DOMAIN out = 1 .. Len(out) /\ Len(out) # 0
  BY <1>1, LenProperties, EmptySeq
<1>5. /\ out' = Tail(out) /\ Head(out) = out[1]
      /\ Len(out') = Len(out) - 1 /\ DOMAIN out' = 1 .. Len(out) - 1
      /\ \A i \in 1 .. Len(out) - 1 : out'[i] = out[i + 1]
  <2>1. out' = Tail(out)
    BY DEF TakeOut
  <2> QED
    BY <1>1, <1>4, <2>1, HeadTailProperties, LenProperties
<1>6. line["writer"] = Nothing /\ line'["writer"] = <<"sv", out[1]>>
  BY <1>5 DEF TakeOut, TypeOK, Printers
<1>7. 1 \in DOMAIN out /\ q[1] \in 1 .. Len(sampled) /\ w < q[1] /\ out[1] = sampled[q[1]]
  BY <1>3, <1>4 DEF Places
<1> DEFINE r == [i \in 1 .. Len(out) - 1 |-> q[i + 1]]
<1>8. /\ r \in [DOMAIN out' -> DOMAIN sampled']
      /\ \A i \in DOMAIN out' : r[i] = q[i + 1] /\ i + 1 \in DOMAIN out /\ 1 < i + 1
      /\ \A i \in DOMAIN out' : q[1] < q[i + 1] /\ out'[i] = sampled[r[i]]
      /\ \A i, j \in DOMAIN out' : i < j => r[i] < r[j]
  <2>1. \A i \in 1 .. Len(out) - 1 : i + 1 \in DOMAIN out /\ 1 < i + 1 /\ r[i] = q[i + 1]
    BY <1>4
  <2>2. r \in [DOMAIN out' -> DOMAIN sampled']
    BY <1>2, <1>4, <1>5, <2>1
  <2> HIDE DEF r
  <2>3. \A i \in 1 .. Len(out) - 1 : q[1] < q[i + 1] /\ out'[i] = sampled[r[i]]
    BY <1>3, <1>5, <1>7, <2>1 DEF Places
  <2>4. \A i, j \in 1 .. Len(out) - 1 : i < j => i + 1 < j + 1
    BY <1>4
  <2>5. \A i, j \in 1 .. Len(out) - 1 : i < j => r[i] < r[j]
    BY <1>3, <2>1, <2>4 DEF Places
  <2> QED
    BY <1>5, <2>1, <2>2, <2>3, <2>5
<1> HIDE DEF r
<1>9. \A i \in SvLines : at[i] \in 1 .. Len(sampled) /\ at[i] <= q[1] /\ at[i] < q[1]
  BY <1>3, <1>4, <1>7 DEF Places
<1>10. /\ \A i, j \in SvLines' : i < j => at[i] < at[j]
       /\ \A i \in SvLines' : printed'[i][2] = sampled'[at[i]]
  BY <1>2, <1>3 DEF Places
<1>11. at \in [SvLines' -> DOMAIN sampled'] /\ q[1] \in 0 .. Len(sampled')
  BY <1>2, <1>4, <1>7
<1> QED
  BY <1>1, <1>2, <1>6, <1>7, <1>8, <1>9, <1>10, <1>11, InOrderFrom

(***************************************************************************)
(* The pipe takes a line: a stats line has no place, an sv event brings    *)
(* the writer's place to stdout.                                           *)
(***************************************************************************)
LEMMA InOrderWritten ==
  ASSUME NEW p \in Printers, TypeOK, Snapshots, InOrder, Written(p)
  PROVE  InOrder'
<1>1. /\ Len(printed) \in Nat /\ DOMAIN printed = 1 .. Len(printed)
      /\ DOMAIN printed' = 1 .. Len(printed) + 1
      /\ \A i \in 1 .. Len(printed) : printed'[i] = printed[i]
      /\ printed'[Len(printed) + 1] = line[p]
  BY PrintedAppend DEF Snapshots
<1>2. /\ UNCHANGED <<out, sampled>> /\ line' = [line EXCEPT ![p] = Nothing] /\ line[p] # Nothing
      /\ line \in [Printers -> LineType]
  BY DEF Written, history, TypeOK, Printers
<1>3. PICK at \in [SvLines -> DOMAIN sampled], w \in 0 .. Len(sampled),
           q \in [DOMAIN out -> DOMAIN sampled] : Places(at, w, q)
  BY DEF InOrder
<1>4. sampled \in Seq(Asdus) /\ Len(sampled) \in Nat /\ DOMAIN sampled = 1 .. Len(sampled)
  BY LenProperties DEF InOrder
<1>5. CASE p # "writer"
  <2>1. line[p][1] = "stats"
    BY <1>2, <1>5 DEF Snapshots, InHand, Printers
  <2>2. SvLines' = SvLines /\ \A i \in SvLines : printed'[i] = printed[i]
    BY <1>1, <2>1 DEF SvLines
  <2>3. line'["writer"] = line["writer"]
    BY <1>2, <1>5 DEF Printers
  <2>4. Places(at, w, q)'
    BY <1>2, <1>3, <2>2, <2>3 DEF Places
  <2> QED
    BY <1>2, <1>4, <2>2, <2>4 DEF InOrder
<1>6. CASE p = "writer"
  <2> DEFINE n == Len(printed) + 1
             bt == [i \in SvLines' |-> IF i = n THEN w ELSE at[i]]
  <2>1. line[p] = <<"sv", sampled[w]>> /\ w \in 1 .. Len(sampled)
    BY <1>2, <1>3, <1>4, <1>6 DEF Places
  <2>2. line[p][1] = "sv" /\ line[p][2] = sampled[w]
    BY <2>1
  <2>3. SvLines' = SvLines \cup {n} /\ n \notin SvLines /\ \A i \in SvLines : i \in Nat /\ i < n
    BY <1>1, <2>2 DEF SvLines
  <2>4. /\ \A i \in SvLines : bt[i] = at[i] /\ printed'[i] = printed[i]
        /\ bt[n] = w /\ printed'[n] = line[p]
    BY <1>1, <2>3 DEF SvLines
  <2>5. bt \in [SvLines' -> DOMAIN sampled']
    BY <1>2, <1>4, <2>1, <2>3
  <2> HIDE DEF bt
  <2>6. line'["writer"] = Nothing
    BY <1>2, <1>6
  <2>7. \A i \in SvLines : at[i] < w /\ at[i] <= w /\ printed[i][2] = sampled[at[i]]
    BY <1>2, <1>3, <1>6 DEF Places
  <2>8. ASSUME NEW i \in SvLines', NEW j \in SvLines', i < j
        PROVE  bt[i] < bt[j]
    <3>1. i \in SvLines
      BY <1>1, <2>3, <2>8
    <3> QED
      BY <1>3, <2>3, <2>4, <2>7, <2>8, <3>1 DEF Places
  <2>9. ASSUME NEW i \in SvLines'
        PROVE  printed'[i][2] = sampled'[bt[i]] /\ bt[i] <= w
    <3>1. CASE i \in SvLines
      BY <1>2, <2>1, <2>4, <2>7, <3>1
    <3>2. CASE i = n
      BY <1>2, <2>1, <2>2, <2>4, <3>2
    <3> QED
      BY <2>3, <3>1, <3>2
  <2>10. /\ \A i \in DOMAIN out' : out'[i] = sampled'[q[i]] /\ w < q[i]
         /\ \A i, j \in DOMAIN out' : i < j => q[i] < q[j]
         /\ q \in [DOMAIN out' -> DOMAIN sampled'] /\ w \in 0 .. Len(sampled')
    BY <1>2, <1>3 DEF Places
  <2> QED
    BY <1>2, <1>4, <2>5, <2>6, <2>8, <2>9, <2>10, InOrderFrom
<1> QED
  BY <1>5, <1>6

(***************************************************************************)
(* Every step keeps InOrder.                                               *)
(***************************************************************************)
LEMMA InOrderStep == TypeOK /\ Snapshots /\ InOrder /\ [Next]_vars => InOrder'
<1> SUFFICES ASSUME TypeOK, Snapshots, InOrder, [Next]_vars PROVE InOrder'
  OBVIOUS
<1>1. CASE \/ Main /\ ~HandOver
           \/ (\E p \in Printers : Lock(p)) \/ Signal \/ Close \/ Exit \/ Arrive \/ UNCHANGED vars
  <2>1. UNCHANGED <<printed, out, sampled, line>>
    BY <1>1 DEF Main, Read, Recvfrom, Again, Take, Count, Log, Fatal, Lock, Signal, Close, Exit, Arrive,
                vars, history
  <2> QED
    BY <2>1, InOrderSame
<1>2. CASE Ticker \/ EmitFinal
  <2>1. UNCHANGED <<printed, out, sampled>> /\ line'["writer"] = line["writer"]
    BY <1>2 DEF Ticker, EmitFinal, emit, history, TypeOK, Printers
  <2> QED
    BY <2>1, InOrderSame
<1> QED
  BY <1>1, <1>2, InOrderHandOver, InOrderTakeOut, InOrderWritten DEF Next

(***************************************************************************)
(* The sv events of the Go sv-subscriber are printed in the order of the   *)
(* ASDUs on the wire, each at most once, whatever the capacity of the      *)
(* channel and whatever the backlog drops.                                 *)
(***************************************************************************)
THEOREM EventsInOrder == BlockedSpec => []ReportedInOrder
<1>1. Init => InOrder /\ Snapshots
  <2> SUFFICES ASSUME Init PROVE InOrder /\ Snapshots
    OBVIOUS
  <2>1. SvLines = {} /\ DOMAIN out = {} /\ sampled = << >> /\ line["writer"] = Nothing
    BY DEF Init, SvLines, Printers
  <2>2. sampled \in Seq(Asdus) /\ Len(sampled) = 0
    BY <2>1, EmptySeq
  <2> DEFINE e == [i \in {} |-> 0]
  <2>3. e \in [SvLines -> DOMAIN sampled] /\ e \in [DOMAIN out -> DOMAIN sampled] /\ 0 \in 0 .. Len(sampled)
    BY <2>1, <2>2
  <2>4. Places(e, 0, e)
    BY <2>1 DEF Places
  <2>5. InOrder
    BY <2>2, <2>3, <2>4 DEF InOrder
  <2> QED
    BY <2>5, SnapshotsInit
<1>2. InOrder => ReportedInOrder
  BY DEF InOrder, Places, ReportedInOrder
<1> QED
  BY <1>1, <1>2, TypeCorrect, SnapshotsStep, InOrderStep, PTL DEF BlockedSpec
=============================================================================
