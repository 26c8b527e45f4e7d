----------------------- MODULE GooseSubscribersProofs -----------------------
(***************************************************************************)
(* Proofs about the goose-subscribers, for any set of gocbRefs, any        *)
(* timeAllowedToLive, any size of the C table and any number of frames.    *)
(* C and Rust: that deadlines follow frames, and that "ok" comes before    *)
(* the goose event.  Go: its type invariant, and the invariant             *)
(* TimersFollowFrames that ties timers to frames.  All three: that every   *)
(* step is a step the supervision contract allows.                         *)
(***************************************************************************)
EXTENDS MCGooseSubscribers, GooseSubscriberGo, TLAPS

(* Whatever the queue holds is a frame.                                    *)
LEMMA FrameType ==
  ASSUME NEW f \in Frames
  PROVE  f.ref \in Refs /\ f.tal \in 0 .. MaxTal
<1>1. CASE f \in [ref : Refs, tal : 0 .. MaxTal, ok : {TRUE}]
  BY <1>1
<1>2. CASE f \in [ref : Refs, tal : {0}, ok : {FALSE}]
  <2>1. f.ref \in Refs /\ f.tal = 0
    BY <1>2
  <2> QED BY <2>1, WireAssumption
<1> QED BY <1>1, <1>2 DEF Frames

(* Taking a frame from the queue, or putting one there, keeps its type.    *)
LEMMA TakeType ==
  ASSUME NEW S, NEW q \in Seq(S), q # << >>
  PROVE  Head(q) \in S /\ Tail(q) \in Seq(S) /\ Len(Tail(q)) = Len(q) - 1
OBVIOUS

LEMMA PutType ==
  ASSUME NEW S, NEW q \in Seq(S), NEW f \in S
  PROVE  Append(q, f) \in Seq(S) /\ Len(Append(q, f)) = Len(q) + 1
OBVIOUS

-----------------------------------------------------------------------------
(* One stream: its deadline as a countdown, the age of its last frame and  *)
(* the timeAllowedToLive of that frame.                                    *)

None == -1
Countdowns == {None} \cup (0 .. MaxTal)

(* The countdown d is what is left of t after a ticks.                     *)
Follows(d, a, t) ==
  /\ d = None <=> t = 0
  /\ d # None => d = IF a < t THEN t - a ELSE 0

(* The countdown a frame of timeAllowedToLive t starts.                    *)
Start(t) == IF t > 0 THEN t ELSE None

LEMMA StartFollows ==
  ASSUME NEW t \in 0 .. MaxTal
  PROVE  Start(t) \in Countdowns /\ Follows(Start(t), 0, t)
BY WireAssumption DEF Start, Countdowns, Follows, None

LEMMA TickFollows ==
  ASSUME NEW d \in Countdowns, NEW a \in 0 .. MaxTal, NEW t \in 0 .. MaxTal
  PROVE  /\ RunDown(d) \in Countdowns
         /\ Contract!Older(a) \in 0 .. MaxTal
         /\ Follows(d, a, t) => Follows(RunDown(d), Contract!Older(a), t)
BY WireAssumption DEF RunDown, Contract!Older, Countdowns, Follows, None

-----------------------------------------------------------------------------
(* What both programs share: the wire, what was printed and the history.   *)

(* What the programs know of the wire and have printed.                    *)
SharedType ==
  /\ queue \in Seq(Frames)
  /\ Len(queue) <= QueueMax
  /\ sent \in 0 .. MaxFrames
  /\ alive \in BOOLEAN
  /\ said \in [Refs -> {"none", "timeout", "ok"}]
  /\ shown \in [Refs -> {"none", "goose", "timeout", "ok"}]
  /\ tal \in [Refs -> 0 .. MaxTal]
  /\ age \in [Refs -> 0 .. MaxTal]
  /\ timed_out \in [Refs -> BOOLEAN]

LEMMA SharedInit ==
  ASSUME WireInit, timed_out = [r \in Refs |-> FALSE]
  PROVE  SharedType
<1> USE WireAssumption
<1>1. queue \in Seq(Frames) /\ Len(queue) <= QueueMax
  BY DEF WireInit
<1> QED BY <1>1 DEF WireInit, Contract!Init, SharedType

(* A frame reaches the socket, from a wire that ends or does not.          *)
LEMMA ArriveType ==
  ASSUME SharedType, NEW f \in Frames, Len(queue) < QueueMax,
         queue' = Append(queue, f),
         sent' = sent \/ (sent < MaxFrames /\ sent' = sent + 1)
  PROVE  queue' \in Seq(Frames) /\ Len(queue') <= QueueMax /\ sent' \in 0 .. MaxFrames
<1>1. queue' \in Seq(Frames) /\ Len(queue') = Len(queue) + 1
  BY PutType DEF SharedType
<1>2. Len(queue) \in Nat
  BY DEF SharedType
<1> QED BY <1>1, <1>2, WireAssumption DEF SharedType

(* A frame is taken from the socket, and kept.                             *)
LEMMA TakeShared ==
  ASSUME SharedType, queue # << >>, queue' = Tail(queue)
  PROVE  /\ queue' \in Seq(Frames) /\ Len(queue') <= QueueMax
         /\ Head(queue).ref \in Refs /\ Head(queue).tal \in 0 .. MaxTal
<1>1. Head(queue) \in Frames /\ queue' \in Seq(Frames) /\ Len(queue') = Len(queue) - 1
  BY TakeType DEF SharedType
<1>2. Len(queue) \in Nat
  BY DEF SharedType
<1> QED BY <1>1, <1>2, FrameType, WireAssumption DEF SharedType

(* The flag of a stream is what the reader was last told, and a goose      *)
(* event never stands under a timeout.                                     *)
Told(r) ==
  /\ timed_out[r] <=> said[r] = "timeout"
  /\ ~(said[r] = "timeout" /\ shown[r] = "goose")

(* The pass over the deadlines reports the streams of S.                   *)
LEMMA ReportTold ==
  ASSUME SharedType, \A r \in Refs : Told(r), NEW S \in SUBSET Refs, SayTimeout(S),
         timed_out' = [r \in Refs |-> timed_out[r] \/ r \in S]
  PROVE  /\ said' \in [Refs -> {"none", "timeout", "ok"}]
         /\ shown' \in [Refs -> {"none", "goose", "timeout", "ok"}]
         /\ timed_out' \in [Refs -> BOOLEAN]
         /\ \A r \in Refs : Told(r)'
<1>1. /\ said' \in [Refs -> {"none", "timeout", "ok"}]
      /\ shown' \in [Refs -> {"none", "goose", "timeout", "ok"}]
      /\ timed_out' \in [Refs -> BOOLEAN]
  BY DEF SharedType, SayTimeout
<1>2. ASSUME NEW r \in Refs PROVE Told(r)'
  BY DEF SharedType, SayTimeout, Told
<1> QED BY <1>1, <1>2

(* A kept frame: "ok" if the stream was timed out, then the goose event.   *)
LEMMA FrameTold ==
  ASSUME SharedType, \A r \in Refs : Told(r), NEW f \in Frames,
         SayOk(f.ref, timed_out[f.ref]) \/ (said' = said /\ ~timed_out[f.ref]),
         shown' = [shown EXCEPT ![f.ref] = "goose"],
         \/ timed_out' = [timed_out EXCEPT ![f.ref] = FALSE]
         \/ timed_out' = timed_out /\ ~timed_out[f.ref],
         RecordFrame(f)
  PROVE  /\ said' \in [Refs -> {"none", "timeout", "ok"}]
         /\ shown' \in [Refs -> {"none", "goose", "timeout", "ok"}]
         /\ timed_out' \in [Refs -> BOOLEAN]
         /\ tal' \in [Refs -> 0 .. MaxTal] /\ age' \in [Refs -> 0 .. MaxTal]
         /\ \A r \in Refs : Told(r)'
         /\ said' = [said EXCEPT ![f.ref] = Contract!Recovered(f.ref)]
<1>0. f.ref \in Refs /\ f.tal \in 0 .. MaxTal
  BY FrameType
<1>1. /\ said' \in [Refs -> {"none", "timeout", "ok"}]
      /\ shown' \in [Refs -> {"none", "goose", "timeout", "ok"}]
  BY <1>0 DEF SharedType, SayOk
<1>2. timed_out' \in [Refs -> BOOLEAN]
  BY <1>0 DEF SharedType
<1>3. tal' \in [Refs -> 0 .. MaxTal] /\ age' \in [Refs -> 0 .. MaxTal]
  BY <1>0, WireAssumption DEF SharedType, RecordFrame
<1>4. said' = [said EXCEPT ![f.ref] = Contract!Recovered(f.ref)]
  <2>1. timed_out[f.ref] <=> said[f.ref] = "timeout"
    BY <1>0 DEF Told
  <2> QED BY <1>0, <2>1 DEF SharedType, SayOk, Contract!Recovered
<1>5. ASSUME NEW r \in Refs PROVE Told(r)'
  <2>1. Told(r) /\ (timed_out[f.ref] <=> said[f.ref] = "timeout")
    BY <1>0 DEF Told
  <2>2. CASE r # f.ref
    <3>1. timed_out'[r] = timed_out[r]
      BY <1>0, <2>2 DEF SharedType
    <3>2. said'[r] = said[r] /\ shown'[r] = shown[r]
      BY <1>0, <1>4, <2>2 DEF SharedType
    <3> QED BY <2>1, <3>1, <3>2 DEF Told
  <2>3. CASE r = f.ref
    <3>1. ~timed_out'[r]
      BY <1>0, <2>3 DEF SharedType
    <3>2. said'[r] # "timeout"
      BY <1>0, <1>4, <2>3 DEF SharedType, Contract!Recovered
    <3> QED BY <3>1, <3>2 DEF Told
  <2> QED BY <2>2, <2>3
<1> QED BY <1>1, <1>2, <1>3, <1>4, <1>5

-----------------------------------------------------------------------------
(* The C adapter.  A stream without an entry has never timed out.          *)

CStream(r) ==
  /\ Told(r)
  /\ r \in g_streams => Follows(left[r], age[r], tal[r])
  /\ r \notin g_streams => ~timed_out[r]

CInv ==
  /\ SharedType
  /\ pc \in {"check", "wait", "drain", "done"}
  /\ g_streams \in SUBSET Refs
  /\ left \in [Refs -> Countdowns]
  /\ \A r \in Refs : CStream(r)

LEMMA CInit == ASSUME NEW n, C(n)!Init PROVE CInv
<1>1. WireInit
  BY DEF C!Init, C!WireInit, WireInit, C!Contract!Init, Contract!Init
<1>2. SharedType
  BY <1>1, SharedInit DEF C!Init
<1>3. ASSUME NEW r \in Refs PROVE CStream(r)
  BY <1>1 DEF C!Init, WireInit, Contract!Init, CStream, Told
<1> QED BY <1>2, <1>3 DEF C!Init, C!Off, CInv, Countdowns, None

(* A step of the C adapter keeps CInv and is a step of the contract.       *)
LEMMA CStep ==
  ASSUME NEW n, CInv, C(n)!Next
  PROVE  CInv' /\ (Contract!Next \/ UNCHANGED Contract!vars)
<1> USE DEF C!wire, C!output, C!history, C!table
<1>t. /\ SharedType
      /\ pc \in {"check", "wait", "drain", "done"}
      /\ g_streams \in SUBSET Refs
      /\ left \in [Refs -> Countdowns]
      /\ \A r \in Refs : CStream(r)
      /\ \A r \in Refs : Told(r)
  BY DEF CInv, CStream
<1> DEFINE Same == UNCHANGED <<said, shown, tal, age, timed_out, g_streams, left>>
<1>s. ASSUME Same,
             queue' \in Seq(Frames) /\ Len(queue') <= QueueMax /\ sent' \in 0 .. MaxFrames,
             pc' \in {"check", "wait", "drain", "done"}, alive' \in BOOLEAN
      PROVE  CInv'
  <2>1. SharedType'
    BY <1>s, <1>t DEF SharedType
  <2>2. ASSUME NEW r \in Refs PROVE CStream(r)'
    BY <1>s, <1>t DEF CStream, Told
  <2> QED BY <1>s, <1>t, <2>1, <2>2 DEF CInv
<1>1. CASE C(n)!Receive
  <2>1. PICK f \in C(n)!Frames : C(n)!Arrive(f)
    BY <1>1 DEF C!Receive
  <2>2. f \in Frames
    BY DEF C!Frames, Frames
  <2>3. queue' \in Seq(Frames) /\ Len(queue') <= QueueMax /\ sent' \in 0 .. MaxFrames
    BY <1>t, <2>1, <2>2, ArriveType DEF C!Arrive
  <2>4. CInv'
    BY <1>1, <1>s, <1>t, <2>3 DEF C!Receive, SharedType
  <2> QED BY <1>1, <2>4 DEF C!Receive, Contract!vars
<1>2. CASE C(n)!check_supervision
  <2> DEFINE S == C(n)!Overdue
  <2>1. S \in SUBSET Refs
    BY <1>t DEF C!Overdue
  <2>2. SayTimeout(S) /\ timed_out' = [r \in Refs |-> timed_out[r] \/ r \in S]
    BY <1>2 DEF C!check_supervision, C!SayTimeout, SayTimeout
  <2> HIDE DEF S
  <2>3. /\ said' \in [Refs -> {"none", "timeout", "ok"}]
        /\ shown' \in [Refs -> {"none", "goose", "timeout", "ok"}]
        /\ timed_out' \in [Refs -> BOOLEAN]
        /\ \A r \in Refs : Told(r)'
    BY <1>t, <2>1, <2>2, ReportTold
  <2>4. UNCHANGED <<alive, queue, sent, tal, age, g_streams, left>> /\ pc' = "wait"
    BY <1>2 DEF C!check_supervision
  <2>5. S \subseteq g_streams
    BY DEF S, C!Overdue
  <2>6. ASSUME NEW r \in Refs PROVE CStream(r)'
    <3>1. CStream(r) /\ Told(r)'
      BY <1>t, <2>3
    <3>2. r \notin g_streams => ~timed_out'[r]
      BY <2>2, <2>5, <3>1 DEF CStream
    <3> QED BY <2>4, <3>1, <3>2 DEF CStream
  <2>7. CInv'
    BY <1>t, <2>3, <2>4, <2>6 DEF CInv, SharedType
  <2>8. ASSUME NEW r \in S PROVE Contract!Due(r)
    <3>1. r \in g_streams /\ left[r] = 0 /\ ~timed_out[r] /\ r \in Refs
      BY <2>1 DEF S, C!Overdue
    <3>2. CStream(r) /\ tal[r] \in 0 .. MaxTal /\ age[r] \in 0 .. MaxTal
      BY <1>t, <3>1 DEF SharedType
    <3> QED BY <3>1, <3>2, WireAssumption
        DEF CStream, Told, Follows, None, Contract!Due, Contract!Lapsed
  <2>9. Contract!Expire(S)
    BY <2>2, <2>4, <2>8 DEF SayTimeout, Contract!Expire
  <2> QED BY <2>1, <2>7, <2>9 DEF Contract!Next
<1>3. CASE C(n)!Leave \/ C(n)!WaitReady \/ C(n)!Drained
  <2>1. Same /\ UNCHANGED <<alive, queue, sent>> /\ pc' \in {"check", "drain", "done"}
    BY <1>3 DEF C!Leave, C!WaitReady, C!Drained
  <2>2. CInv'
    BY <1>s, <1>t, <2>1 DEF SharedType
  <2> QED BY <2>1, <2>2 DEF Contract!vars
<1>4. CASE C(n)!Filtered
  <2>1. Same /\ UNCHANGED <<alive, sent, pc>> /\ queue # << >> /\ queue' = Tail(queue)
    BY <1>4 DEF C!Filtered
  <2>2. queue' \in Seq(Frames) /\ Len(queue') <= QueueMax
    BY <1>t, <2>1, TakeShared
  <2>3. CInv'
    BY <1>s, <1>t, <2>1, <2>2 DEF SharedType
  <2> QED BY <2>1, <2>3 DEF Contract!vars
<1>5. CASE C(n)!listener
  <2> DEFINE f == Head(queue)
  <2>1. queue # << >> /\ queue' = Tail(queue) /\ UNCHANGED <<alive, sent, pc>>
    BY <1>5 DEF C!listener
  <2>2. queue' \in Seq(Frames) /\ Len(queue') <= QueueMax
    BY <1>t, <2>1, TakeShared
  <2>3. f \in Frames
    BY <1>t, <2>1, TakeType DEF SharedType
  <2>4. f.ref \in Refs /\ f.tal \in 0 .. MaxTal
    BY <2>3, FrameType
  <2>5. RecordFrame(f) /\ shown' = [shown EXCEPT ![f.ref] = "goose"]
    BY <1>5 DEF C!listener, C!RecordFrame, RecordFrame
  <2>6. \/ /\ g_streams' = g_streams \cup {f.ref}
           /\ timed_out' = [timed_out EXCEPT ![f.ref] = FALSE]
           /\ SayOk(f.ref, timed_out[f.ref])
           /\ left' = [left EXCEPT ![f.ref] = Start(f.tal)]
        \/ /\ f.ref \notin g_streams
           /\ UNCHANGED <<g_streams, timed_out, said, left>>
    BY <1>5 DEF C!listener, C!SayOk, SayOk, C!deadline_ms, Start, C!Off, None, C!stream_for
  <2> HIDE DEF f
  <2>7. f.ref \notin g_streams => ~timed_out[f.ref]
    BY <1>t, <2>4 DEF CStream
  <2>8. /\ said' \in [Refs -> {"none", "timeout", "ok"}]
        /\ shown' \in [Refs -> {"none", "goose", "timeout", "ok"}]
        /\ timed_out' \in [Refs -> BOOLEAN]
        /\ tal' \in [Refs -> 0 .. MaxTal] /\ age' \in [Refs -> 0 .. MaxTal]
        /\ \A r \in Refs : Told(r)'
        /\ said' = [said EXCEPT ![f.ref] = Contract!Recovered(f.ref)]
    <3>1. SayOk(f.ref, timed_out[f.ref]) \/ (said' = said /\ ~timed_out[f.ref])
      BY <2>6, <2>7
    <3>2. \/ timed_out' = [timed_out EXCEPT ![f.ref] = FALSE]
          \/ timed_out' = timed_out /\ ~timed_out[f.ref]
      BY <2>6, <2>7
    <3> QED BY <1>t, <2>3, <2>5, <3>1, <3>2, FrameTold
  <2>9. g_streams' \in SUBSET Refs /\ left' \in [Refs -> Countdowns]
    BY <1>t, <2>4, <2>6, StartFollows
  <2>10. ASSUME NEW r \in Refs PROVE CStream(r)'
    <3>1. CStream(r) /\ Told(r)'
      BY <1>t, <2>8
    <3>2. CASE r # f.ref
      <4>1. tal'[r] = tal[r] /\ age'[r] = age[r]
        BY <1>t, <2>4, <2>5, <3>2 DEF RecordFrame, SharedType
      <4>2. left'[r] = left[r] /\ (r \in g_streams' <=> r \in g_streams)
        BY <1>t, <2>4, <2>6, <3>2
      <4>3. timed_out'[r] = timed_out[r]
        BY <1>t, <2>4, <2>6, <3>2 DEF SharedType
      <4> QED BY <3>1, <4>1, <4>2, <4>3 DEF CStream
    <3>3. CASE r = f.ref
      <4>1. tal'[r] = f.tal /\ age'[r] = 0
        BY <1>t, <2>4, <2>5, <3>3 DEF RecordFrame, SharedType
      <4>2. r \in g_streams' => left'[r] = Start(f.tal)
        BY <1>t, <2>4, <2>6, <3>3
      <4>3. r \notin g_streams' => ~timed_out'[r]
        BY <2>6, <2>7, <3>3
      <4> QED BY <2>4, <3>1, <4>1, <4>2, <4>3, StartFollows DEF CStream
    <3> QED BY <3>2, <3>3
  <2>11. CInv'
    BY <1>t, <2>1, <2>2, <2>8, <2>9, <2>10 DEF CInv, SharedType
  <2>12. Contract!Frame(f.ref, f.tal)
    BY <2>1, <2>5, <2>8 DEF RecordFrame, Contract!Frame
  <2> QED BY <2>4, <2>11, <2>12 DEF Contract!Next, Contract!Tals
<1>6. CASE C(n)!Tick
  <2>1. /\ age' = [r \in Refs |-> Contract!Older(age[r])]
        /\ left' = [r \in Refs |-> RunDown(left[r])]
        /\ UNCHANGED <<alive, queue, sent, said, shown, tal, pc, g_streams, timed_out>>
    BY <1>6 DEF C!Tick, C!RecordTick, C!RunDown, RunDown, C!Contract!Older, Contract!Older
  <2>2. ASSUME NEW r \in Refs
        PROVE  age'[r] \in 0 .. MaxTal /\ left'[r] \in Countdowns /\ CStream(r)'
    <3>1. left[r] \in Countdowns /\ age[r] \in 0 .. MaxTal /\ tal[r] \in 0 .. MaxTal /\ CStream(r)
      BY <1>t DEF SharedType
    <3>2. left'[r] = RunDown(left[r]) /\ age'[r] = Contract!Older(age[r]) /\ tal'[r] = tal[r]
      BY <2>1
    <3>3. Told(r)'
      BY <2>1, <3>1 DEF CStream, Told
    <3> QED BY <2>1, <3>1, <3>2, <3>3, TickFollows DEF CStream
  <2>3. age' \in [Refs -> 0 .. MaxTal] /\ left' \in [Refs -> Countdowns]
    BY <2>1, <2>2
  <2>4. CInv'
    BY <1>t, <2>1, <2>2, <2>3 DEF CInv, SharedType
  <2> QED BY <2>1, <2>4 DEF Contract!Next, Contract!Tick
<1>7. CASE C(n)!sig_handler
  <2>1. Same /\ UNCHANGED <<queue, sent, pc>> /\ alive' = FALSE
    BY <1>7 DEF C!sig_handler
  <2>2. CInv'
    BY <1>s, <1>t, <2>1 DEF SharedType
  <2> QED BY <2>1, <2>2 DEF Contract!Next, Contract!Exit
<1> QED BY <1>1, <1>2, <1>3, <1>4, <1>5, <1>6, <1>7 DEF C!Next

-----------------------------------------------------------------------------
(* The Rust adapter: every stream has a deadline, if only None.            *)

RsStream(r) == Told(r) /\ Follows(deadline[r], age[r], tal[r])

RsInv ==
  /\ SharedType
  /\ pc \in {"check", "recv"}
  /\ order \in SUBSET Refs
  /\ deadline \in [Refs -> Countdowns]
  /\ \A r \in Refs : RsStream(r)

LEMMA RsInit == Rs!Init => RsInv
<1> SUFFICES ASSUME Rs!Init PROVE RsInv
  OBVIOUS
<1>1. WireInit
  BY DEF Rs!Init, Rs!WireInit, WireInit, Rs!Contract!Init, Contract!Init
<1>2. SharedType
  BY <1>1, SharedInit DEF Rs!Init
<1>3. ASSUME NEW r \in Refs PROVE RsStream(r)
  BY <1>1 DEF Rs!Init, Rs!None, WireInit, Contract!Init, RsStream, Told, Follows, None
<1> QED BY <1>2, <1>3 DEF Rs!Init, Rs!None, RsInv, Countdowns, None

(* A step of the Rust adapter keeps RsInv and is a step of the contract.   *)
LEMMA RsStep ==
  ASSUME RsInv, Rs!Next
  PROVE  RsInv' /\ (Contract!Next \/ UNCHANGED Contract!vars)
<1> USE DEF Rs!wire, Rs!output, Rs!history, Rs!streams
<1>t. /\ SharedType
      /\ pc \in {"check", "recv"}
      /\ order \in SUBSET Refs
      /\ deadline \in [Refs -> Countdowns]
      /\ \A r \in Refs : RsStream(r)
      /\ \A r \in Refs : Told(r)
  BY DEF RsInv, RsStream
<1> DEFINE Same == UNCHANGED <<said, shown, tal, age, timed_out, order, deadline>>
<1>s. ASSUME Same,
             queue' \in Seq(Frames) /\ Len(queue') <= QueueMax /\ sent' \in 0 .. MaxFrames,
             pc' \in {"check", "recv"}, alive' \in BOOLEAN
      PROVE  RsInv'
  <2>1. SharedType'
    BY <1>s, <1>t DEF SharedType
  <2>2. ASSUME NEW r \in Refs PROVE RsStream(r)'
    BY <1>s, <1>t DEF RsStream, Told
  <2> QED BY <1>s, <1>t, <2>1, <2>2 DEF RsInv
<1>1. CASE Rs!Receive
  <2>1. PICK f \in Rs!Frames : Rs!Arrive(f)
    BY <1>1 DEF Rs!Receive
  <2>2. f \in Frames
    BY DEF Rs!Frames, Frames
  <2>3. queue' \in Seq(Frames) /\ Len(queue') <= QueueMax /\ sent' \in 0 .. MaxFrames
    BY <1>t, <2>1, <2>2, ArriveType DEF Rs!Arrive
  <2>4. RsInv'
    BY <1>1, <1>s, <1>t, <2>3 DEF Rs!Receive, SharedType
  <2> QED BY <1>1, <2>4 DEF Rs!Receive, Contract!vars
<1>2. CASE Rs!Check
  <2> DEFINE S == Rs!Overdue
  <2>1. S \in SUBSET Refs
    BY <1>t DEF Rs!Overdue
  <2>2. SayTimeout(S) /\ timed_out' = [r \in Refs |-> timed_out[r] \/ r \in S]
    BY <1>2 DEF Rs!Check, Rs!SayTimeout, SayTimeout
  <2> HIDE DEF S
  <2>3. /\ said' \in [Refs -> {"none", "timeout", "ok"}]
        /\ shown' \in [Refs -> {"none", "goose", "timeout", "ok"}]
        /\ timed_out' \in [Refs -> BOOLEAN]
        /\ \A r \in Refs : Told(r)'
    BY <1>t, <2>1, <2>2, ReportTold
  <2>4. UNCHANGED <<alive, queue, sent, tal, age, order, deadline>> /\ pc' = "recv"
    BY <1>2 DEF Rs!Check
  <2>5. ASSUME NEW r \in Refs PROVE RsStream(r)'
    BY <1>t, <2>3, <2>4 DEF RsStream
  <2>6. RsInv'
    BY <1>t, <2>3, <2>4, <2>5 DEF RsInv, SharedType
  <2>7. ASSUME NEW r \in S PROVE Contract!Due(r)
    <3>1. deadline[r] = 0 /\ ~timed_out[r] /\ r \in Refs
      BY <2>1 DEF S, Rs!Overdue
    <3>2. RsStream(r) /\ tal[r] \in 0 .. MaxTal /\ age[r] \in 0 .. MaxTal
      BY <1>t, <3>1 DEF SharedType
    <3> QED BY <3>1, <3>2, WireAssumption
        DEF RsStream, Told, Follows, None, Contract!Due, Contract!Lapsed
  <2>8. Contract!Expire(S)
    BY <2>2, <2>4, <2>7 DEF SayTimeout, Contract!Expire
  <2> QED BY <2>1, <2>6, <2>8 DEF Contract!Next
<1>3. CASE Rs!RecvTimeout \/ Rs!RecvError
  <2>1. Same /\ UNCHANGED <<alive, queue, sent>> /\ pc' = "check"
    BY <1>3 DEF Rs!RecvTimeout, Rs!RecvError
  <2>2. RsInv'
    BY <1>s, <1>t, <2>1 DEF SharedType
  <2> QED BY <2>1, <2>2 DEF Contract!vars
<1>4. CASE Rs!Filtered
  <2>1. Same /\ UNCHANGED <<alive, sent>> /\ pc' = "check" /\ queue # << >> /\ queue' = Tail(queue)
    BY <1>4 DEF Rs!Filtered
  <2>2. queue' \in Seq(Frames) /\ Len(queue') <= QueueMax
    BY <1>t, <2>1, TakeShared
  <2>3. RsInv'
    BY <1>s, <1>t, <2>1, <2>2 DEF SharedType
  <2> QED BY <2>1, <2>3 DEF Contract!vars
<1>5. CASE Rs!Frame
  <2> DEFINE f == Head(queue)
  <2>1. queue # << >> /\ queue' = Tail(queue) /\ UNCHANGED <<alive, sent>> /\ pc' = "check"
    BY <1>5 DEF Rs!Frame
  <2>2. queue' \in Seq(Frames) /\ Len(queue') <= QueueMax
    BY <1>t, <2>1, TakeShared
  <2>3. f \in Frames
    BY <1>t, <2>1, TakeType DEF SharedType
  <2>4. f.ref \in Refs /\ f.tal \in 0 .. MaxTal
    BY <2>3, FrameType
  <2>5. RecordFrame(f) /\ shown' = [shown EXCEPT ![f.ref] = "goose"]
    BY <1>5 DEF Rs!Frame, Rs!RecordFrame, RecordFrame
  <2>6. /\ order' = order \cup {f.ref}
        /\ timed_out' = [timed_out EXCEPT ![f.ref] = FALSE]
        /\ SayOk(f.ref, timed_out[f.ref])
        /\ deadline' = [deadline EXCEPT ![f.ref] = Start(f.tal)]
    BY <1>5 DEF Rs!Frame, Rs!SayOk, SayOk, Rs!DeadlineOf, Start, Rs!None, None
  <2> HIDE DEF f
  <2>7. /\ said' \in [Refs -> {"none", "timeout", "ok"}]
        /\ shown' \in [Refs -> {"none", "goose", "timeout", "ok"}]
        /\ timed_out' \in [Refs -> BOOLEAN]
        /\ tal' \in [Refs -> 0 .. MaxTal] /\ age' \in [Refs -> 0 .. MaxTal]
        /\ \A r \in Refs : Told(r)'
        /\ said' = [said EXCEPT ![f.ref] = Contract!Recovered(f.ref)]
    BY <1>t, <2>3, <2>5, <2>6, FrameTold
  <2>8. order' \in SUBSET Refs /\ deadline' \in [Refs -> Countdowns]
    BY <1>t, <2>4, <2>6, StartFollows
  <2>9. ASSUME NEW r \in Refs PROVE RsStream(r)'
    <3>1. RsStream(r) /\ Told(r)'
      BY <1>t, <2>7
    <3>2. CASE r # f.ref
      <4>1. tal'[r] = tal[r] /\ age'[r] = age[r] /\ deadline'[r] = deadline[r]
        BY <1>t, <2>4, <2>5, <2>6, <3>2 DEF RecordFrame, SharedType
      <4> QED BY <3>1, <4>1 DEF RsStream
    <3>3. CASE r = f.ref
      <4>1. tal'[r] = f.tal /\ age'[r] = 0 /\ deadline'[r] = Start(f.tal)
        BY <1>t, <2>4, <2>5, <2>6, <3>3 DEF RecordFrame, SharedType
      <4> QED BY <2>4, <3>1, <4>1, StartFollows DEF RsStream
    <3> QED BY <3>2, <3>3
  <2>10. RsInv'
    BY <1>t, <2>1, <2>2, <2>7, <2>8, <2>9 DEF RsInv, SharedType
  <2>11. Contract!Frame(f.ref, f.tal)
    BY <2>1, <2>5, <2>7 DEF RecordFrame, Contract!Frame
  <2> QED BY <2>4, <2>10, <2>11 DEF Contract!Next, Contract!Tals
<1>6. CASE Rs!Tick
  <2>1. /\ age' = [r \in Refs |-> Contract!Older(age[r])]
        /\ deadline' = [r \in Refs |-> RunDown(deadline[r])]
        /\ UNCHANGED <<alive, queue, sent, said, shown, tal, pc, order, timed_out>>
    BY <1>6 DEF Rs!Tick, Rs!RecordTick, Rs!RunDown, RunDown, Rs!Contract!Older, Contract!Older
  <2>2. ASSUME NEW r \in Refs
        PROVE  age'[r] \in 0 .. MaxTal /\ deadline'[r] \in Countdowns /\ RsStream(r)'
    <3>1. /\ deadline[r] \in Countdowns /\ age[r] \in 0 .. MaxTal /\ tal[r] \in 0 .. MaxTal
          /\ RsStream(r)
      BY <1>t DEF SharedType
    <3>2. /\ deadline'[r] = RunDown(deadline[r])
          /\ age'[r] = Contract!Older(age[r])
          /\ tal'[r] = tal[r]
      BY <2>1
    <3>3. Told(r)'
      BY <2>1, <3>1 DEF RsStream, Told
    <3> QED BY <2>1, <3>1, <3>2, <3>3, TickFollows DEF RsStream
  <2>3. age' \in [Refs -> 0 .. MaxTal] /\ deadline' \in [Refs -> Countdowns]
    BY <2>1, <2>2
  <2>4. RsInv'
    BY <1>t, <2>1, <2>2, <2>3 DEF RsInv, SharedType
  <2> QED BY <2>1, <2>4 DEF Contract!Next, Contract!Tick
<1>7. CASE Rs!Signal
  <2>1. Same /\ UNCHANGED <<queue, sent, pc>> /\ alive' = FALSE
    BY <1>7 DEF Rs!Signal
  <2>2. RsInv'
    BY <1>s, <1>t, <2>1 DEF SharedType
  <2> QED BY <2>1, <2>2 DEF Contract!Next, Contract!Exit
<1> QED BY <1>1, <1>2, <1>3, <1>4, <1>5, <1>6, <1>7 DEF Rs!Next

-----------------------------------------------------------------------------
(* Whichever program runs: its own invariant holds.                        *)

SubscriberInv ==
  /\ room \in Rooms \cup {Unbounded}
  /\ room \in Rooms => CInv
  /\ InRs => RsInv

LEMMA SubscriberInit == Init => SubscriberInv /\ Contract!Init
<1> SUFFICES ASSUME Init PROVE SubscriberInv /\ Contract!Init
  OBVIOUS
<1>1. ASSUME room \in Rooms PROVE CInv
  <2>1. C(room)!Init
    BY <1>1 DEF Init
  <2> QED BY <2>1, CInit
<1>2. RsInv
  BY RsInit DEF Init
<1>3. Contract!Init
  BY DEF Init, Rs!Init, Rs!WireInit, Rs!Contract!Init, Contract!Init
<1> QED BY <1>1, <1>2, <1>3 DEF Init, SubscriberInv

LEMMA SubscriberStep ==
  SubscriberInv /\ [Next]_vars => SubscriberInv' /\ [Contract!Next]_(Contract!vars)
<1> SUFFICES ASSUME SubscriberInv, [Next]_vars
             PROVE  SubscriberInv' /\ (Contract!Next \/ UNCHANGED Contract!vars)
  OBVIOUS
<1>1. ASSUME NEW n \in Rooms, room = n, C(n)!Next, CKeeps
      PROVE  SubscriberInv' /\ (Contract!Next \/ UNCHANGED Contract!vars)
  <2>1. CInv' /\ (Contract!Next \/ UNCHANGED Contract!vars)
    BY <1>1, CStep DEF SubscriberInv
  <2> QED BY <1>1, <2>1, RoomsAssumption DEF SubscriberInv, CKeeps, InRs
<1>2. CASE InRs /\ Rs!Next /\ RsKeeps
  <2>1. RsInv' /\ (Contract!Next \/ UNCHANGED Contract!vars)
    BY <1>2, RsStep DEF SubscriberInv
  <2> QED BY <1>2, <2>1, RoomsAssumption DEF SubscriberInv, RsKeeps, InRs
<1>3. CASE UNCHANGED vars
  <2> USE <1>3 DEF vars, own, wire, output, history
  <2>1. CInv => CInv'
    BY DEF CInv, SharedType, CStream, Told
  <2>2. RsInv => RsInv'
    BY DEF RsInv, SharedType, RsStream, Told
  <2> QED BY <2>1, <2>2 DEF SubscriberInv, InRs, Contract!vars
<1> QED BY <1>1, <1>2, <1>3 DEF Next

(***************************************************************************)
(* In every state of either single-threaded goose-subscriber, the deadline *)
(* of a stream is that of its last frame and its flag is what the reader   *)
(* was last told.                                                          *)
(***************************************************************************)
THEOREM DeadlinesFollow == Spec => []DeadlineFollowsFrames
<1>1. SubscriberInv => DeadlineFollowsFrames
  <2>1. ASSUME NEW n, CInv PROVE C(n)!DeadlineFollowsFrames
    BY <2>1 DEF CInv, CStream, Told, Follows, None, C!DeadlineFollowsFrames, C!Off
  <2>2. RsInv => Rs!DeadlineFollowsFrames
    BY DEF RsInv, RsStream, Told, Follows, None, Rs!DeadlineFollowsFrames, Rs!None
  <2> QED BY <2>1, <2>2 DEF SubscriberInv, DeadlineFollowsFrames
<1> QED BY <1>1, SubscriberInit, SubscriberStep, PTL DEF Spec

(***************************************************************************)
(* Neither prints a goose event of a gocbRef it last said to be timed out. *)
(***************************************************************************)
THEOREM OkComesFirst == Spec => []OkBeforeGoose
<1>1. SubscriberInv => OkBeforeGoose
  BY DEF SubscriberInv, InRs, CInv, RsInv, CStream, RsStream, Told, OkBeforeGoose
<1> QED BY <1>1, SubscriberInit, SubscriberStep, PTL DEF Spec

(***************************************************************************)
(* Both keep the safety part of the supervision contract: no "timeout" is  *)
(* stale or doubled, and "ok" ends exactly the timeouts, also when the     *)
(* table of the C adapter is too small for the streams on the wire.        *)
(***************************************************************************)
THEOREM LoopsKeepContract == Spec => ContractSafe
BY SubscriberInit, SubscriberStep, PTL DEF Spec, ContractSafe, Contract!SafeSpec

-----------------------------------------------------------------------------
(* The Go program.                                                         *)

USE DEF Off, Fired, Gens

-----------------------------------------------------------------------------

LEMMA TypeInit == GoInit => TypeOK
<1> SUFFICES ASSUME GoInit PROVE TypeOK
  OBVIOUS
<1> USE WireAssumption, GenAssumption
<1>1. WireTypeOK
  <2>1. queue \in Seq(Frames) /\ Len(queue) <= QueueMax
    BY DEF GoInit, WireInit
  <2>2. Contract!TypeOK
    BY DEF GoInit, WireInit, Contract!Init, Contract!TypeOK, Contract!Tals, Contract!States
  <2> QED BY <2>1, <2>2 DEF GoInit, WireInit, WireTypeOK
<1> QED BY <1>1 DEF GoInit, TypeOK

LEMMA TypeStep == TypeOK /\ [GoNext]_goVars => TypeOK'
<1> SUFFICES ASSUME TypeOK, [GoNext]_goVars PROVE TypeOK'
  OBVIOUS
<1> USE WireAssumption, GenAssumption
<1> USE DEF TypeOK, WireTypeOK, Contract!TypeOK, Contract!Tals, Contract!States
<1>0. cur.ref \in Refs /\ cur.tal \in 0 .. MaxTal
  BY FrameType
<1>1. CASE Receive
  <2> PICK f \in Frames : Arrive(f)
    BY <1>1 DEF Receive
  <2>1. queue' \in Seq(Frames) /\ Len(queue') <= QueueMax
    BY PutType DEF Arrive
  <2>2. sent' \in 0 .. MaxFrames
    BY DEF Arrive
  <2> QED BY <1>1, <2>1, <2>2 DEF Receive, output, history, main, supervisor
<1>2. CASE ReadFrame
  <2>1. queue' \in Seq(Frames) /\ Len(queue') <= QueueMax
    BY <1>2, TakeType DEF ReadFrame
  <2>2. goPc' \in {"read", "supervise", "emit"} /\ cur' \in Frames
    BY <1>2, TakeType DEF ReadFrame, main
  <2> QED BY <1>2, <2>1, <2>2 DEF ReadFrame, output, history, supervisor
<1>3. CASE Supervise
  <2>1. Stop(cur.ref) \in [Gens -> {Fired, Off} \cup (0 .. MaxTal)]
    BY <1>0 DEF Stop
  <2> DEFINE g == gen[cur.ref] + 1
  <2>a. g \in Gens
    BY <1>0, <1>3 DEF Supervise
  <2>b. [Stop(cur.ref) EXCEPT ![g] = cur.tal] \in [Gens -> {Fired, Off} \cup (0 .. MaxTal)]
    BY <1>0, <2>1, <2>a
  <2>2. timer' \in [Refs -> [Gens -> {Fired, Off} \cup (0 .. MaxTal)]]
    BY <1>0, <1>3, <2>1, <2>b DEF Supervise
  <2>c. gen' \in [Refs -> 0 .. MaxGen]
    BY <1>0, <1>3, <2>a DEF Supervise
  <2>3. held' \in [Refs -> 0 .. MaxGen]
    <3>1. held' = held \/ held' = [held EXCEPT ![cur.ref] = g]
      BY <1>3 DEF Supervise
    <3>2. g \in 0 .. MaxGen
      BY <2>a
    <3> HIDE DEF g
    <3>3. [held EXCEPT ![cur.ref] = g] \in [Refs -> 0 .. MaxGen]
      BY <1>0, <3>2
    <3> QED BY <3>1, <3>3
  <2>4. said' \in [Refs -> {"none", "timeout", "ok"}]
    BY <1>0, <1>3 DEF Supervise, SayOk
  <2>5. shown' \in [Refs -> {"none", "goose", "timeout", "ok"}]
    BY <1>0, <1>3 DEF Supervise
  <2>6. tal' \in [Refs -> 0 .. MaxTal] /\ age' \in [Refs -> 0 .. MaxTal]
    BY <1>0, <1>3 DEF Supervise, RecordFrame
  <2> QED BY <1>3, <2>2, <2>c, <2>3, <2>4, <2>5, <2>6 DEF Supervise, wire
<1>4. CASE EmitGoose
  BY <1>0, <1>4 DEF EmitGoose, wire, history, supervisor
<1>5. ASSUME NEW r \in Refs, NEW g \in Gens, Fire(r, g) PROVE TypeOK'
  BY <1>5 DEF Fire, wire, output, history, main
<1>6. ASSUME NEW r \in Refs, NEW g \in Gens, Callback(r, g) PROVE TypeOK'
  <2>1. timer' \in [Refs -> [Gens -> {Fired, Off} \cup (0 .. MaxTal)]]
    BY <1>6 DEF Callback
  <2>2. /\ timedOut' \in [Refs -> BOOLEAN]
        /\ said' \in [Refs -> {"none", "timeout", "ok"}]
        /\ shown' \in [Refs -> {"none", "goose", "timeout", "ok"}]
    BY <1>6 DEF Callback, SayTimeout, output
  <2> QED BY <1>6, <2>1, <2>2 DEF Callback, wire, history, main
<1>7. CASE GoTick
  <2>1. age' \in [Refs -> 0 .. MaxTal] /\ tal' = tal
    BY <1>7 DEF GoTick, RunDown, RecordTick, Contract!Older
  <2>2. timer' \in [Refs -> [Gens -> {Fired, Off} \cup (0 .. MaxTal)]]
    BY <1>7 DEF GoTick, RunDown
  <2> QED BY <1>7, <2>1, <2>2 DEF GoTick, wire, output, main
<1>8. CASE Signal
  BY <1>8 DEF Signal, wire, output, history, main, supervisor
<1>9. CASE UNCHANGED goVars
  BY <1>9 DEF goVars, wire, output, history, main, supervisor
<1> QED BY <1>1, <1>2, <1>3, <1>4, <1>5, <1>6, <1>7, <1>8, <1>9 DEF GoNext

(***************************************************************************)
(* Type correctness of the Go goose-subscriber.                            *)
(***************************************************************************)
THEOREM TypeCorrect == GoSpec => []TypeOK
BY TypeInit, TypeStep, PTL DEF GoSpec

-----------------------------------------------------------------------------

(* The conjuncts of TimersFollowFrames, for one timer and for one stream.  *)
TimerInv(r, g) ==
  /\ Superseded(r, g)
  /\ g = gen[r] => Counts(r, g)
  /\ g = gen[r] /\ g # held[r] => timer[r][g] = Off

FlagInv(r) == timedOut[r] <=> said[r] = "timeout"

LEMMA Split ==
  TimersFollowFrames <=>
    \A r \in Refs : (\A g \in Gens : TimerInv(r, g)) /\ held[r] <= gen[r] /\ FlagInv(r)
BY DEF TimersFollowFrames, TimerInv, FlagInv

LEMMA TimersInit == GoInit => TimersFollowFrames
<1> SUFFICES ASSUME GoInit, NEW r \in Refs
             PROVE (\A g \in Gens : TimerInv(r, g)) /\ held[r] <= gen[r] /\ FlagInv(r)
  BY Split
<1>1. \A g \in Gens : TimerInv(r, g)
  BY GenAssumption DEF GoInit, TimerInv, Superseded, Counts
<1>2. held[r] <= gen[r]
  BY DEF GoInit
<1>3. FlagInv(r)
  BY DEF GoInit, WireInit, Contract!Init, FlagInv
<1> QED BY <1>1, <1>2, <1>3

LEMMA TimersStep == TypeOK /\ TimersFollowFrames /\ [GoNext]_goVars => TimersFollowFrames'
<1> SUFFICES ASSUME TypeOK, TimersFollowFrames, [GoNext]_goVars, NEW r \in Refs
             PROVE  ((\A g \in Gens : TimerInv(r, g)) /\ held[r] <= gen[r] /\ FlagInv(r))'
  BY Split DEF TimersFollowFrames, TimerInv, FlagInv
<1>t. /\ cur \in Frames
      /\ gen \in [Refs -> 0 .. MaxGen]
      /\ held \in [Refs -> 0 .. MaxGen]
      /\ timedOut \in [Refs -> BOOLEAN]
      /\ timer \in [Refs -> [Gens -> {Fired, Off} \cup (0 .. MaxTal)]]
      /\ said \in [Refs -> {"none", "timeout", "ok"}]
      /\ tal \in [Refs -> 0 .. MaxTal]
      /\ age \in [Refs -> 0 .. MaxTal]
  BY DEF TypeOK, WireTypeOK, Contract!TypeOK, Contract!Tals, Contract!States
<1>a. (\A g \in Gens : TimerInv(r, g)) /\ held[r] <= gen[r] /\ FlagInv(r)
  BY Split
<1> USE WireAssumption, GenAssumption
<1>c. cur.ref \in Refs /\ cur.tal \in 0 .. MaxTal
  BY <1>t, FrameType
<1> DEFINE Same == /\ gen'[r] = gen[r] /\ held'[r] = held[r] /\ timer'[r] = timer[r]
                   /\ tal'[r] = tal[r] /\ age'[r] = age[r]
           Quiet == timedOut'[r] = timedOut[r] /\ said'[r] = said[r]
<1>s. ASSUME Same, Quiet
      PROVE  ((\A g \in Gens : TimerInv(r, g)) /\ held[r] <= gen[r] /\ FlagInv(r))'
  BY <1>s, <1>a DEF TimerInv, Superseded, Counts, FlagInv
<1>1. CASE Receive
  BY <1>1, <1>s DEF Receive, output, history, main, supervisor
<1>2. CASE ReadFrame
  BY <1>2, <1>s DEF ReadFrame, output, history, supervisor
<1>3. CASE Supervise
  <2>1. CASE r # cur.ref
    BY <1>3, <1>s, <1>t, <1>c, <2>1 DEF Supervise, SayOk, RecordFrame
  <2>2. CASE r = cur.ref
    <3> DEFINE n == gen[r] + 1
    <3>1. n \in Gens /\ gen'[r] = n
      BY <1>3, <1>t, <2>2 DEF Supervise
    <3>2. tal'[r] = cur.tal /\ age'[r] = 0
      BY <1>3, <1>t, <2>2 DEF Supervise, RecordFrame
    <3>3. \A g \in Gens : Stop(r)[g] = IF g = held[r] /\ timer[r][g] # Fired THEN Off ELSE timer[r][g]
      BY DEF Stop
    <3>4. \A g \in Gens : g # n => timer'[r][g] = Stop(r)[g]
      <4>1. Stop(r) \in [Gens -> {Fired, Off} \cup (0 .. MaxTal)]
        BY <1>t DEF Stop
      <4>2. timer'[r] = Stop(r) \/ timer'[r] = [Stop(r) EXCEPT ![n] = cur.tal]
        BY <1>3, <1>t, <2>2 DEF Supervise
      <4> QED BY <4>1, <4>2
    <3>5. \/ cur.tal = 0 /\ timer'[r][n] = Stop(r)[n] /\ held'[r] = held[r]
          \/ cur.tal > 0 /\ timer'[r][n] = cur.tal /\ held'[r] = n
      <4>1. Stop(r) \in [Gens -> {Fired, Off} \cup (0 .. MaxTal)]
        BY <1>t DEF Stop
      <4>2. \/ cur.tal = 0 /\ timer'[r] = Stop(r) /\ held'[r] = held[r]
            \/ cur.tal > 0 /\ timer'[r] = [Stop(r) EXCEPT ![n] = cur.tal] /\ held'[r] = n
        BY <1>3, <1>t, <2>2 DEF Supervise
      <4> QED BY <3>1, <4>1, <4>2
    <3>6. held[r] <= gen[r] /\ held[r] \in Nat /\ gen[r] \in Nat
      BY <1>a, <1>t
    <3>7. timer[r][n] = Off /\ Stop(r)[n] = Off
      BY <1>a, <3>1, <3>3, <3>6 DEF TimerInv, Superseded
    <3>8. \A g \in Gens : TimerInv(r, g)'
      <4> SUFFICES ASSUME NEW g \in Gens PROVE TimerInv(r, g)'
        OBVIOUS
      <4>0. TimerInv(r, g)
        BY <1>a
      <4>1. CASE g = n
        BY <1>c, <3>1, <3>2, <3>5, <3>6, <3>7, <4>1 DEF TimerInv, Superseded, Counts
      <4>2. CASE g > n
        BY <3>1, <3>3, <3>4, <3>6, <4>0, <4>2 DEF TimerInv, Superseded
      <4>3. CASE g < n
        <5>1. Stop(r)[g] \in {Off, Fired}
          <6>1. CASE g = gen[r]
            BY <3>3, <4>0, <6>1 DEF TimerInv
          <6>2. CASE g < gen[r]
            BY <3>3, <4>0, <6>2 DEF TimerInv, Superseded
          <6> QED BY <3>6, <4>3, <6>1, <6>2
        <5> QED BY <3>1, <3>4, <3>6, <4>3, <5>1 DEF TimerInv, Superseded
      <4> QED BY <3>6, <4>1, <4>2, <4>3
    <3>9. held'[r] <= gen'[r]
      BY <3>1, <3>5, <3>6
    <3>10. FlagInv(r)'
      BY <1>3, <1>a, <1>t, <2>2 DEF Supervise, SayOk, FlagInv
    <3> QED BY <3>8, <3>9, <3>10
  <2> QED BY <2>1, <2>2
<1>4. CASE EmitGoose
  BY <1>4, <1>s DEF EmitGoose, history, supervisor
<1>5. ASSUME NEW s \in Refs, NEW k \in Gens, Fire(s, k)
      PROVE  ((\A g \in Gens : TimerInv(r, g)) /\ held[r] <= gen[r] /\ FlagInv(r))'
  <2>0. /\ gen' = gen /\ held' = held /\ timedOut' = timedOut
        /\ said' = said /\ tal' = tal /\ age' = age
    BY <1>5 DEF Fire, output, history
  <2>1. CASE r # s
    BY <1>5, <1>s, <1>t, <2>0, <2>1 DEF Fire
  <2>2. CASE r = s
    <3>1. timer[r][k] = 0 /\ \A g \in Gens : timer'[r][g] = IF g = k THEN Fired ELSE timer[r][g]
      BY <1>5, <1>t, <2>2 DEF Fire
    <3>2. \A g \in Gens : TimerInv(r, g)'
      <4> SUFFICES ASSUME NEW g \in Gens PROVE TimerInv(r, g)'
        OBVIOUS
      <4>1. TimerInv(r, g)
        BY <1>a
      <4>2. gen[r] \in Nat /\ tal[r] \in 0 .. MaxTal /\ age[r] \in 0 .. MaxTal
        BY <1>t
      <4> QED BY <2>0, <3>1, <4>1, <4>2 DEF TimerInv, Superseded, Counts
    <3> QED BY <1>a, <2>0, <3>2 DEF FlagInv
  <2> QED BY <2>1, <2>2
<1>6. ASSUME NEW s \in Refs, NEW k \in Gens, Callback(s, k)
      PROVE  ((\A g \in Gens : TimerInv(r, g)) /\ held[r] <= gen[r] /\ FlagInv(r))'
  <2>0. gen' = gen /\ held' = held /\ tal' = tal /\ age' = age
    BY <1>6 DEF Callback, history
  <2>1. CASE r # s
    BY <1>6, <1>s, <1>t, <2>0, <2>1 DEF Callback, SayTimeout, output
  <2>2. CASE r = s
    <3>1. \A g \in Gens : timer'[r][g] = IF g = k THEN Off ELSE timer[r][g]
      BY <1>6, <1>t, <2>2 DEF Callback
    <3>2. \A g \in Gens : TimerInv(r, g)'
      <4> SUFFICES ASSUME NEW g \in Gens PROVE TimerInv(r, g)'
        OBVIOUS
      <4>1. TimerInv(r, g)
        BY <1>a
      <4> QED BY <2>0, <3>1, <4>1 DEF TimerInv, Superseded, Counts
    <3>3. FlagInv(r)'
      BY <1>6, <1>a, <1>t, <2>2 DEF Callback, SayTimeout, FlagInv, output
    <3> QED BY <1>a, <2>0, <3>2, <3>3
  <2> QED BY <2>1, <2>2
<1>7. CASE GoTick
  <2>0. gen' = gen /\ held' = held /\ timedOut' = timedOut /\ said' = said /\ tal' = tal
    BY <1>7 DEF GoTick, RunDown, RecordTick, output
  <2>1. age'[r] = IF age[r] < MaxTal THEN age[r] + 1 ELSE age[r]
    BY <1>7, <1>t DEF GoTick, RunDown, RecordTick, Contract!Older
  <2>2. \A g \in Gens : timer'[r][g] = IF timer[r][g] > 0 THEN timer[r][g] - 1 ELSE timer[r][g]
    BY <1>7, <1>t DEF GoTick, RunDown
  <2>3. \A g \in Gens : TimerInv(r, g)'
    <3> SUFFICES ASSUME NEW g \in Gens PROVE TimerInv(r, g)'
      OBVIOUS
    <3>1. TimerInv(r, g)
      BY <1>a
    <3>2. /\ gen[r] \in Nat /\ tal[r] \in 0 .. MaxTal /\ age[r] \in 0 .. MaxTal
          /\ timer[r][g] \in {Fired, Off} \cup (0 .. MaxTal)
      BY <1>t
    <3> QED BY <2>0, <2>1, <2>2, <3>1, <3>2 DEF TimerInv, Superseded, Counts
  <2> QED BY <1>a, <2>0, <2>3 DEF FlagInv
<1>8. CASE Signal
  BY <1>8, <1>s DEF Signal, output, history, supervisor
<1>9. CASE UNCHANGED goVars
  BY <1>9, <1>s DEF goVars, output, history, supervisor
<1> QED BY <1>1, <1>2, <1>3, <1>4, <1>5, <1>6, <1>7, <1>8, <1>9 DEF GoNext

(***************************************************************************)
(* The generation check is enough: TimersFollowFrames holds always.        *)
(***************************************************************************)
THEOREM TimersFollow == GoSpec => []TimersFollowFrames
BY TypeInit, TypeStep, TimersInit, TimersStep, PTL DEF GoSpec

-----------------------------------------------------------------------------

LEMMA ContractInit == GoInit => Contract!Init
BY DEF GoInit, WireInit

LEMMA ContractStep ==
  TypeOK /\ TimersFollowFrames /\ [GoNext]_goVars => [Contract!Next]_(Contract!vars)
<1> SUFFICES ASSUME TypeOK, TimersFollowFrames, [GoNext]_goVars
             PROVE  Contract!Next \/ UNCHANGED Contract!vars
  OBVIOUS
<1> USE WireAssumption, GenAssumption
<1>t. /\ cur \in Frames
      /\ gen \in [Refs -> 0 .. MaxGen]
      /\ timedOut \in [Refs -> BOOLEAN]
      /\ timer \in [Refs -> [Gens -> {Fired, Off} \cup (0 .. MaxTal)]]
      /\ said \in [Refs -> {"none", "timeout", "ok"}]
      /\ tal \in [Refs -> 0 .. MaxTal]
      /\ age \in [Refs -> 0 .. MaxTal]
  BY DEF TypeOK, WireTypeOK, Contract!TypeOK, Contract!Tals, Contract!States
<1>a. \A r \in Refs : (\A g \in Gens : TimerInv(r, g)) /\ FlagInv(r)
  BY Split
<1>c. cur.ref \in Refs /\ cur.tal \in 0 .. MaxTal
  BY <1>t, FrameType
<1>1. CASE Receive \/ ReadFrame \/ EmitGoose \/ UNCHANGED goVars
  BY <1>1 DEF Receive, ReadFrame, EmitGoose, goVars, output, history, Contract!vars
<1>2. CASE Supervise
  <2>1. said' = [said EXCEPT ![cur.ref] = Contract!Recovered(cur.ref)]
    BY <1>2, <1>a, <1>c, <1>t DEF Supervise, SayOk, FlagInv, Contract!Recovered
  <2>2. Contract!Frame(cur.ref, cur.tal)
    BY <1>2, <2>1 DEF Supervise, RecordFrame, Contract!Frame
  <2> QED BY <1>c, <2>2 DEF Contract!Next, Contract!Tals
<1>3. ASSUME NEW r \in Refs, NEW g \in Gens, Fire(r, g)
      PROVE  UNCHANGED Contract!vars
  BY <1>3 DEF Fire, output, history, Contract!vars
<1>4. ASSUME NEW r \in Refs, NEW g \in Gens, Callback(r, g)
      PROVE  Contract!Next \/ UNCHANGED Contract!vars
  <2>1. CASE Stale(r, g)
    BY <1>4, <2>1 DEF Callback, output, history, Contract!vars
  <2>2. CASE ~Stale(r, g)
    <3>1. said[r] # "timeout"
      BY <1>a, <2>2 DEF Stale, FlagInv
    <3>2. tal[r] > 0 /\ age[r] >= tal[r]
      BY <1>4, <1>a, <2>2 DEF Callback, Stale, TimerInv, Counts
    <3>3. \A s \in {r} : Contract!Due(s)
      BY <3>1, <3>2 DEF Contract!Due, Contract!Lapsed
    <3>4. Contract!Expire({r})
      BY <1>4, <2>2, <3>3 DEF Callback, SayTimeout, history, Contract!Expire
    <3> QED BY <3>4 DEF Contract!Next
  <2> QED BY <2>1, <2>2
<1>5. CASE GoTick
  BY <1>5 DEF GoTick, RecordTick, output, Contract!Next, Contract!Tick
<1>6. CASE Signal
  BY <1>6 DEF Signal, output, history, Contract!Next, Contract!Exit
<1> QED BY <1>1, <1>2, <1>3, <1>4, <1>5, <1>6 DEF GoNext

(***************************************************************************)
(* The Go goose-subscriber keeps the safety part of the supervision        *)
(* contract: whatever the interleaving of frames, timers and callbacks, no *)
(* "timeout" is stale or doubled, and "ok" ends exactly the timeouts.      *)
(***************************************************************************)
THEOREM KeepsContract == GoSpec => Contract!SafeSpec
<1>1. GoInit => Contract!Init
  BY ContractInit
<1>2. TypeOK /\ TimersFollowFrames /\ [GoNext]_goVars => [Contract!Next]_(Contract!vars)
  BY ContractStep
<1> QED BY <1>1, <1>2, TypeCorrect, TimersFollow, PTL DEF GoSpec, Contract!SafeSpec
=============================================================================
