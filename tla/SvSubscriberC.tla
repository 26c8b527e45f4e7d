---------------------------- MODULE SvSubscriberC ----------------------------
(***************************************************************************)
(* The libiec61850 sv-subscriber: the outer loop prints a stats line that  *)
(* is due and waits for the socket, the inner loop reads until the socket  *)
(* is empty.  The library hands an ASDU to listener once for every         *)
(* SVSubscriber of the frame's APPID; the program makes one per APPID, up  *)
(* to MAX_STREAMS of them, and has as many entries for streams.            *)
(***************************************************************************)
EXTENDS SvReceiving

CONSTANT MAX_STREAMS

VARIABLES
  pc,           (* "outer", "wait", "inner".                               *)
  subscribers,  (* APPIDs that have an SVSubscriber (known[]).             *)
  g_running

vars == <<input, running, next_stats, cnt, known, stats, accepted, pc, subscribers, g_running>>

TypeOK ==
  /\ ReceivingTypeOK
  /\ pc \in {"outer", "wait", "inner"}
  /\ subscribers \in Seq(AppIds)
  /\ Len(subscribers) <= MAX_STREAMS /\ Len(known) <= MAX_STREAMS
  /\ g_running \in BOOLEAN

OwnInit == subscribers = << >> /\ g_running = TRUE

Init == ReceivingInit /\ OwnInit /\ pc = "outer"

-----------------------------------------------------------------------------

(* When the next stats line is due.                                        *)
NextStats == next_stats + Second

StatsDue == now >= next_stats

(* while (g_running), and a stats line if it is due.                       *)
Outer ==
  /\ running
  /\ pc = "outer"
  /\ IF ~g_running
       THEN running' = FALSE /\ UNCHANGED <<pc, stats, next_stats>>
       ELSE /\ pc' = "wait"
            /\ UNCHANGED running
            /\ IF StatsDue
                 THEN EmitStats /\ next_stats' = NextStats
                 ELSE UNCHANGED <<stats, next_stats>>
  /\ UNCHANGED <<input, cnt, known, accepted, subscribers, g_running>>

(* EthernetHandleSet_waitReady.                                            *)
WaitReady ==
  /\ running
  /\ pc = "wait"
  /\ pc' = IF rx = << >> THEN "outer" ELSE "inner"
  /\ UNCHANGED <<input, running, next_stats, cnt, known, stats, accepted, subscribers,
                 g_running>>

(* The socket is empty.                                                    *)
Emptied ==
  /\ running
  /\ pc = "inner"
  /\ rx = << >>
  /\ pc' = "outer"
  /\ UNCHANGED <<input, running, next_stats, cnt, known, stats, accepted, subscribers,
                 g_running>>

Full(table) == Len(table) = MAX_STREAMS

(* stream_for: the table, with an entry for s if there is room.            *)
stream_for(table, s) ==
  IF s \in Range(table) \/ Full(table) THEN table ELSE Append(table, s)

(* listener, for one ASDU of a frame of APPID app: a stream without an     *)
(* entry is printed and not counted.                                       *)
listener(st, app, a) ==
  LET s == <<app, a.sv>>
      table == stream_for(st.known, s)
  IN [known |-> table,
      cnt |-> IF s \in Range(table)
              THEN [st.cnt EXCEPT ![s] = countC(SmpCntWrap[a.sv], @, a.cnt)]
              ELSE st.cnt]

(* Mutant: a new SVSubscriber for every frame.                             *)
RegisterMutant(app) == IF Full(subscribers) THEN subscribers ELSE Append(subscribers, app)

(* The APPID gets its SVSubscriber.                                        *)
Register(app) ==
  IF app \in Range(subscribers) \/ Full(subscribers) THEN subscribers
  ELSE Append(subscribers, app)

(* SVReceiver_handleL2Message: each ASDU goes to each SVSubscriber of the  *)
(* APPID.                                                                  *)
handleL2Message(f, subs) ==
  LET own == Cardinality({i \in DOMAIN subs : subs[i] = f.app})
      calls == own * Len(f.asdus)
      after[n \in 0 .. calls] ==
        IF n = 0 THEN [known |-> known, cnt |-> cnt]
        ELSE listener(after[n - 1], f.app, f.asdus[((n - 1) \div own) + 1])
  IN  after[calls]

(* The inner loop with a frame that passes the filters.                    *)
Inner ==
  /\ running
  /\ pc = "inner"
  /\ rx # << >>
  /\ rx' = Tail(rx)
  /\ LET f == Head(rx)
         st == handleL2Message(f, Register(f.app))
     IN /\ subscribers' = Register(f.app)
        /\ known' = st.known
        /\ cnt' = st.cnt
        /\ Accept(f)
  /\ UNCHANGED <<now, arrived, running, next_stats, stats, pc, g_running>>

sig_handler ==
  /\ running
  /\ g_running
  /\ g_running' = FALSE
  /\ UNCHANGED <<input, running, next_stats, cnt, known, stats, accepted, pc, subscribers>>

Receive ==
  /\ Arrive
  /\ UNCHANGED <<now, running, next_stats, cnt, known, stats, accepted, pc, subscribers,
                 g_running>>

Tick ==
  /\ Clock
  /\ UNCHANGED <<rx, arrived, running, next_stats, cnt, known, stats, accepted, pc,
                 subscribers, g_running>>

Next == Outer \/ WaitReady \/ Emptied \/ Inner \/ sig_handler \/ Receive \/ Tick

(* The steps of the program.                                               *)
Main == Outer \/ WaitReady \/ Emptied \/ Inner

(* The program runs and time passes.                                       *)
Fairness == WF_vars(Main) /\ WF_vars(Tick)

Spec == Init /\ [][Next]_vars /\ Fairness

-----------------------------------------------------------------------------

(***************************************************************************)
(* A full table costs whole streams and nothing else: a stream is counted  *)
(* completely, or it found the table full with its first ASDU and is never *)
(* counted.                                                                *)
(***************************************************************************)
AllOrNothing == \A s \in Streams : cnt[s].received \in {0, accepted[s]}
=============================================================================
