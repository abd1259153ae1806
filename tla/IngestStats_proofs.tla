-------------------------- MODULE IngestStats_proofs --------------------------
(***************************************************************************)
(* How events come in, for any number of writers, channels, batches,       *)
(* hosts, and any limit and window of the listener.                        *)
(*                                                                         *)
(* The counters never over-report. A session may hold a counter read long  *)
(* ago, so the invariant bounds what it holds by what is committed plus    *)
(* its own events: other transactions' commits only raise that bound.      *)
(* Without overlap the counters equal the events.                          *)
(*                                                                         *)
(* The rate limiter accepts no more than its limit in a window and refuses *)
(* nothing below it. Both follow from what the bucket stands for: the      *)
(* recent end of the accepted datagrams, the rest of which have left the   *)
(* window.                                                                 *)
(***************************************************************************)
EXTENDS IngestStats, SyslogServer, TLAPS

(* Type correctness is inductive: one step per disjunct of Next.           *)
LEMMA TypeStep == TypeOK /\ [Next]_vars => TypeOK'
<1> SUFFICES ASSUME TypeOK, [Next]_vars PROVE TypeOK'
  OBVIOUS
<1> USE BatchesAssumption
<1>1. ASSUME NEW w \in Writers, NEW b \in Batches, StartBatch(w, b) PROVE TypeOK'
  BY <1>1 DEF TypeOK, StartBatch
<1>2. ASSUME NEW w \in Writers, InsertEvent(w) PROVE TypeOK'
  <2>1. Head(todo[w]) \in Channels
    BY <1>2 DEF TypeOK, InsertEvent
  <2>2. added' \in [Writers -> [Channels -> Nat]]
    BY <1>2, <2>1 DEF TypeOK, InsertEvent
  <2>3. sent' \in [Writers -> [Channels -> Count0]]
    BY <1>2 DEF TypeOK, InsertEvent, Send
  <2>4. dirty' \in [Writers -> SUBSET Channels] /\ owner' \in [Channels -> Writers \cup {Nobody}]
    BY <1>2 DEF TypeOK, InsertEvent, Send
  <2>5. \A v \in Writers : pc'[v] \in {"bump", "insert"} => todo'[v] # <<>>
    BY <1>2 DEF TypeOK, InsertEvent
  <2> QED
    BY <1>2, <2>2, <2>3, <2>4, <2>5 DEF TypeOK, InsertEvent
<1>3. ASSUME NEW w \in Writers, BumpKnown(w) PROVE TypeOK'
  <2> DEFINE c == Head(todo[w])
  <2>1. c \in Channels /\ Tail(todo[w]) \in Seq(Channels)
    BY <1>3 DEF TypeOK, BumpKnown
  <2>2. Count(w, c) + 1 \in Count0
    BY <1>3, <2>1 DEF TypeOK, BumpKnown, Count, Count0, Null
  <2>3. known' \in [Writers -> [Channels -> Count0]]
    BY <1>3, <2>1, <2>2 DEF TypeOK, BumpKnown
  <2>4. dirty' \in [Writers -> SUBSET Channels] /\ todo' \in [Writers -> Seq(Channels)]
    BY <1>3, <2>1 DEF TypeOK, BumpKnown
  <2>5. \A v \in Writers : pc'[v] \in {"bump", "insert"} => todo'[v] # <<>>
    BY <1>3 DEF TypeOK, BumpKnown
  <2> QED
    BY <1>3, <2>3, <2>4, <2>5 DEF TypeOK, BumpKnown
<1>4. ASSUME NEW w \in Writers, BumpMissing(w) PROVE TypeOK'
  BY <1>4 DEF TypeOK, BumpMissing
<1>5. ASSUME NEW w \in Writers, InsertCounter(w) PROVE TypeOK'
  <2> DEFINE c == Head(todo[w])
  <2>1. c \in Channels /\ Tail(todo[w]) \in Seq(Channels)
    BY <1>5 DEF TypeOK, InsertCounter
  <2>2. known' \in [Writers -> [Channels -> Count0]] /\ sent' \in [Writers -> [Channels -> Count0]]
    BY <1>5, <2>1 DEF TypeOK, InsertCounter, Count0
  <2>3. /\ dirty' \in [Writers -> SUBSET Channels]
        /\ owner' \in [Channels -> Writers \cup {Nobody}]
        /\ todo' \in [Writers -> Seq(Channels)]
    BY <1>5, <2>1 DEF TypeOK, InsertCounter
  <2>4. \A v \in Writers : pc'[v] \in {"bump", "insert"} => todo'[v] # <<>>
    BY <1>5 DEF TypeOK, InsertCounter
  <2> QED
    BY <1>5, <2>2, <2>3, <2>4 DEF TypeOK, InsertCounter
<1>6. ASSUME NEW w \in Writers, Release(w), Reset(w), UNCHANGED <<started, overlapped>>, fails' \in Nat,
             events' \in [Channels -> Nat], counts' \in [Channels -> Count0]
      PROVE TypeOK'
  BY <1>6 DEF TypeOK, Release, Reset, Zero, Nothing, Count0
<1>7. ASSUME NEW w \in Writers, CommitBatch(w) PROVE TypeOK'
  <2>1. events' \in [Channels -> Nat]
    BY <1>7 DEF TypeOK, CommitBatch
  <2>2. counts' \in [Channels -> Count0]
    BY <1>7 DEF TypeOK, CommitBatch, FinalCount
  <2> QED
    BY <1>6, <1>7, <2>1, <2>2 DEF TypeOK, CommitBatch
<1>8. ASSUME NEW w \in Writers, InsertConflict(w) \/ FailBatch(w) \/ DeadlockAbort(w)
      PROVE TypeOK'
  <2>1. /\ Release(w) /\ Reset(w) /\ UNCHANGED <<events, counts, started, overlapped>>
        /\ fails' \in {fails, fails + 1}
    BY <1>8 DEF InsertConflict, FailBatch, DeadlockAbort, Rollback
  <2>2. /\ fails' \in Nat
        /\ events' \in [Channels -> Nat] /\ counts' \in [Channels -> Count0]
    BY <2>1 DEF TypeOK
  <2> QED
    BY <1>6, <2>1, <2>2
<1>9. CASE UNCHANGED vars
  BY <1>9 DEF TypeOK, vars
<1> QED
  BY <1>1, <1>2, <1>3, <1>4, <1>5, <1>7, <1>8, <1>9 DEF Next, Step

(* Every state has the types its variables are declared with.              *)
THEOREM TypeCorrect == Spec => []TypeOK
<1>1. Init => TypeOK
  <2> SUFFICES ASSUME Init PROVE TypeOK
    OBVIOUS
  <2>1. overlapped \in BOOLEAN
    BY Zenon DEF Init
  <2> QED
    BY <2>1 DEF Init, TypeOK, Zero, Nothing, Count0
<1> QED
  BY <1>1, TypeStep, PTL DEF Spec

-----------------------------------------------------------------------------
(* Inserting an event raises what the session may count by the one it is   *)
(* about to; the counters it sends are among those it holds.               *)
LEMMA InsertEventBounded ==
    ASSUME TypeOK, IInv, NEW w \in Writers, InsertEvent(w)
    PROVE  SessionsNeverOvercount'
<1> SUFFICES ASSUME NEW v \in Writers, NEW c \in Channels
             PROVE /\ known'[v][c] + Due(v, c)' <= events'[c] + added'[v][c]
                   /\ Due(v, c)' <= added'[v][c]
                   /\ sent'[v][c] <= events'[c] + added'[v][c]
  BY DEF SessionsNeverOvercount
<1>0. /\ events[c] \in Nat /\ added[v][c] \in Nat
      /\ known[v][c] \in Int /\ sent[v][c] \in Int
  BY DEF TypeOK, Count0, Null
<1>1. /\ known[v][c] + Due(v, c) <= events[c] + added[v][c]
      /\ Due(v, c) <= added[v][c]
      /\ sent[v][c] <= events[c] + added[v][c]
  BY DEF IInv, SessionsNeverOvercount
<1>2. events' = events /\ known' = known /\ todo' = todo
  BY DEF InsertEvent
<1>3. CASE v # w
  <2>1. Due(v, c)' = Due(v, c) /\ added'[v] = added[v] /\ sent'[v] = sent[v]
    BY <1>3, <1>2 DEF InsertEvent, Send, Due, TypeOK
  <2> QED
    BY <2>1, <1>1, <1>2
<1>4. CASE v = w
  <2>1. Due(w, c) = 0 /\ Due(w, c)' = IF Head(todo[w]) = c THEN 1 ELSE 0
    BY <1>2 DEF InsertEvent, Due, TypeOK
  <2>2. added'[w][c] = added[w][c] + Due(w, c)'
    BY <1>0, <1>4, <2>1 DEF InsertEvent, TypeOK
  <2>3. sent'[w][c] \in {known[w][c], sent[w][c]}
    BY DEF InsertEvent, Send, TypeOK
  <2>4. Due(w, c)' \in {0, 1}
    BY <2>1
  <2> QED
    BY <1>0, <1>1, <1>2, <1>4, <2>1, <2>2, <2>3, <2>4
<1> QED
  BY <1>3, <1>4

(* A bump takes up the event that was due: it adds one to what the session *)
(* held, or to what was committed when it had not loaded the counter.      *)
LEMMA BumpBounded ==
    ASSUME TypeOK, IInv, NEW w \in Writers, BumpKnown(w) \/ InsertCounter(w)
    PROVE  SessionsNeverOvercount'
<1> SUFFICES ASSUME NEW v \in Writers, NEW c \in Channels
             PROVE /\ known'[v][c] + Due(v, c)' <= events'[c] + added'[v][c]
                   /\ Due(v, c)' <= added'[v][c]
                   /\ sent'[v][c] <= events'[c] + added'[v][c]
  BY DEF SessionsNeverOvercount
<1>0. /\ events[c] \in Nat /\ added[v][c] \in Nat /\ counts[c] \in Int
      /\ known[v][c] \in Int /\ sent[v][c] \in Int
  BY DEF TypeOK, Count0, Null
<1>1. /\ known[v][c] + Due(v, c) <= events[c] + added[v][c]
      /\ Due(v, c) <= added[v][c]
      /\ sent[v][c] <= events[c] + added[v][c]
      /\ counts[c] <= events[c]
  BY DEF IInv, SessionsNeverOvercount, NeverOvercounted
<1>2. events' = events /\ added' = added
  BY DEF BumpKnown, InsertCounter
<1>3. CASE v # w
  <2>1. Due(v, c)' = Due(v, c) /\ known'[v] = known[v] /\ sent'[v] = sent[v]
    BY <1>3 DEF BumpKnown, InsertCounter, Due, TypeOK
  <2> QED
    BY <2>1, <1>1, <1>2
<1>4. CASE v = w
  <2>1. Due(w, c)' = 0
    BY DEF BumpKnown, InsertCounter, Due, TypeOK
  <2>2. Due(w, c) = IF Head(todo[w]) = c THEN 1 ELSE 0
    BY DEF BumpKnown, InsertCounter, Due
  <2>3. CASE BumpKnown(w)
    <3>1. sent' = sent
      BY <2>3 DEF BumpKnown
    <3>2. known'[w][c] = IF Head(todo[w]) = c THEN Count(w, c) + 1 ELSE known[w][c]
      BY <2>3 DEF BumpKnown, TypeOK
    <3>3. Count(w, c) \in {counts[c], known[w][c]}
      BY DEF Count
    <3> QED
      BY <1>0, <1>1, <1>2, <1>4, <2>1, <2>2, <3>1, <3>2, <3>3
  <2>4. CASE InsertCounter(w)
    <3>1. known'[w][c] = IF Head(todo[w]) = c THEN 1 ELSE known[w][c]
      BY <2>4 DEF InsertCounter, TypeOK
    <3>2. sent'[w][c] \in {0, sent[w][c]}
      BY <2>4 DEF InsertCounter, TypeOK
    <3> QED
      BY <1>0, <1>1, <1>2, <1>4, <2>1, <2>2, <3>1, <3>2
  <2> QED
    BY <2>3, <2>4
<1> QED
  BY <1>3, <1>4

(* A transaction that ends leaves an empty session behind, and commits at  *)
(* most what it held; the others' bounds only rise.                        *)
LEMMA EndBounded ==
    ASSUME TypeOK, IInv, NEW w \in Writers, Reset(w),
           \/ UNCHANGED <<events, counts>>
           \/ /\ events' = [c \in Channels |-> events[c] + added[w][c]]
              /\ counts' = [c \in Channels |-> IF FinalCount(w, c) = Null THEN counts[c]
                                               ELSE FinalCount(w, c)]
              /\ pc[w] = "flush"
    PROVE  IInv'
<1>1. ASSUME NEW c \in Channels PROVE events[c] \in Nat /\ events'[c] \in Nat /\ events[c] <= events'[c]
  BY DEF TypeOK
<1>2. ASSUME NEW c \in Channels PROVE counts'[c] <= events'[c]
  <2>1. counts[c] <= events[c] /\ counts[c] \in Int
    BY DEF IInv, NeverOvercounted, TypeOK, Count0, Null
  <2>2. CASE UNCHANGED <<events, counts>>
    BY <2>1, <2>2
  <2>3. CASE ~ UNCHANGED <<events, counts>>
    <3>1. /\ known[w][c] + Due(w, c) <= events[c] + added[w][c]
          /\ sent[w][c] <= events[c] + added[w][c]
      BY DEF IInv, SessionsNeverOvercount
    <3>2. known[w][c] \in Int /\ sent[w][c] \in Int /\ added[w][c] \in Nat
      BY DEF TypeOK, Count0, Null
    <3>3. Due(w, c) = 0
      BY <2>3 DEF Due
    <3>4. counts'[c] \in {counts[c], known[w][c], sent[w][c]}
      BY <2>3 DEF FinalCount
    <3>5. events'[c] = events[c] + added[w][c]
      BY <2>3
    <3> QED
      BY <1>1, <2>1, <3>1, <3>2, <3>3, <3>4, <3>5
  <2> QED
    BY <2>2, <2>3
<1>3. ASSUME NEW v \in Writers, NEW c \in Channels
      PROVE /\ known'[v][c] + Due(v, c)' <= events'[c] + added'[v][c]
            /\ Due(v, c)' <= added'[v][c]
            /\ sent'[v][c] <= events'[c] + added'[v][c]
  <2>1. CASE v = w
    BY <1>1, <2>1 DEF Reset, TypeOK, Due, Nothing, Zero, Null
  <2>2. CASE v # w
    <3>1. /\ known'[v] = known[v] /\ sent'[v] = sent[v] /\ added'[v] = added[v]
          /\ Due(v, c)' = Due(v, c)
      BY <2>2 DEF Reset, TypeOK, Due
    <3>2. /\ known[v][c] + Due(v, c) <= events[c] + added[v][c]
          /\ Due(v, c) <= added[v][c]
          /\ sent[v][c] <= events[c] + added[v][c]
      BY DEF IInv, SessionsNeverOvercount
    <3>3. /\ known[v][c] \in Int /\ sent[v][c] \in Int /\ added[v][c] \in Nat
          /\ Due(v, c) \in {0, 1}
      BY DEF TypeOK, Count0, Null, Due
    <3> QED
      BY <1>1, <3>1, <3>2, <3>3
  <2> QED
    BY <2>1, <2>2
<1> QED
  BY <1>2, <1>3 DEF IInv, NeverOvercounted, SessionsNeverOvercount

LEMMA IInvStep == TypeOK /\ IInv /\ [Next]_vars => IInv'
<1> SUFFICES ASSUME TypeOK, IInv, [Next]_vars PROVE IInv'
  OBVIOUS
<1>1. ASSUME NEW w \in Writers, NEW b \in Batches, StartBatch(w, b) PROVE IInv'
  <2>1. \A v \in Writers, c \in Channels : Due(v, c)' = Due(v, c)
    BY <1>1 DEF StartBatch, Due, TypeOK
  <2> QED
    BY <1>1, <2>1 DEF StartBatch, IInv, NeverOvercounted, SessionsNeverOvercount
<1>2. ASSUME NEW w \in Writers, InsertEvent(w) PROVE IInv'
  BY <1>2, InsertEventBounded DEF InsertEvent, IInv, NeverOvercounted
<1>3. ASSUME NEW w \in Writers, BumpKnown(w) \/ InsertCounter(w) PROVE IInv'
  BY <1>3, BumpBounded DEF BumpKnown, InsertCounter, IInv, NeverOvercounted
<1>4. ASSUME NEW w \in Writers, BumpMissing(w) PROVE IInv'
  <2>1. \A v \in Writers, c \in Channels : Due(v, c)' = Due(v, c)
    BY <1>4 DEF BumpMissing, Due, TypeOK
  <2> QED
    BY <1>4, <2>1 DEF BumpMissing, IInv, NeverOvercounted, SessionsNeverOvercount
<1>5. ASSUME NEW w \in Writers, CommitBatch(w) PROVE IInv'
  BY <1>5, EndBounded DEF CommitBatch
<1>6. ASSUME NEW w \in Writers, InsertConflict(w) \/ FailBatch(w) \/ DeadlockAbort(w)
      PROVE IInv'
  BY <1>6, EndBounded DEF InsertConflict, FailBatch, DeadlockAbort, Rollback
<1>7. CASE UNCHANGED vars
  BY <1>7 DEF vars, IInv, NeverOvercounted, SessionsNeverOvercount, Due
<1> QED
  BY <1>1, <1>2, <1>3, <1>4, <1>5, <1>6, <1>7 DEF Next, Step

(* A channel's counter never exceeds the events ingested on it, whatever   *)
(* transactions interleave, deadlock or fail (ingest.py:15-27).            *)
THEOREM CountersNeverOverReport == Spec => []NeverOvercounted
<1>1. Init => IInv
  BY DEF Init, IInv, NeverOvercounted, SessionsNeverOvercount, Due, Zero, Nothing, Null
<1>2. IInv => NeverOvercounted
  BY DEF IInv
<1> QED
  BY <1>1, <1>2, TypeCorrect, IInvStep, PTL DEF Spec

-----------------------------------------------------------------------------
(* Without overlap every other writer is idle, so nothing it does moves    *)
(* the committed events under the session of the one batch in progress.    *)
LEMMA OthersRest ==
    ASSUME TypeOK, EInv, ~overlapped', NEW w \in Writers,
           \/ pc[w] # "idle" /\ overlapped' = overlapped
           \/ \E b \in Batches : StartBatch(w, b),
           pc' = [pc EXCEPT ![w] = pc'[w]]
    PROVE  /\ ~overlapped /\ \A v \in Writers \ {w} : pc[v] = "idle"
           /\ OneAtATime'
<1>1. ~overlapped
  BY DEF StartBatch, TypeOK
<1>2. \A v \in Writers \ {w} : pc[v] = "idle"
  BY <1>1 DEF EInv, OneAtATime, StartBatch
<1>3. \A v \in Writers \ {w} : pc'[v] = "idle"
  BY <1>2 DEF TypeOK
<1> QED
  BY <1>1, <1>2, <1>3 DEF OneAtATime

(* What the step of one writer leaves alone of another's session.          *)
LEMMA IdleStaysExact ==
    ASSUME TypeOK, SessionsAreExact, NEW v \in Writers, pc[v] = "idle", pc'[v] = "idle",
           known'[v] = known[v], added'[v] = added[v], dirty'[v] = dirty[v], sent'[v] = sent[v]
    PROVE  /\ known'[v] = Nothing
           /\ \A c \in Channels : SessionIsExact(v, c)'
<1>1. known[v] = Nothing
  BY DEF SessionsAreExact
<1> QED
  BY <1>1 DEF SessionsAreExact, SessionIsExact, Due, Nothing

LEMMA EInvStep == TypeOK /\ EInv /\ [Next]_vars => EInv'
<1> SUFFICES ASSUME TypeOK, EInv, [Next]_vars, ~overlapped'
             PROVE (SourcesShowEvents /\ OneAtATime /\ SessionsAreExact)'
  BY DEF EInv
<1> DEFINE Exact(w) == /\ pc[w] = "idle" => known[w] = Nothing
                       /\ pc[w] \in {"bump", "insert"} => dirty[w] = {}
                       /\ pc[w] = "insert" => known[w][Head(todo[w])] = Null
                       /\ \A c \in Channels : SessionIsExact(w, c)
<1>0. ASSUME NEW w \in Writers, Exact(w)', OneAtATime',
             ~overlapped, \A v \in Writers \ {w} : pc[v] = "idle",
             \A v \in Writers \ {w} : /\ pc'[v] = pc[v] /\ known'[v] = known[v]
                                      /\ added'[v] = added[v] /\ dirty'[v] = dirty[v]
                                      /\ sent'[v] = sent[v],
             SourcesShowEvents'
      PROVE (SourcesShowEvents /\ OneAtATime /\ SessionsAreExact)'
  <2>1. SessionsAreExact
    BY <1>0 DEF EInv
  <2>2. ASSUME NEW v \in Writers \ {w} PROVE Exact(v)'
    <3>1. pc[v] = "idle" /\ pc'[v] = "idle"
      BY <1>0
    <3> QED
      BY <1>0, <2>1, <3>1, IdleStaysExact
  <2>3. \A v \in Writers : Exact(v)'
    BY <1>0, <2>2
  <2> HIDE DEF Exact
  <2>4. SessionsAreExact'
    BY <2>3 DEF SessionsAreExact, Exact
  <2> QED
    BY <1>0, <2>4
<1> DEFINE Alone(w) == ~overlapped /\ SourcesShowEvents /\ Exact(w)
                       /\ \A v \in Writers \ {w} : pc[v] = "idle"
<1>00. ASSUME NEW w \in Writers, pc[w] # "idle", overlapped' = overlapped,
              pc' = [pc EXCEPT ![w] = pc'[w]]
       PROVE Alone(w) /\ OneAtATime'
  <2>1. /\ ~overlapped /\ \A v \in Writers \ {w} : pc[v] = "idle"
        /\ OneAtATime'
    BY <1>00, OthersRest
  <2> QED
    BY <2>1 DEF EInv, SessionsAreExact
<1>1. ASSUME NEW w \in Writers, NEW b \in Batches, StartBatch(w, b)
      PROVE (SourcesShowEvents /\ OneAtATime /\ SessionsAreExact)'
  <2>1. pc' = [pc EXCEPT ![w] = pc'[w]]
    BY <1>1 DEF StartBatch, TypeOK
  <2>2. /\ ~overlapped /\ \A v \in Writers \ {w} : pc[v] = "idle"
        /\ OneAtATime'
    BY <1>1, <2>1, OthersRest
  <2>3. SourcesShowEvents /\ Exact(w)
    BY <2>2 DEF EInv, SessionsAreExact
  <2>4. pc[w] = "idle" /\ pc'[w] = "flush"
    BY <1>1 DEF StartBatch, TypeOK
  <2>5. /\ UNCHANGED <<events, counts, added, known, dirty, sent>>
        /\ \A v \in Writers \ {w} : pc'[v] = pc[v]
    BY <1>1 DEF StartBatch, TypeOK
  <2>6. \A c \in Channels : SessionIsExact(w, c)'
    BY <2>3, <2>4, <2>5 DEF SessionIsExact, Due
  <2>7. Exact(w)' /\ SourcesShowEvents'
    BY <2>3, <2>4, <2>5, <2>6 DEF SourcesShowEvents
  <2> HIDE DEF Exact
  <2> QED
    BY <1>0, <2>2, <2>5, <2>7
<1>2. ASSUME NEW w \in Writers, InsertEvent(w)
      PROVE (SourcesShowEvents /\ OneAtATime /\ SessionsAreExact)'
  <2>1. Alone(w) /\ OneAtATime'
    BY <1>2, <1>00 DEF InsertEvent, TypeOK
  <2>2. pc[w] = "flush" /\ pc'[w] = "bump" /\ dirty'[w] = {}
    BY <1>2 DEF InsertEvent, Send, TypeOK
  <2>3. UNCHANGED <<events, counts, known, todo>>
    BY <1>2 DEF InsertEvent
  <2>4. \A v \in Writers \ {w} : /\ pc'[v] = pc[v] /\ added'[v] = added[v]
                                /\ dirty'[v] = dirty[v] /\ sent'[v] = sent[v]
    BY <1>2 DEF InsertEvent, Send, TypeOK
  <2>5. ASSUME NEW c \in Channels PROVE SessionIsExact(w, c)'
    <3>1. SessionIsExact(w, c) /\ Due(w, c) = 0
      BY <2>1, <2>2 DEF Due
    <3>2. Due(w, c)' = (IF Head(todo[w]) = c THEN 1 ELSE 0)
      BY <2>2, <2>3 DEF Due
    <3>3. added[w][c] \in Nat /\ added'[w][c] = added[w][c] + Due(w, c)'
      BY <1>2, <3>2 DEF InsertEvent, TypeOK
    <3>4. sent'[w][c] = IF c \in dirty[w] THEN known[w][c] ELSE sent[w][c]
      BY <1>2 DEF InsertEvent, Send, TypeOK
    <3>5. known[w][c] \in Int /\ events[c] \in Nat /\ Due(w, c)' \in Nat
      BY <3>2 DEF TypeOK, Count0, Null
    <3> HIDE DEF Alone, Exact
    <3>6. CASE known[w][c] = Null
      BY <2>2, <2>3, <3>1, <3>3, <3>4, <3>5, <3>6 DEF SessionIsExact
    <3>7. CASE known[w][c] # Null
      BY <2>2, <2>3, <3>1, <3>3, <3>4, <3>5, <3>7 DEF SessionIsExact
    <3> QED
      BY <3>6, <3>7
  <2>6. Exact(w)' /\ SourcesShowEvents'
    BY <2>1, <2>2, <2>3, <2>5 DEF SourcesShowEvents
  <2> HIDE DEF Exact
  <2> QED
    BY <1>0, <2>1, <2>3, <2>4, <2>6
<1>3. ASSUME NEW w \in Writers, BumpKnown(w) \/ InsertCounter(w)
      PROVE (SourcesShowEvents /\ OneAtATime /\ SessionsAreExact)'
  <2> DEFINE h == Head(todo[w])
  <2>1. Alone(w) /\ OneAtATime'
    BY <1>3, <1>00 DEF BumpKnown, InsertCounter, TypeOK
  <2>2. pc[w] \in {"bump", "insert"} /\ pc'[w] = "flush" /\ dirty[w] = {} /\ dirty'[w] = {h}
    BY <1>3, <2>1 DEF BumpKnown, InsertCounter, TypeOK
  <2>3. UNCHANGED <<events, counts, added>> /\ h \in Channels
    BY <1>3, <2>2 DEF BumpKnown, InsertCounter, TypeOK
  <2>4. \A v \in Writers \ {w} : /\ pc'[v] = pc[v] /\ known'[v] = known[v]
                                /\ dirty'[v] = dirty[v] /\ sent'[v] = sent[v]
    BY <1>3 DEF BumpKnown, InsertCounter, TypeOK
  <2>5. ASSUME NEW c \in Channels PROVE SessionIsExact(w, c)'
    <3>1. SessionIsExact(w, c) /\ Due(w, c) = (IF h = c THEN 1 ELSE 0) /\ Due(w, c)' = 0
      BY <2>1, <2>2 DEF Due
    <3>2. CASE c # h
      <4>1. known'[w][c] = known[w][c] /\ sent'[w][c] = sent[w][c]
        BY <1>3, <3>2 DEF BumpKnown, InsertCounter, TypeOK
      <4> QED
        BY <2>2, <2>3, <3>1, <3>2, <4>1 DEF SessionIsExact
    <3>3. CASE c = h
      <4>1. /\ counts[c] = events[c] \/ (counts[c] = Null /\ events[c] = 0)
            /\ events[c] \in Nat /\ added[w][c] \in Nat /\ known[w][c] \in Int
        BY <2>1 DEF SourcesShowEvents, TypeOK, Count0, Null
      <4>2. known'[w][c] = events[c] + added[w][c]
        <5>1. CASE BumpKnown(w)
          <6>1. known'[w][c] = Count(w, c) + 1 /\ Count(w, c) # Null
            BY <5>1, <3>3, <2>3 DEF BumpKnown, TypeOK
          <6> HIDE DEF h, Alone, Exact
          <6> QED
            BY <6>1, <3>1, <3>3, <4>1 DEF Count, SessionIsExact
        <5>2. CASE InsertCounter(w)
          <6>1. known'[w][c] = 1 /\ known[w][c] = Null /\ counts[c] = Null
            BY <5>2, <3>3, <2>1, <2>3 DEF InsertCounter, TypeOK
          <6> HIDE DEF h, Alone, Exact
          <6> QED
            BY <6>1, <3>1, <3>3, <4>1 DEF SessionIsExact, Null
        <5> QED
          BY <5>1, <5>2, <1>3
      <4> HIDE DEF h, Alone, Exact
      <4> QED
        BY <2>2, <2>3, <3>1, <3>3, <4>1, <4>2 DEF SessionIsExact, Null
    <3> QED
      BY <3>2, <3>3
  <2>6. Exact(w)' /\ SourcesShowEvents'
    BY <2>1, <2>2, <2>3, <2>5 DEF SourcesShowEvents
  <2> HIDE DEF Exact
  <2> QED
    BY <1>0, <2>1, <2>3, <2>4, <2>6
<1>4. ASSUME NEW w \in Writers, BumpMissing(w)
      PROVE (SourcesShowEvents /\ OneAtATime /\ SessionsAreExact)'
  <2>1. Alone(w) /\ OneAtATime'
    BY <1>4, <1>00 DEF BumpMissing, TypeOK
  <2>2. /\ pc[w] = "bump" /\ pc'[w] = "insert"
        /\ UNCHANGED <<events, counts, todo, added, known, dirty, sent>>
        /\ \A v \in Writers \ {w} : pc'[v] = pc[v]
    BY <1>4 DEF BumpMissing, TypeOK
  <2>3. known[w][Head(todo[w])] = Null
    BY <1>4 DEF BumpMissing, Count
  <2>4. \A c \in Channels : SessionIsExact(w, c)'
    BY <2>1, <2>2 DEF SessionIsExact, Due
  <2>5. Exact(w)' /\ SourcesShowEvents'
    BY <2>1, <2>2, <2>3, <2>4 DEF SourcesShowEvents
  <2> HIDE DEF Exact
  <2> QED
    BY <1>0, <2>1, <2>2, <2>5
<1>5. ASSUME NEW w \in Writers, Reset(w), pc[w] # "idle", overlapped' = overlapped, SourcesShowEvents'
      PROVE (SourcesShowEvents /\ OneAtATime /\ SessionsAreExact)'
  <2>1. Alone(w) /\ OneAtATime'
    BY <1>5, <1>00 DEF Reset, TypeOK
  <2>2. \A v \in Writers \ {w} : /\ pc'[v] = pc[v] /\ known'[v] = known[v]
                                /\ added'[v] = added[v] /\ dirty'[v] = dirty[v]
                                /\ sent'[v] = sent[v]
    BY <1>5 DEF Reset, TypeOK
  <2>3. Exact(w)'
    BY <1>5 DEF Reset, TypeOK, SessionIsExact, Due, Nothing, Zero
  <2> HIDE DEF Exact
  <2> QED
    BY <1>0, <1>5, <2>1, <2>2, <2>3
<1>6. ASSUME NEW w \in Writers, CommitBatch(w)
      PROVE (SourcesShowEvents /\ OneAtATime /\ SessionsAreExact)'
  <2>1. pc[w] = "flush" /\ Reset(w) /\ overlapped' = overlapped
    BY <1>6 DEF CommitBatch
  <2>2. Alone(w)
    BY <2>1, <1>00 DEF Reset, TypeOK
  <2>3. ASSUME NEW c \in Channels
        PROVE counts'[c] = events'[c] \/ (counts'[c] = Null /\ events'[c] = 0)
    <3>1. /\ events'[c] = events[c] + added[w][c]
          /\ counts'[c] = IF FinalCount(w, c) = Null THEN counts[c] ELSE FinalCount(w, c)
      BY <1>6 DEF CommitBatch
    <3>2. SessionIsExact(w, c) /\ Due(w, c) = 0
      BY <2>1, <2>2 DEF Due
    <3>3. /\ counts[c] = events[c] \/ (counts[c] = Null /\ events[c] = 0)
          /\ events[c] \in Nat /\ added[w][c] \in Nat /\ known[w][c] \in Int
      BY <2>2 DEF SourcesShowEvents, TypeOK, Count0, Null
    <3> HIDE DEF Alone, Exact
    <3>4. FinalCount(w, c) = known[w][c]
      BY <3>2 DEF FinalCount, SessionIsExact
    <3> QED
      BY <3>1, <3>2, <3>3, <3>4 DEF SessionIsExact
  <2>4. SourcesShowEvents'
    BY <2>3 DEF SourcesShowEvents
  <2> QED
    BY <1>5, <2>1, <2>4
<1>7. ASSUME NEW w \in Writers, InsertConflict(w) \/ FailBatch(w) \/ DeadlockAbort(w)
      PROVE (SourcesShowEvents /\ OneAtATime /\ SessionsAreExact)'
  <2>1. Rollback(w)
    BY <1>7 DEF InsertConflict, FailBatch, DeadlockAbort
  <2>2. pc[w] # "idle"
    <3>1. CASE InsertConflict(w) \/ FailBatch(w)
      BY <3>1 DEF InsertConflict, FailBatch
    <3>2. CASE DeadlockAbort(w)
      <4>1. PICK S \in SUBSET Writers :
                w \in S /\ \A v \in S : (\E u \in S : WaitsFor(v, u)) /\ (\E u \in S : WaitsFor(u, v))
        BY <3>2 DEF DeadlockAbort, InCycle
      <4>2. Wants(w) # {}
        BY <4>1 DEF WaitsFor
      <4> QED
        BY <4>2 DEF Wants
    <3> QED
      BY <1>7, <3>1, <3>2
  <2>3. ~overlapped /\ SourcesShowEvents
    BY <2>1 DEF Rollback, EInv
  <2>4. SourcesShowEvents'
    BY <2>1, <2>3 DEF Rollback, SourcesShowEvents
  <2> QED
    BY <1>5, <2>1, <2>2, <2>4 DEF Rollback
<1>8. CASE UNCHANGED vars
  BY <1>8 DEF vars, EInv, SourcesShowEvents, OneAtATime, SessionsAreExact, SessionIsExact, Due
<1> QED
  BY <1>1, <1>2, <1>3, <1>4, <1>6, <1>7, <1>8 DEF Next, Step

(* As long as no two batches have been in progress at once, every channel  *)
(* shows the events ingested on it, through every rollback                 *)
(* (ingest.py:15-36).                                                      *)
THEOREM SourcesAreExact == Spec => []CountsExact
<1>1. Init => EInv
  BY DEF Init, EInv, SourcesShowEvents, OneAtATime, SessionsAreExact, SessionIsExact, Due,
         Zero, Nothing, Null
<1>2. EInv => CountsExact
  BY DEF EInv, CountsExact
<1> QED
  BY <1>1, <1>2, TypeCorrect, EInvStep, PTL DEF Spec

-----------------------------------------------------------------------------
(* The listener (SyslogServer). What popping leaves: the entries from the  *)
(* first live one on.                                                      *)
LEMMA LeftIsSuffix ==
    ASSUME NEW b \in Seq(Time), NEW n \in 0..Len(b)
    PROVE  /\ Left(b, n) \in Seq(Time)
           /\ Len(Left(b, n)) = Len(b) - n
           /\ \A i \in DOMAIN Left(b, n) : Left(b, n)[i] = b[n + i]
  BY DEF Left

(* Appending to a sequence of times.                                       *)
LEMMA AppendFacts ==
    ASSUME NEW s \in Seq(Nat), NEW t \in Nat
    PROVE  /\ Len(Append(s, t)) = Len(s) + 1
           /\ DOMAIN Append(s, t) = 1..(Len(s) + 1)
           /\ \A i \in 1..Len(s) : Append(s, t)[i] = s[i]
           /\ Append(s, t)[Len(s) + 1] = t
  OBVIOUS

LEMMA ListenerTypeStep == ListenerTypeOK /\ [ListenerNext]_listenerVars => ListenerTypeOK'
<1> SUFFICES ASSUME ListenerTypeOK, [ListenerNext]_listenerVars PROVE ListenerTypeOK'
  OBVIOUS
<1>1. ASSUME NEW h \in Hosts, NEW n \in 0..Len(buckets[h]), Accept(h, n) \/ Refuse(h, n)
      PROVE ListenerTypeOK'
  <2>1. buckets[h] \in Seq(Time) /\ now \in Time
    BY DEF ListenerTypeOK
  <2>2. Left(buckets[h], n) \in Seq(Time)
    BY <2>1, LeftIsSuffix
  <2>3. CASE Accept(h, n)
    BY <2>1, <2>2, <2>3 DEF ListenerTypeOK, Accept
  <2>4. CASE Refuse(h, n)
    BY <2>1, <2>2, <2>4 DEF ListenerTypeOK, Refuse
  <2> QED
    BY <1>1, <2>3, <2>4
<1>2. CASE TooLarge
  BY <1>2 DEF ListenerTypeOK, TooLarge
<1>3. CASE Tick
  BY <1>3 DEF ListenerTypeOK, Tick, Time
<1>4. CASE UNCHANGED listenerVars
  BY <1>4 DEF ListenerTypeOK, listenerVars
<1> QED
  BY <1>1, <1>2, <1>3, <1>4 DEF ListenerNext

(* Every state has the types its variables are declared with.              *)
THEOREM ListenerTypes == ListenerSpec => []ListenerTypeOK
<1>1. ListenerInit => ListenerTypeOK
  BY DEF ListenerInit, ListenerTypeOK, Time
<1> QED
  BY <1>1, ListenerTypeStep, PTL DEF ListenerSpec

-----------------------------------------------------------------------------
(* One host at a time: an accepted datagram.                               *)
LEMMA AcceptKeeps ==
    ASSUME ListenerTypeOK, LimiterInv, NEW h \in Hosts, NEW n \in 0..Len(buckets[h]), Accept(h, n)
    PROVE  LimiterInv'
<1> USE LimitAssumption DEF Time
<1> DEFINE b == buckets[h]
           a == accepted[h]
           k == Left(b, n)
<1>1. b \in Seq(Time) /\ a \in Seq(Time) /\ now \in Time
  BY DEF ListenerTypeOK
<1>2. k \in Seq(Time) /\ Len(k) = Len(b) - n /\ \A i \in DOMAIN k : k[i] = b[n + i]
  BY <1>1, LeftIsSuffix
<1>3. Len(k) < Limit /\ Popped(b, n)
  BY DEF Accept
<1>4. /\ buckets' = [buckets EXCEPT ![h] = Append(k, now)]
      /\ accepted' = [accepted EXCEPT ![h] = Append(a, now)]
      /\ UNCHANGED <<now, dropped, refused>>
  BY DEF Accept
<1>5. buckets'[h] = Append(k, now) /\ accepted'[h] = Append(a, now)
  BY <1>4 DEF ListenerTypeOK
<1>6. ASSUME NEW g \in Hosts, g # h PROVE buckets'[g] = buckets[g] /\ accepted'[g] = accepted[g]
  BY <1>4, <1>6 DEF ListenerTypeOK
<1>7. /\ Len(b) <= Limit /\ Len(b) <= Len(a)
      /\ \A i \in DOMAIN b : b[i] = a[Len(a) - Len(b) + i]
      /\ \A i \in 1..(Len(a) - Len(b)) : a[i] < now - Window
      /\ \A i \in DOMAIN a : a[i] <= now
  BY DEF LimiterInv, BucketIsRecent, Older
<1>h. b = buckets[h] /\ a = accepted[h]
  OBVIOUS
<1>n. /\ n \in Nat /\ n <= Len(b)
      /\ Len(a) \in Nat /\ Len(b) \in Nat /\ Len(k) \in Nat
      /\ DOMAIN a = 1..Len(a) /\ DOMAIN b = 1..Len(b) /\ DOMAIN k = 1..Len(k)
      /\ \A i \in 1..Len(a) : a[i] \in Nat
  BY <1>1, <1>2
<1> HIDE DEF a, b, k
<1>8. /\ Len(Append(k, now)) = Len(k) + 1
      /\ Len(Append(a, now)) = Len(a) + 1
      /\ \A i \in 1..Len(k) : Append(k, now)[i] = k[i]
      /\ \A i \in 1..Len(a) : Append(a, now)[i] = a[i]
      /\ Append(k, now)[Len(k) + 1] = now
      /\ Append(a, now)[Len(a) + 1] = now
      /\ DOMAIN Append(k, now) = 1..(Len(k) + 1)
      /\ DOMAIN Append(a, now) = 1..(Len(a) + 1)
  BY <1>1, <1>2, AppendFacts
<1>9. \A i \in 1..(Len(a) - Len(k)) : a[i] < now - Window
  <2> SUFFICES ASSUME NEW i \in 1..(Len(a) - Len(k)) PROVE a[i] < now - Window
    OBVIOUS
  <2>1. CASE i <= Len(a) - Len(b)
    BY <1>1, <1>2, <1>7, <2>1
  <2>2. CASE i > Len(a) - Len(b)
    <3>1. i - (Len(a) - Len(b)) \in 1..n
      BY <1>1, <1>2, <1>7, <2>2
    <3>2. b[i - (Len(a) - Len(b))] = a[i]
      BY <1>n, <1>7, <3>1, SMTT(60)
    <3> QED
      BY <1>3, <3>1, <3>2 DEF Popped
  <2> QED
    BY <1>1, <1>2, <2>1, <2>2
<1>10. BucketIsRecent'
  <2> SUFFICES ASSUME NEW g \in Hosts
               PROVE /\ Len(buckets'[g]) <= Limit /\ Len(buckets'[g]) <= Len(accepted'[g])
                     /\ \A i \in DOMAIN buckets'[g] :
                          buckets'[g][i] = accepted'[g][Len(accepted'[g]) - Len(buckets'[g]) + i]
                     /\ \A i \in 1..(Len(accepted'[g]) - Len(buckets'[g])) :
                          accepted'[g][i] < now - Window
                     /\ \A i \in DOMAIN accepted'[g] : accepted'[g][i] <= now
    BY <1>4 DEF BucketIsRecent, Older
  <2>1. CASE g # h
    BY <1>6, <2>1 DEF LimiterInv, BucketIsRecent, Older
  <2>2. CASE g = h
    <3>1. Len(k) + 1 <= Limit /\ Len(k) + 1 <= Len(a) + 1
      BY <1>1, <1>2, <1>3, <1>7
    <3>2. ASSUME NEW i \in 1..(Len(k) + 1)
          PROVE Append(k, now)[i] = Append(a, now)[Len(a) - Len(k) + i]
      <4>1. CASE i = Len(k) + 1
        BY <1>1, <1>2, <1>8, <4>1
      <4>2. CASE i \in 1..Len(k)
        <5>1. k[i] = b[n + i] /\ n + i \in DOMAIN b
          <6>1. i \in DOMAIN k
            BY <1>n, <4>2
          <6>2. k[i] = b[n + i]
            BY <1>2, <6>1
          <6>3. n + i \in 1..Len(b)
            BY <1>n, <1>2, <4>2
          <6> QED
            BY <1>n, <6>2, <6>3
        <5>2. b[n + i] = a[Len(a) - Len(b) + (n + i)]
          BY <1>7, <5>1
        <5>3. Len(a) - Len(b) + (n + i) = Len(a) - Len(k) + i /\ Len(a) - Len(k) + i \in 1..Len(a)
          BY <1>n, <1>2, <1>7, <4>2
        <5> QED
          BY <1>8, <4>2, <5>1, <5>2, <5>3
      <4> QED
        <5>1. i = Len(k) + 1 \/ i \in 1..Len(k)
          BY <1>n
        <5> QED
          BY <4>1, <4>2, <5>1
    <3>3. \A i \in 1..(Len(a) - Len(k)) : Append(a, now)[i] < now - Window
      BY <1>1, <1>2, <1>8, <1>9
    <3>4. \A i \in 1..(Len(a) + 1) : Append(a, now)[i] <= now
      BY <1>1, <1>7, <1>8
    <3>5. Len(a) + 1 - (Len(k) + 1) = Len(a) - Len(k)
      BY <1>1, <1>2
    <3>6. /\ Len(buckets'[g]) = Len(k) + 1 /\ Len(accepted'[g]) = Len(a) + 1
          /\ DOMAIN buckets'[g] = 1..(Len(k) + 1)
          /\ DOMAIN accepted'[g] = 1..(Len(a) + 1)
      BY <1>5, <1>8, <2>2
    <3>7. ASSUME NEW i \in DOMAIN buckets'[g]
          PROVE buckets'[g][i] = accepted'[g][Len(accepted'[g]) - Len(buckets'[g]) + i]
      <4>1. i \in 1..(Len(k) + 1)
        BY <3>6
      <4>2. Append(k, now)[i] = Append(a, now)[Len(a) - Len(k) + i]
        BY <3>2, <4>1
      <4>3. Len(accepted'[g]) - Len(buckets'[g]) = Len(a) - Len(k)
        BY <1>n, <3>6
      <4> QED
        BY <1>5, <2>2, <4>2, <4>3
    <3>8. \A i \in 1..(Len(accepted'[g]) - Len(buckets'[g])) : accepted'[g][i] < now - Window
      <4>1. Len(accepted'[g]) - Len(buckets'[g]) = Len(a) - Len(k)
        BY <1>n, <3>6
      <4> QED
        BY <1>5, <2>2, <3>3, <4>1
    <3>9. \A i \in DOMAIN accepted'[g] : accepted'[g][i] <= now
      BY <1>5, <2>2, <3>4, <3>6
    <3>10. Len(buckets'[g]) <= Limit /\ Len(buckets'[g]) <= Len(accepted'[g])
      BY <3>1, <3>6
    <3> QED
      BY <3>7, <3>8, <3>9, <3>10, Zenon
  <2> QED
    BY <2>1, <2>2
<1>11. InOrder'
  <2> SUFFICES ASSUME NEW g \in Hosts, NEW i \in DOMAIN accepted'[g], NEW j \in DOMAIN accepted'[g],
                      i <= j
               PROVE accepted'[g][i] <= accepted'[g][j]
    BY DEF InOrder
  <2>1. CASE g # h
    BY <1>6, <2>1 DEF LimiterInv, InOrder
  <2>2. CASE g = h
    <3>1. \A p, q \in DOMAIN a : p <= q => a[p] <= a[q]
      BY <1>h DEF LimiterInv, InOrder
    <3>2. i \in 1..(Len(a) + 1) /\ j \in 1..(Len(a) + 1)
      BY <1>1, <1>5, <1>8, <2>2
    <3>3. DOMAIN a = 1..Len(a) /\ \A p \in DOMAIN a : a[p] \in Nat
      BY <1>1
    <3>4. CASE j = Len(a) + 1
      <4>1. accepted'[g][j] = now
        BY <1>5, <1>8, <2>2, <3>4
      <4>2. CASE i = j
        BY <1>1, <4>1, <4>2
      <4>3. CASE i # j
        <5>1. i \in 1..Len(a)
          BY <1>n, <3>2, <3>4, <4>3
        <5>2. accepted'[g][i] = a[i] /\ a[i] <= now
          BY <1>n, <1>5, <1>7, <1>8, <2>2, <5>1
        <5> QED
          BY <4>1, <5>2
      <4> QED
        BY <4>2, <4>3
    <3>5. CASE j # Len(a) + 1
      <4>1. i \in 1..Len(a) /\ j \in 1..Len(a)
        BY <1>1, <3>2, <3>5
      <4> QED
        BY <1>5, <1>8, <2>2, <3>1, <3>3, <4>1
    <3> QED
      BY <3>4, <3>5
  <2> QED
    BY <2>1, <2>2
<1>12. RateBounded'
  <2> SUFFICES ASSUME NEW g \in Hosts, NEW i \in DOMAIN accepted'[g],
                      i + Limit \in DOMAIN accepted'[g]
               PROVE accepted'[g][i + Limit] - accepted'[g][i] > Window
    BY DEF RateBounded
  <2>1. CASE g # h
    BY <1>6, <2>1 DEF LimiterInv, RateBounded
  <2>2. CASE g = h
    <3>1. i \in 1..(Len(a) + 1) /\ i + Limit \in 1..(Len(a) + 1)
      BY <1>1, <1>5, <1>8, <2>2
    <3>2. CASE i + Limit = Len(a) + 1
      <4>1. i \in 1..(Len(a) - Len(k))
        BY <1>n, <1>3, <3>1, <3>2
      <4>2. a[i] < now - Window /\ i \in 1..Len(a) /\ a[i] \in Nat
        <5>1. i \in 1..Len(a)
          BY <1>n, <4>1
        <5>2. a[i] < now - Window
          BY <1>9, <4>1
        <5> QED
          BY <1>n, <5>1, <5>2
      <4>3. accepted'[g][i] = a[i] /\ accepted'[g][i + Limit] = now
        BY <1>5, <1>8, <2>2, <3>2, <4>2
      <4> QED
        BY <1>1, <4>2, <4>3
    <3>3. CASE i + Limit # Len(a) + 1
      <4>1. i \in DOMAIN a /\ i + Limit \in DOMAIN a
        BY <1>1, <3>1, <3>3
      <4>2. a[i + Limit] - a[i] > Window
        BY <1>h, <4>1 DEF LimiterInv, RateBounded
      <4>3. accepted'[g][i] = a[i] /\ accepted'[g][i + Limit] = a[i + Limit]
        BY <1>n, <1>5, <1>8, <2>2, <4>1
      <4> QED
        BY <4>2, <4>3
    <3> QED
      BY <3>2, <3>3
  <2> QED
    BY <2>1, <2>2
<1>13. RefusedAtLimit'
  <2> SUFFICES ASSUME NEW g \in Hosts, NEW m \in DOMAIN refused[g]
               PROVE \E i \in DOMAIN accepted'[g] :
                       /\ i + Limit - 1 \in DOMAIN accepted'[g]
                       /\ accepted'[g][i] >= refused[g][m] - Window
                       /\ accepted'[g][i + Limit - 1] <= refused[g][m]
    BY <1>4 DEF RefusedAtLimit
  <2>1. PICK i \in DOMAIN accepted[g] :
               /\ i + Limit - 1 \in DOMAIN accepted[g]
               /\ accepted[g][i] >= refused[g][m] - Window
               /\ accepted[g][i + Limit - 1] <= refused[g][m]
    BY DEF LimiterInv, RefusedAtLimit
  <2>2. CASE g # h
    BY <1>6, <2>1, <2>2
  <2>3. CASE g = h
    <3>1. i \in 1..Len(a) /\ i + Limit - 1 \in 1..Len(a)
      BY <1>n, <1>h, <2>1, <2>3
    <3>2. i \in DOMAIN accepted'[g] /\ i + Limit - 1 \in DOMAIN accepted'[g]
      <4>1. DOMAIN accepted'[g] = 1..(Len(a) + 1)
        BY <1>5, <1>8, <2>3
      <4> QED
        BY <1>n, <3>1, <4>1
    <3>3. accepted'[g][i] = a[i] /\ accepted'[g][i + Limit - 1] = a[i + Limit - 1]
      BY <1>5, <1>8, <2>3, <3>1
    <3> QED
      BY <1>h, <2>1, <2>3, <3>2, <3>3
  <2> QED
    BY <2>2, <2>3
<1> QED
  BY <1>10, <1>11, <1>12, <1>13 DEF LimiterInv

(* A refused one: its host has Limit entries left after the popping.       *)
LEMMA RefuseKeeps ==
    ASSUME ListenerTypeOK, LimiterInv, NEW h \in Hosts, NEW n \in 0..Len(buckets[h]), Refuse(h, n)
    PROVE  LimiterInv'
<1> USE LimitAssumption DEF Time
<1> DEFINE b == buckets[h]
           a == accepted[h]
           k == Left(b, n)
<1>1. b \in Seq(Time) /\ a \in Seq(Time) /\ now \in Time
  BY DEF ListenerTypeOK
<1>2. k \in Seq(Time) /\ Len(k) = Len(b) - n /\ \A i \in DOMAIN k : k[i] = b[n + i]
  BY <1>1, LeftIsSuffix
<1>3. /\ buckets' = [buckets EXCEPT ![h] = k]
      /\ refused' = [refused EXCEPT ![h] = Append(@, now)]
      /\ UNCHANGED <<now, accepted>>
      /\ Len(k) >= Limit
      /\ Popped(b, n)
  BY DEF Refuse
<1>4. /\ Len(b) <= Limit /\ Len(b) <= Len(a)
      /\ \A i \in DOMAIN b : b[i] = a[Len(a) - Len(b) + i]
      /\ \A i \in DOMAIN a : a[i] <= now
  BY DEF LimiterInv, BucketIsRecent, Older
<1>5. n = 0 /\ Len(b) = Limit
  BY <1>1, <1>2, <1>3, <1>4
<1>6. k = b
  BY <1>1, <1>2, <1>5
<1>7. buckets' = buckets
  BY <1>3, <1>6 DEF ListenerTypeOK
<1>8. BucketIsRecent' /\ InOrder' /\ RateBounded'
  BY <1>3, <1>7 DEF LimiterInv, BucketIsRecent, Older, InOrder, RateBounded
<1>9. RefusedAtLimit'
  <2> SUFFICES ASSUME NEW g \in Hosts, NEW m \in DOMAIN refused'[g]
               PROVE \E i \in DOMAIN accepted[g] :
                       /\ i + Limit - 1 \in DOMAIN accepted[g]
                       /\ accepted[g][i] >= refused'[g][m] - Window
                       /\ accepted[g][i + Limit - 1] <= refused'[g][m]
    BY <1>3 DEF RefusedAtLimit
  <2>1. CASE g # h \/ m \in DOMAIN refused[g]
    <3>1. m \in DOMAIN refused[g] /\ refused'[g][m] = refused[g][m]
      BY <1>3, <2>1 DEF ListenerTypeOK
    <3> QED
      BY <3>1 DEF LimiterInv, RefusedAtLimit
  <2>2. CASE g = h /\ m \notin DOMAIN refused[g]
    <3>1. refused'[g][m] = now
      BY <1>3, <2>2 DEF ListenerTypeOK
    <3>2. b[1] >= now - Window
      BY <1>1, <1>3, <1>5 DEF Popped
    <3>3. b[1] = a[Len(a) - Limit + 1]
      BY <1>1, <1>4, <1>5
    <3>4. Len(a) - Limit + 1 \in DOMAIN a /\ (Len(a) - Limit + 1) + Limit - 1 = Len(a)
          /\ Len(a) \in DOMAIN a
      BY <1>1, <1>4, <1>5
    <3> QED
      BY <1>4, <2>2, <3>1, <3>2, <3>3, <3>4
  <2> QED
    BY <2>1, <2>2
<1> QED
  BY <1>8, <1>9 DEF LimiterInv

LEMMA LimiterInvStep == ListenerTypeOK /\ LimiterInv /\ [ListenerNext]_listenerVars => LimiterInv'
<1> SUFFICES ASSUME ListenerTypeOK, LimiterInv, [ListenerNext]_listenerVars PROVE LimiterInv'
  OBVIOUS
<1>1. ASSUME NEW h \in Hosts, NEW n \in 0..Len(buckets[h]), Accept(h, n) \/ Refuse(h, n)
      PROVE LimiterInv'
  BY <1>1, AcceptKeeps, RefuseKeeps
<1>2. CASE TooLarge \/ UNCHANGED listenerVars
  BY <1>2 DEF TooLarge, listenerVars, LimiterInv, BucketIsRecent, Older, InOrder, RateBounded, RefusedAtLimit
<1>3. CASE Tick
  <2>1. now \in Nat /\ now' = now + 1 /\ Window \in Nat
    BY <1>3, LimitAssumption DEF Tick, ListenerTypeOK, Time
  <2>2. UNCHANGED <<buckets, accepted, refused>>
    BY <1>3 DEF Tick
  <2>3. BucketIsRecent'
    <3> SUFFICES ASSUME NEW h \in Hosts
                 PROVE /\ \A i \in 1..Older(h) : accepted[h][i] < now' - Window
                       /\ \A i \in DOMAIN accepted[h] : accepted[h][i] <= now'
      BY <2>2 DEF LimiterInv, BucketIsRecent, Older
    <3>1. /\ accepted[h] \in Seq(Nat) /\ buckets[h] \in Seq(Nat)
          /\ Len(buckets[h]) <= Len(accepted[h])
          /\ \A i \in 1..Older(h) : accepted[h][i] < now - Window
          /\ \A i \in DOMAIN accepted[h] : accepted[h][i] <= now
      BY DEF ListenerTypeOK, Time, LimiterInv, BucketIsRecent
    <3>2. \A i \in 1..Older(h) : i \in DOMAIN accepted[h]
      <4> SUFFICES ASSUME NEW i \in 1..(Len(accepted[h]) - Len(buckets[h]))
                   PROVE i \in 1..Len(accepted[h])
        BY <3>1 DEF Older
      <4>1. Len(accepted[h]) \in Nat
        BY <3>1
      <4>2. Len(buckets[h]) \in Nat
        BY <3>1
      <4> QED
        BY <4>1, <4>2
    <3>3. \A i \in DOMAIN accepted[h] : accepted[h][i] \in Nat
      BY <3>1
    <3> QED
      BY <2>1, <3>1, <3>2, <3>3
  <2> QED
    BY <2>2, <2>3 DEF LimiterInv, InOrder, RateBounded, RefusedAtLimit
<1> QED
  BY <1>1, <1>2, <1>3 DEF ListenerNext

(* The two halves of "max 200/s per host" (README.md:56), for every limit, *)
(* window and set of hosts: no window holds more than the limit, and no    *)
(* datagram is refused unless the window that ends with it is full.        *)
THEOREM LimiterIsExact == ListenerSpec => [](RateBounded /\ RefusedAtLimit)
<1>1. ListenerInit => LimiterInv
  BY LimitAssumption DEF ListenerInit, LimiterInv, BucketIsRecent, Older, InOrder, RateBounded, RefusedAtLimit
<1>2. LimiterInv => RateBounded /\ RefusedAtLimit
  BY DEF LimiterInv
<1> QED
  BY <1>1, <1>2, ListenerTypes, LimiterInvStep, PTL DEF ListenerSpec

(* A datagram is refused only when the limit of its window is used up.     *)
THEOREM RefusalIsDue == ListenerSpec => []RefusedAtLimit
  BY LimiterIsExact, PTL
=============================================================================
