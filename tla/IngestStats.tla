----------------------------- MODULE IngestStats -----------------------------
(***************************************************************************)
(* ingest.py: every ingested event is a row of "events" and one more in    *)
(* the "ingest_stats" counter of its channel. A request of /api/ingest     *)
(* handles its batch in one transaction, the syslog handler and the seed   *)
(* one of their own. The counter is read without a lock, incremented in    *)
(* the session, and sent as "UPDATE ... SET count = <value>" at the next   *)
(* flush: PostgreSQL locks the row then, until the transaction ends.       *)
(***************************************************************************)
EXTENDS Integers, Sequences, FiniteSets

CONSTANTS
    Writers,        \* concurrent transactions
    Channels,       \* ingest_channel values
    Batches,        \* channel of each event, batch by batch
    MaxBatches,     \* bound: batches started
    MaxFails        \* bound: batches rolled back by an exception

ASSUME BatchesAssumption == Batches \subseteq Seq(Channels)
ASSUME BoundsAssumption == MaxBatches \in Nat /\ MaxFails \in Nat

VARIABLES
    events,         \* committed events of each channel, purged ones included
    counts,         \* committed ingest_stats.count, Null where there is no row
    owner,          \* the transaction holding the lock of each counter
    pc,             \* idle, flush (about to insert an event), bump, end
    todo,           \* events of the batch not inserted yet
    added,          \* events of each channel inserted by the transaction
    known,          \* counters in its session, Null where not loaded
    dirty,          \* counters changed in it since its last flush
    sent,           \* counters it has written, with their value
    started, fails,
    overlapped      \* history: two batches have been in progress at once

vars == <<events, counts, owner, pc, todo, added, known, dirty, sent, started, fails,
          overlapped>>

Null == -1
Nobody == "nobody"
Nothing == [c \in Channels |-> Null]
Zero == [c \in Channels |-> 0]

Init ==
    /\ events = Zero
    /\ counts = Nothing
    /\ owner = [c \in Channels |-> Nobody]
    /\ pc = [w \in Writers |-> "idle"]
    /\ todo = [w \in Writers |-> <<>>]
    /\ added = [w \in Writers |-> Zero]
    /\ known = [w \in Writers |-> Nothing]
    /\ dirty = [w \in Writers |-> {}]
    /\ sent = [w \in Writers |-> Nothing]
    /\ started = 0 /\ fails = 0 /\ overlapped = FALSE

-----------------------------------------------------------------------------
StartBatch(w, b) ==
    /\ pc[w] = "idle" /\ started < MaxBatches
    /\ started' = started + 1
    /\ overlapped' = (overlapped \/ \E v \in Writers : pc[v] # "idle")
    /\ pc' = [pc EXCEPT ![w] = "flush"]
    /\ todo' = [todo EXCEPT ![w] = b]
    /\ UNCHANGED <<events, counts, owner, added, known, dirty, sent, fails>>

(* The locks an UPDATE or INSERT of the dirty counters waits for.          *)
MayWrite(w, C) == \A c \in C : owner[c] \in {Nobody, w}

(* A flush sends the dirty counters, and keeps their rows locked.          *)
Send(w) ==
    /\ MayWrite(w, dirty[w])
    /\ owner' = [c \in Channels |-> IF c \in dirty[w] THEN w ELSE owner[c]]
    /\ sent' = [sent EXCEPT ![w] = [c \in Channels |->
                    IF c \in dirty[w] THEN known[w][c] ELSE sent[w][c]]]
    /\ dirty' = [dirty EXCEPT ![w] = {}]

(* db.add(row); db.flush(): the event, with what is dirty.                 *)
InsertEvent(w) ==
    LET c == Head(todo[w])
    IN  /\ pc[w] = "flush" /\ todo[w] # <<>>
        /\ Send(w)
        /\ added' = [added EXCEPT ![w][c] = @ + 1]
        /\ pc' = [pc EXCEPT ![w] = "bump"]
        /\ UNCHANGED <<events, counts, todo, known, started, overlapped, fails>>

(* bump_channel: the counter comes from the session or from a SELECT,      *)
(* which sees what is committed.                                           *)
Count(w, c) == IF known[w][c] = Null THEN counts[c] ELSE known[w][c]

BumpKnown(w) ==
    LET c == Head(todo[w])
    IN  /\ pc[w] = "bump" /\ Count(w, c) # Null
        /\ known' = [known EXCEPT ![w][c] = Count(w, c) + 1]
        /\ dirty' = [dirty EXCEPT ![w] = @ \cup {c}]
        /\ todo' = [todo EXCEPT ![w] = Tail(@)]
        /\ pc' = [pc EXCEPT ![w] = "flush"]
        /\ UNCHANGED <<events, counts, owner, added, sent, started, overlapped, fails>>

(* There is no row: one is inserted at once, with count 0, and waits for   *)
(* another transaction's insert of the same key. pc "insert" is the time   *)
(* between the SELECT and the INSERT.                                      *)
BumpMissing(w) ==
    /\ pc[w] = "bump" /\ Count(w, Head(todo[w])) = Null
    /\ pc' = [pc EXCEPT ![w] = "insert"]
    /\ UNCHANGED <<events, counts, owner, todo, added, known, dirty, sent, started, overlapped, fails>>

InsertCounter(w) ==
    LET c == Head(todo[w])
    IN  /\ pc[w] = "insert" /\ counts[c] = Null /\ MayWrite(w, {c})
        /\ owner' = [owner EXCEPT ![c] = w]
        /\ sent' = [sent EXCEPT ![w][c] = 0]
        /\ known' = [known EXCEPT ![w][c] = 1]
        /\ dirty' = [dirty EXCEPT ![w] = {c}]
        /\ todo' = [todo EXCEPT ![w] = Tail(@)]
        /\ pc' = [pc EXCEPT ![w] = "flush"]
        /\ UNCHANGED <<events, counts, added, started, overlapped, fails>>

-----------------------------------------------------------------------------
(* Mutants: the session is neither closed nor rolled back; it is reused.   *)
ReleaseNothing(w) == owner' = owner

ResetKeepsSession(w) ==
    /\ pc' = [pc EXCEPT ![w] = "idle"]
    /\ todo' = [todo EXCEPT ![w] = <<>>]
    /\ added' = [added EXCEPT ![w] = Zero]
    /\ UNCHANGED known
    /\ dirty' = [dirty EXCEPT ![w] = {}]
    /\ sent' = [sent EXCEPT ![w] = Nothing]

Release(w) == owner' = [c \in Channels |-> IF owner[c] = w THEN Nobody ELSE owner[c]]

Reset(w) ==
    /\ pc' = [pc EXCEPT ![w] = "idle"]
    /\ todo' = [todo EXCEPT ![w] = <<>>]
    /\ added' = [added EXCEPT ![w] = Zero]
    /\ known' = [known EXCEPT ![w] = Nothing]
    /\ dirty' = [dirty EXCEPT ![w] = {}]
    /\ sent' = [sent EXCEPT ![w] = Nothing]

(* Mutant: what is dirty at the commit is not flushed.                     *)
FinalCountSent(w, c) == sent[w][c]

(* db.commit: the last flush, which may wait, then the transaction's rows  *)
(* become visible and its locks are released.                              *)
FinalCount(w, c) == IF c \in dirty[w] THEN known[w][c] ELSE sent[w][c]

CommitBatch(w) ==
    /\ pc[w] = "flush" /\ todo[w] = <<>> /\ MayWrite(w, dirty[w])
    /\ events' = [c \in Channels |-> events[c] + added[w][c]]
    /\ counts' = [c \in Channels |-> IF FinalCount(w, c) = Null THEN counts[c]
                                     ELSE FinalCount(w, c)]
    /\ Release(w)
    /\ Reset(w)
    /\ UNCHANGED <<started, overlapped, fails>>

Rollback(w) == Release(w) /\ Reset(w) /\ UNCHANGED <<events, counts, started, overlapped>>

(* The other transaction's counter is committed first: IntegrityError.     *)
InsertConflict(w) ==
    /\ pc[w] = "insert" /\ counts[Head(todo[w])] # Null
    /\ Rollback(w)
    /\ UNCHANGED fails

(* A malformed event or a database error.                                  *)
FailBatch(w) ==
    /\ pc[w] # "idle" /\ fails < MaxFails
    /\ fails' = fails + 1
    /\ Rollback(w)

(* The counters a writer waits for, and PostgreSQL's deadlock detector,    *)
(* which aborts one of the transactions that wait for each other.          *)
Wants(w) == IF pc[w] = "insert" THEN {Head(todo[w])}
            ELSE IF pc[w] = "flush" THEN dirty[w] ELSE {}

WaitsFor(w, v) == v # w /\ \E c \in Wants(w) : owner[c] = v

InCycle(w) ==
    \E S \in SUBSET Writers :
        w \in S /\ \A v \in S : (\E u \in S : WaitsFor(v, u)) /\ (\E u \in S : WaitsFor(u, v))

DeadlockAbort(w) ==
    /\ InCycle(w)
    /\ Rollback(w)
    /\ UNCHANGED fails

Step(w) ==
    \/ InsertEvent(w) \/ BumpKnown(w) \/ BumpMissing(w) \/ InsertCounter(w)
    \/ CommitBatch(w) \/ InsertConflict(w) \/ DeadlockAbort(w)

Next == \E w \in Writers :
    \/ \E b \in Batches : StartBatch(w, b)
    \/ Step(w)
    \/ FailBatch(w)

Spec == Init /\ [][Next]_vars

(* Threads and the database make progress; batches need not arrive.        *)
FairSpec == Spec /\ \A w \in Writers : WF_vars(Step(w))

-----------------------------------------------------------------------------
Count0 == Nat \cup {Null}

TypeOK ==
    /\ events \in [Channels -> Nat]
    /\ counts \in [Channels -> Count0]
    /\ owner \in [Channels -> Writers \cup {Nobody}]
    /\ pc \in [Writers -> {"idle", "flush", "bump", "insert"}]
    /\ todo \in [Writers -> Seq(Channels)]
    /\ \A w \in Writers : pc[w] \in {"bump", "insert"} => todo[w] # <<>>
    /\ added \in [Writers -> [Channels -> Nat]]
    /\ known \in [Writers -> [Channels -> Count0]]
    /\ dirty \in [Writers -> SUBSET Channels]
    /\ sent \in [Writers -> [Channels -> Count0]]
    /\ started \in Nat /\ fails \in Nat /\ overlapped \in BOOLEAN

(* The number the Sources page shows for a channel never exceeds the       *)
(* events ingested on it: a batch rolled back, in a deadlock or a key      *)
(* conflict leaves no trace in the counter (ingest.py:15-27).              *)
NeverOvercounted == \A c \in Channels : counts[c] <= events[c]

(* Why: what a session holds of a counter is at most the committed events  *)
(* and its own, an invariant that other commits only make easier.          *)
(* Between the insert of an event and its bump there is one to spare.      *)
Due(w, c) == IF pc[w] \in {"bump", "insert"} /\ Head(todo[w]) = c THEN 1 ELSE 0

SessionsNeverOvercount ==
    \A w \in Writers, c \in Channels :
        /\ known[w][c] + Due(w, c) <= events[c] + added[w][c]
        /\ Due(w, c) <= added[w][c]
        /\ sent[w][c] <= events[c] + added[w][c]

IInv == NeverOvercounted /\ SessionsNeverOvercount

(* SourcesPanel.tsx:70-77: the "Eventi" of a channel are the events       *)
(* ingested on it.                                                         *)
SourcesShowEvents ==
    \A c \in Channels : counts[c] = events[c] \/ (counts[c] = Null /\ events[c] = 0)

(* That is so as long as no two batches have been in progress at once,     *)
(* through every rollback (ingest.py:15-36).                               *)
CountsExact == ~overlapped => SourcesShowEvents

(* Why: the one batch in progress holds, of every counter it has loaded,   *)
(* the committed events and its own; it has sent that value or will.       *)
OneAtATime == \A v, w \in Writers : pc[v] # "idle" /\ pc[w] # "idle" => v = w

SessionIsExact(w, c) ==
    IF known[w][c] = Null
    THEN added[w][c] = Due(w, c) /\ c \notin dirty[w] /\ sent[w][c] = Null
    ELSE /\ known[w][c] + Due(w, c) = events[c] + added[w][c]
         /\ c \in dirty[w] \/ sent[w][c] = known[w][c]

SessionsAreExact ==
    \A w \in Writers :
        /\ pc[w] = "idle" => known[w] = Nothing
        /\ pc[w] \in {"bump", "insert"} => dirty[w] = {}
        /\ pc[w] = "insert" => known[w][Head(todo[w])] = Null
        /\ \A c \in Channels : SessionIsExact(w, c)

EInv == ~overlapped => SourcesShowEvents /\ OneAtATime /\ SessionsAreExact

(* Every batch ends, answered or rolled back, even when two batches lock   *)
(* the counters of two channels in opposite orders (ingest.py:55-69).      *)
BatchesEnd == \A w \in Writers : pc[w] # "idle" ~> pc[w] = "idle"
=============================================================================
