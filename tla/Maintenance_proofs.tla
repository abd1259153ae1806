-------------------------- MODULE Maintenance_proofs --------------------------
(***************************************************************************)
(* A silence that is reported is real, and one process reports a source    *)
(* once per cooldown, for any number of tenants, sources and purge         *)
(* requests, and any thresholds with a retention that is off or no shorter *)
(* than the silence. The first needs to know what a deleted event may have *)
(* hidden; the second, which sources a round has behind it.                *)
(***************************************************************************)
EXTENDS Maintenance, TLAPS

SourceTypes == ListedIn(KnownSources)

(* What a process or thread is in the middle of. What ReadLast answers is  *)
(* there while sources are left to check.                                  *)
Purges(j) == job[j] \in [pc : {"purge"}, todo : Seq(ListedIn(Tenants))]

Judges(j) ==
    /\ j \in Looping /\ job[j].pc = "silence"
    /\ {"pc", "todo", "types", "asof", "pending"} \subseteq DOMAIN job[j]
    /\ job[j].todo \in Seq(ListedIn(Tenants)) /\ job[j].types \in Seq(SourceTypes)
    /\ job[j].asof \in Nat /\ job[j].asof <= now /\ job[j].pending \in Seq(Alert)
    /\ job[j].types # <<>> =>
          /\ {"tenant", "last", "silent"} \subseteq DOMAIN job[j]
          /\ job[j].tenant \in ListedIn(Tenants)
          /\ job[j].silent \in [SourceTypes -> BOOLEAN]

Shape ==
    /\ now >= Start
    /\ \A j \in Looping : job[j] = Idle \/ Purges(j) \/ Judges(j)

(* The history and the table: the newest event of a source is still there  *)
(* unless the purge has been entitled to it.                               *)
NewestIsNewest == \A e \in events : e.at <= newest[e.source]

Gone(s) == Retention > 0 /\ newest[s] < now - Retention

NewestIsThere ==
    \A s \in Sources : newest[s] = Null \/ Gone(s) \/ \E e \in events : e.source = s /\ e.at = newest[s]

(* What a round has read of a source that was not silent shows that it was *)
(* not, and what it is about to report is silent.                          *)
ReadIsRight ==
    \A j \in Looping : Evaluates(j) =>
        /\ job[j].types # <<>> => \A k \in SourceTypes :
              ~job[j].silent[k] => job[j].last[k] \in Nat /\ job[j].asof - job[j].last[k] < SilentAfter
        /\ \A n \in DOMAIN job[j].pending : job[j].pending[n].silent

SilenceInv == NewestIsNewest /\ NewestIsThere /\ ReadIsRight /\ SilenceIsReal

(* A round has each source once, and what it is about to report is not     *)
(* among those it still has to check.                                      *)
Unchecked(j) ==
    { s \in Sources :
        \/ s[1] \in ListedIn(job[j].todo)
        \/ job[j].types # <<>> /\ s[1] = job[j].tenant /\ s[2] \in ListedIn(job[j].types) }

OncePerRound ==
    \A j \in Looping : Evaluates(j) =>
        /\ IsInjective(job[j].todo) /\ IsInjective(job[j].types)
        /\ job[j].types # <<>> => job[j].tenant \notin ListedIn(job[j].todo)
        /\ \A n \in DOMAIN job[j].pending : job[j].pending[n].source \notin Unchecked(j)
        /\ \A m, n \in DOMAIN job[j].pending :
              job[j].pending[m].source = job[j].pending[n].source => m = n

(* What it is about to report has no alert in the cooldown.                *)
PendingIsDue ==
    \A j \in Looping : Evaluates(j) =>
        \A m \in DOMAIN alerts, n \in DOMAIN job[j].pending :
            alerts[m].source = job[j].pending[n].source =>
                job[j].pending[n].checked > alerts[m].created + Silent

CooldownInv == OncePerRound /\ PendingIsDue /\ OneAlertPerCooldown

-----------------------------------------------------------------------------
(* Taking the head off a list without repetitions.                         *)
LEMMA TailFacts ==
    ASSUME NEW S, NEW s \in Seq(S), s # <<>>
    PROVE  /\ Head(s) \in S /\ Head(s) \in ListedIn(s)
           /\ Tail(s) \in Seq(S) /\ ListedIn(Tail(s)) \subseteq ListedIn(s)
           /\ IsInjective(s) => IsInjective(Tail(s)) /\ Head(s) \notin ListedIn(Tail(s))
<1>1. Len(s) \in Nat \ {0} /\ DOMAIN s = 1..Len(s) /\ Head(s) = s[1] /\ 1 \in DOMAIN s
  OBVIOUS
<1>2. /\ Tail(s) \in Seq(S) /\ DOMAIN Tail(s) = 1..(Len(s) - 1)
      /\ \A n \in DOMAIN Tail(s) : n + 1 \in DOMAIN s /\ Tail(s)[n] = s[n + 1] /\ n # 0
  BY <1>1
<1>3. ListedIn(Tail(s)) \subseteq ListedIn(s)
  BY <1>2 DEF ListedIn
<1>4. ASSUME IsInjective(s) PROVE IsInjective(Tail(s)) /\ Head(s) \notin ListedIn(Tail(s))
  <2>1. \A m, n \in DOMAIN s : s[m] = s[n] => m = n
    BY <1>4 DEF IsInjective
  <2>2. ASSUME NEW m \in DOMAIN Tail(s), NEW n \in DOMAIN Tail(s), Tail(s)[m] = Tail(s)[n]
        PROVE  m = n
    BY <1>2, <2>1, <2>2
  <2>3. ASSUME NEW n \in DOMAIN Tail(s) PROVE Tail(s)[n] # Head(s)
    <3>1. n + 1 # 1
      BY <1>2
    <3> QED
      BY <1>1, <1>2, <2>1, <3>1
  <2> QED
    BY <2>2, <2>3 DEF IsInjective, ListedIn
<1> QED
  BY <1>1, <1>2, <1>3, <1>4 DEF ListedIn

LEMMA AppendFacts ==
    ASSUME NEW S, NEW s \in Seq(S), NEW e \in S
    PROVE  /\ Append(s, e) \in Seq(S)
           /\ DOMAIN Append(s, e) = 1..(Len(s) + 1) /\ DOMAIN s = 1..Len(s) /\ Len(s) \in Nat
           /\ Append(s, e)[Len(s) + 1] = e
           /\ \A n \in DOMAIN s : Append(s, e)[n] = s[n]
OBVIOUS

(* The first instant is late enough for every cutoff to be a time.         *)
LEMMA Times == Start \in Nat /\ Start >= Late /\ SilentAfter \in Nat /\ SilentAfter >= 1
BY ThresholdsAssumption DEF Start, SilentAfter, Later

LEMMA SourceParts == \A s \in Sources : s = <<s[1], s[2]>> /\ s[1] \in ListedIn(Tenants) /\ s[2] \in SourceTypes
BY DEF Sources, SourceTypes

(* What one iteration over the sources adds.                               *)
LEMMA CheckSourceEffect ==
    ASSUME TypeOK, Shape, NEW j \in Looping, CheckSource(j)
    PROVE  /\ Judges(j) /\ job[j].types # <<>> /\ Head(job[j].types) \in SourceTypes
           /\ DOMAIN job' = Looping /\ \A i \in Looping : i # j => job'[i] = job[i]
           /\ DOMAIN job'[j] = DOMAIN job[j]
           /\ \A f \in DOMAIN job[j] \ {"types", "pending"} : job'[j][f] = job[j][f]
           /\ job'[j].types = Tail(job[j].types)
           /\ \/ job'[j].pending = job[j].pending
              \/ LET k == Head(job[j].types)
                 IN  /\ job'[j].pending = Append(job[j].pending,
                            [source |-> <<job[j].tenant, k>>, created |-> job[j].asof,
                             checked |-> now, silent |-> job[j].silent[k]])
                     /\ ~RecentAlertExists(<<job[j].tenant, k>>)
                     /\ HealthStatus(IF job[j].last[k] = Null THEN Null
                                     ELSE Later(job[j].asof - job[j].last[k], 0)) = "silent"
<1>1. Judges(j) /\ job[j].types # <<>>
  BY DEF CheckSource, Evaluates, Shape, Idle, Purges
<1>2. Head(job[j].types) \in SourceTypes
  BY <1>1, TailFacts DEF Judges
<1>3. DOMAIN job = Looping
  BY DEF TypeOK
<1> QED
  BY <1>1, <1>2, <1>3 DEF CheckSource, Judges

LEMMA ShapeKept ==
    ASSUME now \in Nat, now' \in Nat, now' >= now, NEW i \in Looping, job'[i] = job[i],
           job[i] = Idle \/ Purges(i) \/ Judges(i)
    PROVE  (job[i] = Idle \/ Purges(i) \/ Judges(i))'
BY DEF Purges, Judges

LEMMA TypeInit == Init => TypeOK /\ Shape
BY Times, BoundsAssumption, ThresholdsAssumption DEF Init, TypeOK, Shape, Idle, Alert, Null

LEMMA ShapeTypes == Shape /\ DOMAIN job = Looping => \A j \in Looping : job[j].pc \in {"idle", "purge", "silence"}
BY DEF Shape, Idle, Purges, Judges

LEMMA IngestTypes ==
    ASSUME TypeOK, Shape, NEW s \in Sources, NEW lag \in Lags, Ingest(s, now - lag)
    PROVE  TypeOK' /\ Shape'
<1>1. now - lag \in Nat
  BY Times, ThresholdsAssumption, LagsAssumption DEF TypeOK, Shape
<1>2. newest' \in [Sources -> Nat \cup {Null}]
  BY <1>1 DEF TypeOK, Ingest, Later
<1>3. ingested' \in 0..MaxEvents
  BY BoundsAssumption DEF TypeOK, Ingest
<1>4. events' \subseteq [source : Sources, at : Nat]
  BY <1>1 DEF TypeOK, Ingest
<1> QED
  BY <1>2, <1>3, <1>4 DEF TypeOK, Ingest, Shape, Purges, Judges

LEMMA RunTypes ==
    ASSUME TypeOK, Shape, NEW j \in Looping, StartRound(j) \/ Continue(j) \/ Fail(j)
    PROVE  TypeOK' /\ Shape'
<1> USE ListsAssumption
<1>1. now \in Nat /\ DOMAIN job = Looping /\ now' = now
  BY DEF TypeOK, StartRound, Continue, PurgeTenant, StartSilence, ReadLast, CheckSource, CommitSilence, Fail
<1>2. DOMAIN job' = Looping /\ \A i \in Looping : i # j => job'[i] = job[i]
  BY <1>1 DEF StartRound, Continue, PurgeTenant, StartSilence, ReadLast, CheckSource, CommitSilence, Fail
<1>3. /\ job'[j] = Idle \/ Purges(j)' \/ Judges(j)'
      /\ alerts' \in Seq(Alert) /\ events' \subseteq events
  <2>1. CASE StartRound(j)
    BY <1>1, <2>1 DEF StartRound, Purges, TypeOK
  <2>2. CASE PurgeTenant(j)
    <3>1. Purges(j)
      BY <2>2 DEF PurgeTenant, Shape, Idle, Judges
    <3>2. Tail(job[j].todo) \in Seq(ListedIn(Tenants))
      BY <2>2, <3>1, TailFacts DEF PurgeTenant, Purges
    <3> QED
      BY <1>1, <2>2, <3>1, <3>2 DEF PurgeTenant, Purges, TypeOK
  <2>3. CASE StartSilence(j)
    BY <1>1, <2>3 DEF StartSilence, Judges, TypeOK
  <2>4. CASE ReadLast(j)
    <3>1. Judges(j) /\ job[j].todo # <<>>
      BY <2>4 DEF ReadLast, Evaluates, Shape, Idle, Purges
    <3>2. Head(job[j].todo) \in ListedIn(Tenants) /\ Tail(job[j].todo) \in Seq(ListedIn(Tenants))
      BY <3>1, TailFacts DEF Judges
    <3> DEFINE t == Head(job[j].todo)
               silent == [k \in SourceTypes |->
                   newest[<<t, k>>] = Null \/ now - newest[<<t, k>>] >= SilentAfter]
    <3>3. job'[j] = [pc |-> "silence", todo |-> Tail(job[j].todo), types |-> KnownSources,
                     asof |-> job[j].asof, pending |-> job[j].pending, tenant |-> t,
                     last |-> LastBySource(t), silent |-> silent]
      BY <1>1, <2>4 DEF ReadLast, SourceTypes
    <3>4. silent \in [SourceTypes -> BOOLEAN]
      OBVIOUS
    <3> HIDE DEF silent, t
    <3>5. Judges(j)'
      BY <1>1, <3>1, <3>2, <3>3, <3>4 DEF Judges, t, SourceTypes
    <3> QED
      BY <2>4, <3>5 DEF ReadLast, TypeOK
  <2>5. CASE CheckSource(j)
    <3>1. /\ Judges(j) /\ job[j].types # <<>> /\ Head(job[j].types) \in SourceTypes
          /\ DOMAIN job'[j] = DOMAIN job[j]
          /\ \A f \in DOMAIN job[j] \ {"types", "pending"} : job'[j][f] = job[j][f]
          /\ job'[j].types = Tail(job[j].types)
      BY <2>5, CheckSourceEffect
    <3>2. Tail(job[j].types) \in Seq(SourceTypes)
      BY <3>1, TailFacts DEF Judges
    <3>3. job'[j].pending \in Seq(Alert)
      <4> DEFINE k == Head(job[j].types)
                 a == [source |-> <<job[j].tenant, k>>, created |-> job[j].asof,
                       checked |-> now, silent |-> job[j].silent[k]]
      <4>1. a \in Alert
        BY <1>1, <3>1 DEF Alert, Judges, Sources, SourceTypes
      <4>2. job'[j].pending = job[j].pending \/ job'[j].pending = Append(job[j].pending, a)
        BY <2>5, CheckSourceEffect
      <4>3. job[j].pending \in Seq(Alert)
        BY <3>1 DEF Judges
      <4> HIDE DEF a
      <4>4. Append(job[j].pending, a) \in Seq(Alert)
        BY <4>1, <4>3, AppendFacts
      <4> QED
        BY <4>2, <4>3, <4>4
    <3>4. Judges(j)'
      BY <1>1, <3>1, <3>2, <3>3 DEF Judges
    <3> QED
      BY <2>5, <3>4 DEF CheckSource, TypeOK
  <2>6. CASE CommitSilence(j)
    <3>1. job[j].pending \in Seq(Alert)
      BY <2>6 DEF CommitSilence, Evaluates, Shape, Idle, Purges, Judges
    <3> QED
      BY <1>1, <2>6, <3>1 DEF CommitSilence, TypeOK
  <2>7. CASE Fail(j)
    BY <1>1, <2>7 DEF Fail, TypeOK
  <2> QED
    BY <2>1, <2>2, <2>3, <2>4, <2>5, <2>6, <2>7 DEF Continue
<1>4. \A i \in Looping : job'[i] = Idle \/ Purges(i)' \/ Judges(i)'
  <2> SUFFICES ASSUME NEW i \in Looping, i # j PROVE job'[i] = Idle \/ Purges(i)' \/ Judges(i)'
    BY <1>3
  <2>1. (job[i] = Idle \/ Purges(i) \/ Judges(i))'
    BY <1>1, <1>2, ShapeKept DEF Shape
  <2> QED
    BY <2>1
<1>5. Shape'
  BY <1>1, <1>4 DEF Shape
<1>6. \A i \in Looping : job'[i].pc \in {"idle", "purge", "silence"}
  BY <1>4 DEF Idle, Purges, Judges
<1>7. newest' = newest /\ ingested' = ingested
  BY DEF StartRound, Continue, PurgeTenant, StartSilence, ReadLast, CheckSource, CommitSilence, Fail
<1>8. fails' \in 0..MaxFails
  BY BoundsAssumption
     DEF TypeOK, StartRound, Continue, PurgeTenant, StartSilence, ReadLast, CheckSource, CommitSilence, Fail
<1> QED
  BY <1>1, <1>2, <1>3, <1>5, <1>6, <1>7, <1>8 DEF TypeOK

LEMMA TypeStep == TypeOK /\ Shape /\ [Next]_vars => TypeOK' /\ Shape'
<1> SUFFICES ASSUME TypeOK, Shape, [Next]_vars PROVE TypeOK' /\ Shape'
  OBVIOUS
<1>1. CASE \E s \in Sources, lag \in Lags : Ingest(s, now - lag)
  BY <1>1, IngestTypes
<1>2. CASE Tick
  <2>1. now' \in Nat /\ now' >= now /\ now' >= Start
    BY <1>2, Times DEF Tick, TypeOK, Shape
  <2>2. \A i \in Looping : (job[i] = Idle \/ Purges(i) \/ Judges(i))'
    BY <1>2, <2>1, ShapeKept DEF Tick, TypeOK, Shape
  <2> QED
    BY <1>2, <2>1, <2>2 DEF Tick, TypeOK, Shape
<1>3. CASE \E j \in Looping : StartRound(j) \/ Continue(j) \/ Fail(j)
  BY <1>3, RunTypes
<1>4. ASSUME NEW t \in ListedIn(Tenants), RequestPurge(t) PROVE TypeOK' /\ Shape'
  BY <1>4 DEF RequestPurge, TypeOK, Shape, Purges, Judges
<1>5. CASE UNCHANGED vars
  BY <1>5 DEF vars, TypeOK, Shape, Purges, Judges
<1> QED
  BY <1>1, <1>2, <1>3, <1>4, <1>5 DEF Next

(* Every state has the types its variables are declared with.              *)
THEOREM TypeCorrect == Spec => []TypeOK
<1> QED
  BY TypeInit, TypeStep, PTL DEF Spec

-----------------------------------------------------------------------------
(* What is in the table, and what has been.                                *)
LEMMA TableStep ==
    ASSUME TypeOK, Shape, NewestIsNewest, NewestIsThere, [Next]_vars
    PROVE  NewestIsNewest' /\ NewestIsThere'
<1> USE ThresholdsAssumption DEF NewestIsNewest, NewestIsThere, Gone
<1>0. now \in Nat /\ newest \in [Sources -> Nat \cup {Null}] /\ events \subseteq [source : Sources, at : Nat]
  BY DEF TypeOK
<1>1. ASSUME NEW s \in Sources, NEW lag \in Lags, Ingest(s, now - lag)
      PROVE  NewestIsNewest' /\ NewestIsThere'
  <2> DEFINE t == now - lag
  <2>1. t \in Nat /\ now' = now
    BY <1>1, Times, LagsAssumption DEF TypeOK, Shape, Ingest
  <2>2. /\ events' = events \cup {[source |-> s, at |-> t]}
        /\ newest' \in [Sources -> Nat \cup {Null}]
        /\ \A u \in Sources : u # s => newest'[u] = newest[u]
        /\ newest'[s] = Later(newest[s], t)
    BY <1>0, <1>1, <2>1 DEF Ingest, Later
  <2> HIDE DEF t
  <2>3. newest'[s] >= t /\ \A u \in Sources : newest'[u] >= newest[u]
    BY <1>0, <2>1, <2>2 DEF Later, Null
  <2>4. ASSUME NEW e \in events' PROVE e.at <= newest'[e.source]
    <3>1. CASE e \in events
      BY <1>0, <2>2, <2>3, <3>1 DEF Null
    <3> QED
      BY <2>2, <2>3, <3>1
  <2>5. ASSUME NEW u \in Sources
        PROVE  newest'[u] = Null \/ (Retention > 0 /\ newest'[u] < now' - Retention)
               \/ \E e \in events' : e.source = u /\ e.at = newest'[u]
    <3>1. CASE newest'[u] = newest[u]
      BY <1>0, <2>1, <2>2, <3>1
    <3>2. CASE u = s /\ newest'[u] = t
      <4> DEFINE e == [source |-> s, at |-> t]
      <4>1. e \in events' /\ e.source = s /\ e.at = t
        BY <2>2
      <4> QED
        BY <3>2, <4>1
    <3> QED
      BY <2>2, <3>1, <3>2 DEF Later
  <2> QED
    BY <2>4, <2>5
<1>2. CASE Tick
  BY <1>0, <1>2 DEF Tick, Null
<1>3. ASSUME \/ \E j \in Looping : PurgeTenant(j)
             \/ \E t \in ListedIn(Tenants) : RequestPurge(t)
      PROVE  NewestIsNewest' /\ NewestIsThere'
  <2>1. /\ newest' = newest /\ now' = now /\ events' \subseteq events
        /\ \A e \in events \ events' : Retention > 0 /\ e.at < now - Retention
    BY <1>3 DEF PurgeTenant, RequestPurge, Expired
  <2> QED
    BY <1>0, <2>1
<1>4. CASE UNCHANGED <<now, events, newest>>
  BY <1>4
<1> QED
  BY <1>1, <1>2, <1>3, <1>4
     DEF Next, Continue, StartRound, StartSilence, ReadLast, CheckSource, CommitSilence, Fail, vars

(* What ReadLast reads of a source that is not silent is its newest event. *)
LEMMA LastIsNewest ==
    ASSUME TypeOK, NewestIsNewest, NewestIsThere, Retention = 0 \/ Retention >= SilentAfter,
           NEW t \in ListedIn(Tenants), NEW k \in SourceTypes,
           newest[<<t, k>>] # Null, now - newest[<<t, k>>] < SilentAfter
    PROVE  LastBySource(t)[k] = newest[<<t, k>>] /\ newest[<<t, k>>] \in Nat
<1> DEFINE s == <<t, k>>
           at == { e.at : e \in { e \in events : e.source = s } }
<1>1. s \in Sources /\ newest[s] \in Nat /\ now \in Nat
  BY DEF TypeOK, Sources, SourceTypes
<1>2. ~Gone(s)
  BY <1>1, Times, ThresholdsAssumption DEF Gone
<1>3. newest[s] \in at
  BY <1>1, <1>2 DEF NewestIsThere
<1>4. \A y \in at : y <= newest[s] /\ y \in Nat
  BY DEF NewestIsNewest, TypeOK
<1>5. LastBySource(t)[k] = IF at = {} THEN Null ELSE CHOOSE x \in at : \A y \in at : y <= x
  BY DEF LastBySource, SourceTypes
<1> HIDE DEF at
<1>6. \A x \in at : (\A y \in at : y <= x) => x = newest[s]
  BY <1>1, <1>3, <1>4
<1> QED
  BY <1>1, <1>3, <1>4, <1>5, <1>6

(* A round that starts, purges or fails leaves its process outside the     *)
(* evaluation, and the alerts and the other processes as they were.        *)
LEMMA NotEvaluating ==
    ASSUME TypeOK, Shape, NEW j \in Looping, StartRound(j) \/ PurgeTenant(j) \/ Fail(j)
    PROVE  /\ \A i \in Looping : i # j => job'[i] = job[i]
           /\ job'[j].pc # "silence" /\ alerts' = alerts
<1>1. DOMAIN job = Looping
  BY DEF TypeOK
<1>2. CASE StartRound(j)
  BY <1>1, <1>2 DEF StartRound
<1>3. CASE Fail(j)
  BY <1>1, <1>3 DEF Fail, Idle
<1>4. CASE PurgeTenant(j)
  <2>1. Purges(j)
    BY <1>4 DEF PurgeTenant, Shape, Idle, Judges
  <2>2. job'[j].pc = "purge"
    BY <1>1, <1>4, <2>1 DEF PurgeTenant, Purges
  <2> QED
    BY <1>1, <1>4, <2>2 DEF PurgeTenant
<1> QED
  BY <1>2, <1>3, <1>4

LEMMA ReadStep ==
    ASSUME TypeOK, Shape, SilenceInv, Retention = 0 \/ Retention >= SilentAfter, [Next]_vars
    PROVE  ReadIsRight' /\ SilenceIsReal'
<1> USE DEF SilenceInv, ReadIsRight, SilenceIsReal
<1>1. DOMAIN job = Looping /\ now \in Nat
  BY DEF TypeOK
<1> DEFINE Right(j) == Evaluates(j) =>
              /\ job[j].types # <<>> => \A k \in SourceTypes :
                    ~job[j].silent[k] => job[j].last[k] \in Nat /\ job[j].asof - job[j].last[k] < SilentAfter
              /\ \A n \in DOMAIN job[j].pending : job[j].pending[n].silent
<1>2. \A j \in Looping : Right(j)
  OBVIOUS
<1>3. \A j \in Looping : job'[j] = job[j] => Right(j)'
  BY <1>2 DEF Evaluates
<1> HIDE DEF Right
<1>4. ASSUME NEW j \in Looping, \A i \in Looping : i # j => job'[i] = job[i], Right(j)', SilenceIsReal'
      PROVE  ReadIsRight' /\ SilenceIsReal'
  BY <1>3, <1>4 DEF Right
<1>5. ASSUME NEW j \in Looping, StartRound(j) \/ PurgeTenant(j) \/ Fail(j)
      PROVE  ReadIsRight' /\ SilenceIsReal'
  <2>1. /\ \A i \in Looping : i # j => job'[i] = job[i]
        /\ job'[j].pc # "silence" /\ alerts' = alerts
    BY <1>1, <1>5, NotEvaluating
  <2> QED
    BY <1>4, <2>1 DEF Right, Evaluates
<1>6. ASSUME NEW j \in Looping, StartSilence(j) PROVE ReadIsRight' /\ SilenceIsReal'
  <2>1. /\ \A i \in Looping : i # j => job'[i] = job[i]
        /\ job'[j].types = <<>> /\ job'[j].pending = <<>> /\ alerts' = alerts
    BY <1>1, <1>6 DEF StartSilence
  <2> QED
    BY <1>4, <2>1 DEF Right, Evaluates
<1>7. ASSUME NEW j \in Looping, ReadLast(j) PROVE ReadIsRight' /\ SilenceIsReal'
  <2> DEFINE t == Head(job[j].todo)
  <2>1. Judges(j) /\ job[j].todo # <<>>
    BY <1>7 DEF ReadLast, Evaluates, Shape, Idle, Purges
  <2>2. t \in ListedIn(Tenants) /\ job[j].asof \in Nat /\ job[j].asof <= now
    BY <2>1, TailFacts DEF Judges
  <2>3. /\ \A i \in Looping : i # j => job'[i] = job[i]
        /\ job'[j].last = LastBySource(t) /\ job'[j].pending = job[j].pending
        /\ job'[j].asof = job[j].asof /\ alerts' = alerts
        /\ \A k \in SourceTypes : job'[j].silent[k] =
              (newest[<<t, k>>] = Null \/ now - newest[<<t, k>>] >= SilentAfter)
    BY <1>1, <1>7 DEF ReadLast, SourceTypes
  <2>4. ASSUME NEW k \in SourceTypes, ~job'[j].silent[k]
        PROVE  job'[j].last[k] \in Nat /\ job'[j].asof - job'[j].last[k] < SilentAfter
    <3>1. newest[<<t, k>>] # Null /\ ~(now - newest[<<t, k>>] >= SilentAfter)
      BY <2>3, <2>4
    <3>2. newest[<<t, k>>] \in Nat
      BY <2>2, <3>1 DEF TypeOK, Sources, SourceTypes
    <3>3. LastBySource(t)[k] = newest[<<t, k>>]
      BY <1>1, <2>2, <3>1, <3>2, LastIsNewest, Times
    <3> QED
      BY <1>1, <2>2, <2>3, <3>1, <3>2, <3>3, Times
  <2>5. Right(j)'
    BY <1>2, <1>7, <2>3, <2>4 DEF Right, Evaluates, ReadLast
  <2> QED
    BY <1>4, <2>3, <2>5
<1>8. ASSUME NEW j \in Looping, CheckSource(j) PROVE ReadIsRight' /\ SilenceIsReal'
  <2> DEFINE k == Head(job[j].types)
             a == [source |-> <<job[j].tenant, k>>, created |-> job[j].asof,
                   checked |-> now, silent |-> job[j].silent[k]]
  <2>1. /\ Judges(j) /\ job[j].types # <<>> /\ k \in SourceTypes
        /\ \A i \in Looping : i # j => job'[i] = job[i]
        /\ \A f \in DOMAIN job[j] \ {"types", "pending"} : job'[j][f] = job[j][f]
        /\ alerts' = alerts
    BY <1>8, CheckSourceEffect DEF CheckSource
  <2>2. /\ job'[j].silent = job[j].silent /\ job'[j].last = job[j].last /\ job'[j].asof = job[j].asof
        /\ job[j].asof \in Nat /\ job[j].silent[k] \in BOOLEAN /\ job[j].pending \in Seq(Alert)
    BY <2>1 DEF Judges
  <2>3. /\ \A c \in SourceTypes : ~job[j].silent[c] =>
               job[j].last[c] \in Nat /\ job[j].asof - job[j].last[c] < SilentAfter
        /\ \A n \in DOMAIN job[j].pending : job[j].pending[n].silent
    BY <1>2, <1>8, <2>1 DEF Right, CheckSource
  <2>4. \A n \in DOMAIN job'[j].pending : job'[j].pending[n].silent
    <3>1. CASE job'[j].pending = job[j].pending
      BY <2>3, <3>1
    <3>2. CASE /\ job'[j].pending = Append(job[j].pending, a)
               /\ HealthStatus(IF job[j].last[k] = Null THEN Null
                               ELSE Later(job[j].asof - job[j].last[k], 0)) = "silent"
      <4>1. job[j].silent[k]
        <5> SUFFICES ASSUME ~job[j].silent[k] PROVE FALSE
          OBVIOUS
        <5>1. job[j].last[k] \in Nat /\ job[j].asof - job[j].last[k] < SilentAfter
          BY <2>1, <2>3
        <5>2. Later(job[j].asof - job[j].last[k], 0) \in Nat
          BY <2>2, <5>1 DEF Later
        <5>3. Later(job[j].asof - job[j].last[k], 0) < SilentAfter
          BY <2>2, <5>1, Times DEF Later
        <5> QED
          BY <3>2, <5>1, <5>2, <5>3, Times DEF HealthStatus, Null
      <4>2. a \in [source : {<<job[j].tenant, k>>}, created : {job[j].asof}, checked : {now}, silent : {TRUE}]
        BY <2>2, <4>1
      <4>3. a.silent
        BY <4>1
      <4> HIDE DEF a
      <4>4. /\ DOMAIN job'[j].pending = 1..(Len(job[j].pending) + 1)
            /\ DOMAIN job[j].pending = 1..Len(job[j].pending) /\ Len(job[j].pending) \in Nat
            /\ job'[j].pending[Len(job[j].pending) + 1] = a
            /\ \A n \in DOMAIN job[j].pending : job'[j].pending[n] = job[j].pending[n]
        BY <2>2, <3>2
      <4> SUFFICES ASSUME NEW n \in DOMAIN job'[j].pending PROVE job'[j].pending[n].silent
        OBVIOUS
      <4>5. CASE n = Len(job[j].pending) + 1
        BY <4>3, <4>4, <4>5
      <4>6. CASE n \in DOMAIN job[j].pending
        BY <2>3, <4>4, <4>6
      <4> QED
        BY <4>4, <4>5, <4>6
    <3> QED
      BY <1>8, <3>1, <3>2, CheckSourceEffect
  <2>5. Right(j)'
    BY <2>2, <2>3, <2>4 DEF Right
  <2> QED
    BY <1>4, <2>1, <2>5
<1>9. ASSUME NEW j \in Looping, CommitSilence(j) PROVE ReadIsRight' /\ SilenceIsReal'
  <2>1. job'[j].pc # "silence" /\ \A i \in Looping : i # j => job'[i] = job[i]
    BY <1>1, <1>9 DEF CommitSilence, Idle
  <2>2. /\ alerts \in Seq(Alert) /\ job[j].pending \in Seq(Alert) /\ alerts' = alerts \o job[j].pending
        /\ \A n \in DOMAIN job[j].pending : job[j].pending[n].silent
    BY <1>2, <1>9 DEF CommitSilence, TypeOK, Shape, Evaluates, Idle, Purges, Judges, Right
  <2>3. \A n \in DOMAIN alerts' : alerts'[n].silent
    BY <2>2 DEF SilenceInv
  <2> QED
    BY <1>4, <2>1, <2>3 DEF Right, Evaluates
<1>10. CASE UNCHANGED <<job, alerts>>
  BY <1>10 DEF Evaluates
<1>11. CASE \E s \in Sources, lag \in Lags : Ingest(s, now - lag)
  BY <1>10, <1>11 DEF Ingest
<1>12. CASE Tick
  BY <1>10, <1>12 DEF Tick
<1>13. CASE UNCHANGED vars
  BY <1>10, <1>13 DEF vars
<1>14. CASE \E t \in ListedIn(Tenants) : RequestPurge(t)
  BY <1>10, <1>14 DEF RequestPurge
<1> QED
  BY <1>5, <1>6, <1>7, <1>8, <1>9, <1>11, <1>12, <1>13, <1>14 DEF Next, Continue

(* A retention that is off, or no shorter than the silence, makes every    *)
(* silence alert true: no source it names had sent anything recent.        *)
THEOREM SilencesAreReal ==
    ASSUME Retention = 0 \/ Retention >= SilentAfter
    PROVE  Spec => []SilenceIsReal
<1>1. Init => TypeOK /\ Shape /\ SilenceInv
  BY TypeInit
     DEF Init, SilenceInv, NewestIsNewest, NewestIsThere, ReadIsRight, SilenceIsReal, Evaluates, Idle
<1>2. TypeOK /\ Shape /\ SilenceInv /\ [Next]_vars => (TypeOK /\ Shape /\ SilenceInv)'
  BY TypeStep, TableStep, ReadStep DEF SilenceInv
<1>3. SilenceInv => SilenceIsReal
  BY DEF SilenceInv
<1> QED
  BY <1>1, <1>2, <1>3, PTL DEF Spec

-----------------------------------------------------------------------------
(* What CooldownInv says of one round.                                     *)
RoundOnce(j) ==
    /\ IsInjective(job[j].todo) /\ IsInjective(job[j].types)
    /\ job[j].types # <<>> => job[j].tenant \notin ListedIn(job[j].todo)
    /\ \A n \in DOMAIN job[j].pending : job[j].pending[n].source \notin Unchecked(j)
    /\ \A m, n \in DOMAIN job[j].pending :
          job[j].pending[m].source = job[j].pending[n].source => m = n

RoundDue(j) ==
    \A m \in DOMAIN alerts, n \in DOMAIN job[j].pending :
        alerts[m].source = job[j].pending[n].source =>
            job[j].pending[n].checked > alerts[m].created + Silent

LEMMA StartSilenceOnce ==
    ASSUME TypeOK, Shape, NEW j \in Looping, StartSilence(j)
    PROVE  RoundOnce(j)' /\ RoundDue(j)'
<1>1. job'[j].todo = Tenants /\ job'[j].types = <<>> /\ job'[j].pending = <<>>
  BY DEF TypeOK, StartSilence
<1> QED
  BY <1>1, ListsAssumption DEF RoundOnce, RoundDue, IsInjective, Unchecked

LEMMA ReadLastOnce ==
    ASSUME TypeOK, Shape, NEW j \in Looping, ReadLast(j), RoundOnce(j), RoundDue(j)
    PROVE  RoundOnce(j)' /\ RoundDue(j)'
<1>1. Judges(j) /\ job[j].todo # <<>> /\ job[j].types = <<>>
  BY DEF ReadLast, Evaluates, Shape, Idle, Purges
<1>2. /\ Head(job[j].todo) \in ListedIn(job[j].todo)
      /\ ListedIn(Tail(job[j].todo)) \subseteq ListedIn(job[j].todo)
      /\ IsInjective(Tail(job[j].todo)) /\ Head(job[j].todo) \notin ListedIn(Tail(job[j].todo))
  BY <1>1, TailFacts DEF Judges, RoundOnce
<1>3. /\ job'[j].todo = Tail(job[j].todo) /\ job'[j].types = KnownSources
      /\ job'[j].tenant = Head(job[j].todo) /\ job'[j].pending = job[j].pending /\ alerts' = alerts
  BY DEF TypeOK, ReadLast
<1>4. Unchecked(j)' \subseteq Unchecked(j)
  BY <1>2, <1>3 DEF Unchecked
<1>5. \A n \in DOMAIN job'[j].pending : job'[j].pending[n].source \notin Unchecked(j)'
  BY <1>3, <1>4 DEF RoundOnce
<1>6. RoundDue(j)'
  BY <1>3 DEF RoundDue
<1> QED
  BY <1>2, <1>3, <1>5, <1>6, ListsAssumption DEF RoundOnce

LEMMA CheckSourceOnce ==
    ASSUME TypeOK, Shape, NEW j \in Looping, CheckSource(j), RoundOnce(j), RoundDue(j)
    PROVE  RoundOnce(j)' /\ RoundDue(j)'
<1> DEFINE k == Head(job[j].types)
           s == <<job[j].tenant, k>>
           a == [source |-> s, created |-> job[j].asof, checked |-> now, silent |-> job[j].silent[k]]
           p == job[j].pending
<1>1. /\ Judges(j) /\ job[j].types # <<>> /\ k \in SourceTypes
      /\ \A f \in DOMAIN job[j] \ {"types", "pending"} : job'[j][f] = job[j][f]
      /\ job'[j].types = Tail(job[j].types) /\ alerts' = alerts
  BY CheckSourceEffect DEF CheckSource
<1>2. /\ job'[j].todo = job[j].todo /\ job'[j].tenant = job[j].tenant
      /\ p \in Seq(Alert) /\ job[j].types \in Seq(SourceTypes)
  BY <1>1 DEF Judges
<1>3. /\ k \in ListedIn(job[j].types) /\ ListedIn(Tail(job[j].types)) \subseteq ListedIn(job[j].types)
      /\ IsInjective(Tail(job[j].types)) /\ k \notin ListedIn(Tail(job[j].types))
  BY <1>1, <1>2, TailFacts DEF RoundOnce
<1>4. Tail(job[j].types) # <<>> => job[j].types # <<>>
  BY <1>1
<1>8. s \in Sources
  BY <1>1 DEF Judges, Sources, SourceTypes
<1>5. s \in Unchecked(j) /\ Unchecked(j)' \subseteq Unchecked(j) /\ s \notin Unchecked(j)'
  BY <1>1, <1>2, <1>3, <1>8 DEF Unchecked, RoundOnce
<1>6. CASE job'[j].pending = p
  BY <1>1, <1>2, <1>3, <1>5, <1>6 DEF RoundOnce, RoundDue
<1>7. CASE job'[j].pending = Append(p, a) /\ ~RecentAlertExists(s)
  <2>1. a.source = s /\ a.checked = now
    OBVIOUS
  <2>2. a \in Alert
    BY <1>1 DEF Alert, Judges, Sources, SourceTypes, TypeOK
  <2> HIDE DEF a
  <2>3. /\ DOMAIN job'[j].pending = 1..(Len(p) + 1) /\ DOMAIN p = 1..Len(p) /\ Len(p) \in Nat
        /\ job'[j].pending[Len(p) + 1] = a
        /\ \A n \in DOMAIN p : job'[j].pending[n] = p[n]
    BY <1>2, <1>7, <2>2, AppendFacts
  <2>4. \A n \in DOMAIN job'[j].pending : n = Len(p) + 1 \/ n \in DOMAIN p
    BY <2>3
  <2>5. \A n \in DOMAIN p : p[n].source \notin Unchecked(j) /\ p[n].source # s
    BY <1>5 DEF RoundOnce
  <2>6. ASSUME NEW m \in DOMAIN job'[j].pending, NEW n \in DOMAIN job'[j].pending,
               job'[j].pending[m].source = job'[j].pending[n].source
        PROVE  m = n
    BY <2>1, <2>3, <2>4, <2>5, <2>6 DEF RoundOnce
  <2>7. ASSUME NEW n \in DOMAIN job'[j].pending PROVE job'[j].pending[n].source \notin Unchecked(j)'
    BY <1>5, <2>1, <2>3, <2>4, <2>5
  <2>8. ASSUME NEW m \in DOMAIN alerts, alerts[m].source = s PROVE now > alerts[m].created + Silent
    <3>0. alerts[m] \in Alert /\ now \in Nat
      BY DEF TypeOK
    <3>1. alerts[m].created \in Nat /\ now \in Nat /\ Silent \in Nat
      BY <3>0, ThresholdsAssumption DEF Alert
    <3>2. ~(alerts[m].created >= now - Silent)
      BY <1>7, <2>8 DEF RecentAlertExists
    <3> QED
      BY <3>1, <3>2
  <2>9. ASSUME NEW m \in DOMAIN alerts, NEW n \in DOMAIN job'[j].pending,
               alerts[m].source = job'[j].pending[n].source
        PROVE  job'[j].pending[n].checked > alerts[m].created + Silent
    <3>1. CASE n = Len(p) + 1
      BY <2>1, <2>3, <2>8, <2>9, <3>1
    <3>2. CASE n \in DOMAIN p
      BY <2>3, <2>9, <3>2 DEF RoundDue
    <3> QED
      BY <2>4, <3>1, <3>2
  <2>10. RoundDue(j)'
    BY <1>1, <2>9 DEF RoundDue
  <2>11. IsInjective(job'[j].todo) /\ IsInjective(job'[j].types)
    BY <1>1, <1>2, <1>3 DEF RoundOnce
  <2>12. job'[j].types # <<>> => job'[j].tenant \notin ListedIn(job'[j].todo)
    BY <1>1, <1>2, <1>4 DEF RoundOnce
  <2> QED
    BY <2>6, <2>7, <2>10, <2>11, <2>12 DEF RoundOnce
<1> QED
  BY <1>6, <1>7, CheckSourceEffect

LEMMA CommitOnce ==
    ASSUME TypeOK, Shape, OneAlertPerCooldown, NEW j \in Looping, CommitSilence(j), RoundOnce(j), RoundDue(j)
    PROVE  OneAlertPerCooldown'
<1> DEFINE p == job[j].pending
<1>1. alerts \in Seq(Alert) /\ p \in Seq(Alert) /\ alerts' = alerts \o p
  BY DEF CommitSilence, TypeOK, Shape, Evaluates, Idle, Purges, Judges
<1>2. /\ DOMAIN alerts = 1..Len(alerts) /\ DOMAIN p = 1..Len(p) /\ Len(alerts) \in Nat /\ Len(p) \in Nat
      /\ DOMAIN alerts' = 1..(Len(alerts) + Len(p))
      /\ \A n \in 1..Len(alerts) : alerts'[n] = alerts[n]
      /\ \A n \in 1..Len(p) : alerts'[Len(alerts) + n] = p[n]
  BY <1>1
<1> HIDE DEF p
<1>3. SUFFICES ASSUME NEW m \in DOMAIN alerts', NEW n \in DOMAIN alerts', m < n,
                      alerts'[m].source = alerts'[n].source
               PROVE  alerts'[n].checked > alerts'[m].created + Silent
  BY DEF OneAlertPerCooldown
<1>4. m \in DOMAIN alerts \/ \E i \in DOMAIN p : m = Len(alerts) + i
  <2>1. m \in DOMAIN alerts \/ m - Len(alerts) \in DOMAIN p
    BY <1>2
  <2> QED
    BY <1>2, <2>1
<1>5. n \in DOMAIN alerts \/ \E i \in DOMAIN p : n = Len(alerts) + i
  <2>1. n \in DOMAIN alerts \/ n - Len(alerts) \in DOMAIN p
    BY <1>2
  <2> QED
    BY <1>2, <2>1
<1>6. CASE m \in DOMAIN alerts /\ n \in DOMAIN alerts
  BY <1>2, <1>3, <1>6 DEF OneAlertPerCooldown
<1>7. ASSUME m \in DOMAIN alerts, NEW i \in DOMAIN p, n = Len(alerts) + i
      PROVE  alerts'[n].checked > alerts'[m].created + Silent
  <2>1. alerts'[m] = alerts[m] /\ alerts'[n] = p[i]
    BY <1>2, <1>7
  <2> QED
    BY <1>3, <1>7, <2>1 DEF RoundDue, p
<1>8. ASSUME NEW h \in DOMAIN p, m = Len(alerts) + h, NEW i \in DOMAIN p, n = Len(alerts) + i
      PROVE  FALSE
  <2>1. alerts'[m] = p[h] /\ alerts'[n] = p[i] /\ h # i
    BY <1>2, <1>3, <1>8
  <2> QED
    BY <1>3, <2>1 DEF RoundOnce, p
<1>9. ASSUME NEW h \in DOMAIN p, m = Len(alerts) + h, n \in DOMAIN alerts PROVE FALSE
  BY <1>2, <1>3, <1>9
<1> QED
  BY <1>4, <1>5, <1>6, <1>7, <1>8, <1>9

LEMMA CooldownStep ==
    ASSUME TypeOK, Shape, CooldownInv, \A i, j \in Looping : i = j, [Next]_vars
    PROVE  CooldownInv'
<1> USE DEF CooldownInv
<1>1. /\ DOMAIN job = Looping
      /\ \A j \in Looping : Evaluates(j) => j \in Looping /\ RoundOnce(j) /\ RoundDue(j)
  BY DEF TypeOK, Shape, OncePerRound, PendingIsDue, RoundOnce, RoundDue, Evaluates, Idle, Purges, Judges
<1>2. SUFFICES /\ OneAlertPerCooldown'
               /\ \A j \in Looping : Evaluates(j)' => RoundOnce(j)' /\ RoundDue(j)'
  BY DEF OncePerRound, PendingIsDue, RoundOnce, RoundDue
<1>3. ASSUME NEW i \in Looping, job'[i] = job[i], Evaluates(i)' PROVE Evaluates(i) /\ RoundOnce(i)'
  BY <1>1, <1>3 DEF Evaluates, RoundOnce, Unchecked
<1>4. ASSUME NEW i \in Looping, job'[i] = job[i], alerts' = alerts, Evaluates(i)' PROVE RoundDue(i)'
  BY <1>1, <1>4 DEF Evaluates, RoundDue
<1>5. alerts' = alerts => OneAlertPerCooldown'
  BY DEF OneAlertPerCooldown
<1>6. ASSUME NEW j \in Looping, StartRound(j) \/ PurgeTenant(j) \/ Fail(j)
      PROVE  OneAlertPerCooldown' /\ \A i \in Looping : Evaluates(i)' => RoundOnce(i)' /\ RoundDue(i)'
  <2>1. /\ \A i \in Looping : i # j => job'[i] = job[i]
        /\ job'[j].pc # "silence" /\ alerts' = alerts
    BY <1>1, <1>6, NotEvaluating
  <2> QED
    BY <1>3, <1>4, <1>5, <2>1 DEF Evaluates
<1>7. ASSUME NEW j \in Looping, StartSilence(j) \/ ReadLast(j) \/ CheckSource(j)
      PROVE  OneAlertPerCooldown' /\ \A i \in Looping : Evaluates(i)' => RoundOnce(i)' /\ RoundDue(i)'
  <2>1. /\ \A i \in Looping : i # j => job'[i] = job[i]
        /\ alerts' = alerts
    BY <1>1, <1>7 DEF StartSilence, ReadLast, CheckSource
  <2>2. RoundOnce(j)' /\ RoundDue(j)'
    BY <1>1, <1>7, StartSilenceOnce, ReadLastOnce, CheckSourceOnce DEF ReadLast, CheckSource
  <2> QED
    BY <1>3, <1>4, <1>5, <2>1, <2>2
<1>8. ASSUME NEW j \in Looping, CommitSilence(j)
      PROVE  OneAlertPerCooldown' /\ \A i \in Looping : Evaluates(i)' => RoundOnce(i)' /\ RoundDue(i)'
  <2>1. Evaluates(j) /\ job'[j].pc # "silence" /\ \A i \in Looping : i # j => job'[i] = job[i]
    BY <1>1, <1>8 DEF CommitSilence, Idle
  <2>2. \A i \in Looping : ~Evaluates(i)'
    BY <1>1, <2>1 DEF Evaluates
  <2> QED
    BY <1>1, <1>8, <2>1, <2>2, CommitOnce
<1>9. CASE UNCHANGED <<job, alerts>>
  BY <1>3, <1>4, <1>5, <1>9
<1>10. CASE \E s \in Sources, lag \in Lags : Ingest(s, now - lag)
  BY <1>9, <1>10 DEF Ingest
<1>11. CASE Tick
  BY <1>9, <1>11 DEF Tick
<1>12. CASE UNCHANGED vars
  BY <1>9, <1>12 DEF vars
<1>13. CASE \E t \in ListedIn(Tenants) : RequestPurge(t)
  BY <1>9, <1>13 DEF RequestPurge
<1> QED
  BY <1>6, <1>7, <1>8, <1>10, <1>11, <1>12, <1>13 DEF Next, Continue

(* While one process runs the loop, a source is alerted again only when    *)
(* its last alert has left the cooldown, whatever fails or is purged.      *)
THEOREM AlertsAreSpaced ==
    ASSUME \A i, j \in Looping : i = j
    PROVE  Spec => []OneAlertPerCooldown
<1>1. Init => TypeOK /\ Shape /\ CooldownInv
  BY TypeInit DEF Init, CooldownInv, OncePerRound, PendingIsDue, OneAlertPerCooldown, Evaluates, Idle
<1>2. TypeOK /\ Shape /\ CooldownInv /\ [Next]_vars => (TypeOK /\ Shape /\ CooldownInv)'
  BY TypeStep, CooldownStep
<1>3. CooldownInv => OneAlertPerCooldown
  BY DEF CooldownInv
<1> QED
  BY <1>1, <1>2, <1>3, PTL DEF Spec
=============================================================================
