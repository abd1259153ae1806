---------------------------- MODULE SyslogServer ----------------------------
(***************************************************************************)
(* syslog_server.py: the UDP listener of the API process. The event loop   *)
(* hands it one datagram at a time; each host may have Limit of them       *)
(* accepted in a sliding window. What is accepted goes to _handle_syslog,  *)
(* which ingests it as a batch of one (IngestStats; the proofs about both  *)
(* are in IngestStats_proofs).                                             *)
(***************************************************************************)
EXTENDS Integers, Sequences

CONSTANTS
    Hosts,          \* sender addresses
    Limit,          \* SYSLOG_RATE_LIMIT
    Window,         \* SYSLOG_RATE_WINDOW_SEC, in ticks of time.monotonic()
    MaxTime,        \* bound: ticks
    MaxDatagrams    \* bound: datagrams of a host

ASSUME LimitAssumption == Limit \in Nat \ {0} /\ Window \in Nat
ASSUME DatagramsAssumption == MaxTime \in Nat /\ MaxDatagrams \in Nat

VARIABLES
    now,            \* time.monotonic()
    buckets,        \* _RateLimiter._buckets: times of accepted datagrams
    dropped,        \* SyslogProtocol._dropped
    accepted,       \* history: when each datagram of a host was accepted
    refused         \* history: when one was refused by the limiter

listenerVars == <<now, buckets, dropped, accepted, refused>>

Time == Nat

ListenerInit ==
    /\ now = 0
    /\ buckets = [h \in Hosts |-> <<>>]
    /\ dropped = 0
    /\ accepted = [h \in Hosts |-> <<>>]
    /\ refused = [h \in Hosts |-> <<>>]

-----------------------------------------------------------------------------
(* Mutants: an entry leaves the bucket a tick early; none ever leaves.     *)
PoppedEarly(b, n) ==
    /\ n \in 0..Len(b)
    /\ \A i \in 1..n : b[i] <= now - Window
    /\ n < Len(b) => b[n + 1] > now - Window

PoppedNever(b, n) == n = 0

(* The loop that pops expired entries off the front removes n of them.     *)
Popped(b, n) ==
    /\ n \in 0..Len(b)
    /\ \A i \in 1..n : b[i] < now - Window
    /\ n < Len(b) => b[n + 1] >= now - Window

Left(b, n) == SubSeq(b, n + 1, Len(b))

Within(h) == Len(accepted[h]) + Len(refused[h]) < MaxDatagrams

(* allow() is true. A datagram that decodes to a blank text counts too,    *)
(* though it is not handed over.                                           *)
Accept(h, n) ==
    /\ Within(h) /\ Popped(buckets[h], n)
    /\ Len(Left(buckets[h], n)) < Limit
    /\ buckets' = [buckets EXCEPT ![h] = Append(Left(@, n), now)]
    /\ accepted' = [accepted EXCEPT ![h] = Append(@, now)]
    /\ UNCHANGED <<now, dropped, refused>>

(* allow() is false. The expired entries are gone all the same.            *)
Refuse(h, n) ==
    /\ Within(h) /\ Popped(buckets[h], n)
    /\ Len(Left(buckets[h], n)) >= Limit
    /\ buckets' = [buckets EXCEPT ![h] = Left(@, n)]
    /\ dropped' = dropped + 1
    /\ refused' = [refused EXCEPT ![h] = Append(@, now)]
    /\ UNCHANGED <<now, accepted>>

(* More than MAX_SYSLOG_BYTES: dropped before the limiter sees it.         *)
TooLarge ==
    /\ dropped < MaxDatagrams
    /\ dropped' = dropped + 1
    /\ UNCHANGED <<now, buckets, accepted, refused>>

Tick ==
    /\ now < MaxTime
    /\ now' = now + 1
    /\ UNCHANGED <<buckets, dropped, accepted, refused>>

ListenerNext ==
    \/ \E h \in Hosts : \E n \in 0..Len(buckets[h]) : Accept(h, n) \/ Refuse(h, n)
    \/ TooLarge
    \/ Tick

ListenerSpec == ListenerInit /\ [][ListenerNext]_listenerVars

-----------------------------------------------------------------------------
ListenerTypeOK ==
    /\ now \in Time
    /\ buckets \in [Hosts -> Seq(Time)]
    /\ dropped \in Nat
    /\ accepted \in [Hosts -> Seq(Time)]
    /\ refused \in [Hosts -> Seq(Time)]

(* README.md:56: a host gets at most Limit datagrams accepted in any       *)
(* window, wherever it begins: Limit + 1 in a row span more than Window    *)
(* (syslog_server.py:22-31).                                               *)
RateBounded ==
    \A h \in Hosts : \A i \in DOMAIN accepted[h] :
        i + Limit \in DOMAIN accepted[h] =>
            accepted[h][i + Limit] - accepted[h][i] > Window

(* The limiter refuses no more than that: when it refuses a datagram,      *)
(* Limit of the host were accepted within the window that ends then.       *)
(* Refused datagrams do not prolong the refusal (syslog_server.py:28-29).  *)
RefusedAtLimit ==
    \A h \in Hosts : \A n \in DOMAIN refused[h] :
        \E i \in DOMAIN accepted[h] :
            /\ i + Limit - 1 \in DOMAIN accepted[h]
            /\ accepted[h][i] >= refused[h][n] - Window
            /\ accepted[h][i + Limit - 1] <= refused[h][n]

(* Why: the bucket of a host is the recent end of what was accepted, and   *)
(* everything before it has left the window.                               *)
Older(h) == Len(accepted[h]) - Len(buckets[h])

BucketIsRecent ==
    \A h \in Hosts :
        /\ Len(buckets[h]) <= Limit /\ Len(buckets[h]) <= Len(accepted[h])
        /\ \A i \in DOMAIN buckets[h] : buckets[h][i] = accepted[h][Older(h) + i]
        /\ \A i \in 1..Older(h) : accepted[h][i] < now - Window
        /\ \A i \in DOMAIN accepted[h] : accepted[h][i] <= now

InOrder ==
    \A h \in Hosts : \A i, j \in DOMAIN accepted[h] :
        i <= j => accepted[h][i] <= accepted[h][j]

LimiterInv == BucketIsRecent /\ InOrder /\ RateBounded /\ RefusedAtLimit
=============================================================================
