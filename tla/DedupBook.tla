------------------------------ MODULE DedupBook ------------------------------
(***************************************************************************)
(* What the README promises of deduplication, without sessions, queries or *)
(* passes: for every rule and entity a list of alerts; a detection is      *)
(* absorbed by one of them, and opens a new one only when none is both     *)
(* recent and never closed.                                                *)
(***************************************************************************)
EXTENDS Integers

CONSTANTS
    Rules, Entities, Cooldown,
    Null        \* never closed

VARIABLES book,     \* the alerts of each key, by id; a later alert has a larger id
          now

vars == <<book, now>>

Keys == Rules \X Entities

Entry(t) == [opened |-> t, closed |-> Null, occurrences |-> 1]

Init ==
    /\ DOMAIN book = Keys /\ \A k \in Keys : DOMAIN book[k] = {}
    /\ now = 0

Recent(k, e) == e.closed = Null /\ e.opened >= now - Cooldown[k[1]]

OpensAlert(k) ==
    /\ \A n \in DOMAIN book[k] : ~Recent(k, book[k][n])
    /\ \E i \in DOMAIN book'[k], t \in 0..now :
          /\ \A n \in DOMAIN book[k] : n < i
          /\ book'[k] = [n \in DOMAIN book[k] \cup {i} |-> IF n = i THEN Entry(t) ELSE book[k][n]]

Absorbs(k) ==
    \E n \in DOMAIN book[k] : book'[k] = [book[k] EXCEPT ![n].occurrences = @ + 1]

(* One pass may report several keys at once.                               *)
Report ==
    /\ now' = now
    /\ DOMAIN book' = Keys
    /\ \A k \in Keys : book'[k] = book[k] \/ OpensAlert(k) \/ Absorbs(k)

Close ==
    /\ now' = now
    /\ \E k \in Keys : \E n \in DOMAIN book[k], t \in 0..now :
          book' = [book EXCEPT ![k][n].closed = t]

Tick == now' = now + 1 /\ book' = book

Next == Report \/ Close \/ Tick

Spec == Init /\ [][Next]_vars
=============================================================================
