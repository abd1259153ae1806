----------------------------- MODULE AlertDedup -----------------------------
(***************************************************************************)
(* The deployment the README's deduplication claim is about, one pass at a *)
(* time over rules with distinct ids, implements DedupBook.                *)
(***************************************************************************)
EXTENDS AlertEngine

(* The committed alerts of a key, as the book lists them.                  *)
IdsOf(k) == { i \in DOMAIN alerts : alerts[i].rule = k[1] /\ alerts[i].entity = k[2] }

BookOf(k) ==
    [i \in IdsOf(k) |-> [opened |-> alerts[i].created, closed |-> alerts[i].closed,
                         occurrences |-> alerts[i].occurrences]]

Books == [k \in Rules \X Entities |-> BookOf(k)]

Book == INSTANCE DedupBook WITH book <- Books

(* Each commit of a pass, and each request of an analyst, is a step of the *)
(* book: a detection opens an alert only when no recent one of its rule    *)
(* and entity is left open, and is counted in that one otherwise           *)
(* (rules_engine.py:143-177, README.md:142).                               *)
ImplementsBook == Book!Spec

(* What makes a commit of a pass one step of the book: the session holds   *)
(* at most one detection of a rule, to merge or to insert.                 *)
MergesAreOnce ==
    \A r \in Runners :
        /\ begun[r] <= now
        /\ pc[r] # "eval" => DOMAIN dirty[r] = {}
        /\ \A i \in DOMAIN dirty[r] :
              /\ dirty[r][i].occurrences = alerts[i].occurrences + 1
              /\ \E n \in 1..(slot[r] - 1) : alerts[i].rule = RuleFiles[n]
              /\ \A j \in DOMAIN dirty[r] : alerts[i].rule = alerts[j].rule => i = j
              /\ \A k \in DOMAIN fresh[r] : fresh[r][k].rule # alerts[i].rule
=============================================================================
