-------------------------- MODULE EnrichCache_proofs --------------------------
(***************************************************************************)
(* What lookups promise, for any number of callers, lookups and verdicts:  *)
(* the cache never goes back, since whatever a caller was given is in the  *)
(* table by then, or something newer; a match is justified by rows; what   *)
(* is known bad is matched; and a verdict that is stored stands for the    *)
(* answers of its lifetime, which the invariant counts.                    *)
(***************************************************************************)
EXTENDS EnrichCache, FiniteSetTheorems, TLAPS

Fields == {"pc", "kind", "tenant", "wanted", "iocs", "todo", "ioc", "asked", "ask", "matched",
           "row", "began", "known", "kept"}

(* What a list of lookups still to be done may be.                         *)
Asking(J) ==
    /\ Fields \subseteq DOMAIN J
    /\ J.asked \in Seq(Providers) /\ J.ask \in Seq(Providers)
    /\ Range(J.ask) \subseteq Range(J.asked)
    /\ J.ask = <<>> => J.pc = "look" /\ (J.todo = {} \/ J.asked = <<>>)

JobShape(c) ==
    job[c] # Idle =>
        /\ Asking(job[c]) /\ job[c].pc \in {"look", "fetch", "store"}
        /\ job[c].began \in Nat /\ job[c].began <= now
        /\ job[c].known \in Nat /\ job[c].known <= Len(table)
        /\ job[c].kept \subseteq keys \cap Range(job[c].asked)

(* The answer a caller is about to store is to the question it is at.      *)
Pending(c) ==
    job[c].pc = "store" =>
        /\ job[c].row.of = Of(c)
        /\ job[c].row.at \in Nat /\ job[c].began <= job[c].row.at

Shape ==
    /\ now \in Nat /\ DOMAIN job = Callers /\ DOMAIN served = Subject
    /\ \E S : table \in Seq(S)
    /\ \A c \in Callers : JobShape(c) /\ Pending(c)

-----------------------------------------------------------------------------
(* One lookup after the other.                                             *)
Same(J, N) ==
    /\ DOMAIN N = DOMAIN J
    /\ N.kind = J.kind /\ N.tenant = J.tenant /\ N.wanted = J.wanted /\ N.iocs = J.iocs
    /\ N.asked = J.asked /\ N.began = J.began /\ N.known = J.known /\ N.kept = J.kept

LEMMA TurnsOutcome ==
  ASSUME NEW J, Fields \subseteq DOMAIN J, NEW N \in Turns(J)
  PROVE  /\ Same(J, N) /\ N.pc = J.pc /\ N.matched = J.matched /\ N.row = J.row
         /\ \/ J.todo = {} /\ N.todo = {} /\ N.ask = <<>>
            \/ N.ioc \in J.todo /\ N.todo = J.todo \ {N.ioc} /\ N.ask = J.asked
BY DEF Turns, Fields, Same

LEMMA NotedOutcome ==
  ASSUME NEW J, Fields \subseteq DOMAIN J, NEW verdict
  PROVE  /\ Same(J, Noted(J, verdict)) /\ Noted(J, verdict).pc = "look"
         /\ Noted(J, verdict).matched =
              J.matched \cup (IF verdict \in J.wanted THEN {J.ioc} ELSE {})
         /\ Noted(J, verdict).ioc = J.ioc /\ Noted(J, verdict).todo = J.todo
         /\ Noted(J, verdict).ask = J.ask
BY DEF Noted, Fields, Same

LEMMA AskedOnce ==
  ASSUME NEW ask \in Seq(Providers), ask # <<>>
  PROVE  /\ Head(ask) \in Range(ask)
         /\ Tail(ask) \in Seq(Providers)
         /\ Range(ask) = {Head(ask)} \cup Range(Tail(ask))
         /\ Len(ask) = 1 => Range(ask) = {Head(ask)}
         /\ Len(ask) # 1 => Tail(ask) # <<>>
<1>1. /\ Len(ask) \in Nat \ {0} /\ DOMAIN ask = 1..Len(ask) /\ Head(ask) = ask[1]
      /\ Tail(ask) \in Seq(Providers) /\ Len(Tail(ask)) = Len(ask) - 1
      /\ DOMAIN Tail(ask) = 1..(Len(ask) - 1)
      /\ \A n \in 1..(Len(ask) - 1) : Tail(ask)[n] = ask[n + 1]
  OBVIOUS
<1>2. \A n \in 2..Len(ask) : n - 1 \in 1..(Len(ask) - 1) /\ ask[n] = Tail(ask)[n - 1]
  BY <1>1
<1>3. ASSUME NEW x \in Range(ask) PROVE x = Head(ask) \/ x \in Range(Tail(ask))
  <2>1. PICK n \in 1..Len(ask) : x = ask[n]
    BY <1>1, <1>3 DEF Range
  <2>2. n = 1 \/ n \in 2..Len(ask)
    BY <1>1
  <2> QED
    BY <1>1, <1>2, <2>1, <2>2 DEF Range
<1>4. ASSUME NEW x \in Range(Tail(ask)) PROVE x \in Range(ask)
  <2>1. PICK n \in 1..(Len(ask) - 1) : x = Tail(ask)[n]
    BY <1>1, <1>4 DEF Range
  <2>2. n + 1 \in 1..Len(ask) /\ x = ask[n + 1]
    BY <1>1, <2>1
  <2> QED
    BY <1>1, <2>2 DEF Range
<1>5. Head(ask) \in Range(ask)
  BY <1>1 DEF Range
<1>6. Len(ask) = 1 => Range(ask) = {Head(ask)}
  BY <1>1 DEF Range
<1>7. ASSUME Len(ask) # 1 PROVE Tail(ask) # <<>>
  <2>1. 2 \in DOMAIN ask /\ ask[2] = Tail(ask)[1] /\ 1 \in DOMAIN Tail(ask)
    BY <1>1, <1>7
  <2>2. ask[2] \in Range(Tail(ask))
    BY <2>1 DEF Range
  <2>3. Range(<<>>) = {}
    BY DEF Range
  <2> QED
    BY <2>2, <2>3
<1> QED
  BY <1>1, <1>3, <1>4, <1>5, <1>6, <1>7

(* The lookups that are still to come: of an answered one, no more.        *)
Left(J, i, p) == i \in J.todo \/ (i = J.ioc /\ p \in Range(J.ask))

LEMMA RestOutcome ==
  ASSUME NEW J, Asking(J), J.ask # <<>>, NEW verdict, NEW N \in Rest(Noted(J, verdict), verdict)
  PROVE  /\ Same(J, N) /\ Asking(N) /\ N.pc = "look"
         /\ N.matched = J.matched \cup (IF verdict \in J.wanted THEN {J.ioc} ELSE {})
         /\ \A i, p : p \in Range(J.asked) /\ Left(J, i, p) =>
              \/ Left(N, i, p)
              \/ i = J.ioc /\ (p = Head(J.ask) \/ i \in N.matched)
<1> DEFINE M == Noted(J, verdict)
<1>0. /\ Fields \subseteq DOMAIN J /\ J.asked \in Seq(Providers) /\ J.ask \in Seq(Providers)
      /\ Range(J.ask) \subseteq Range(J.asked)
  BY DEF Asking
<1>1. /\ Same(J, M) /\ M.pc = "look" /\ M.ioc = J.ioc /\ M.todo = J.todo /\ M.ask = J.ask
      /\ M.matched = J.matched \cup (IF verdict \in J.wanted THEN {J.ioc} ELSE {})
  BY <1>0, NotedOutcome
<1>2. Fields \subseteq DOMAIN M /\ M.asked = J.asked /\ M.wanted = J.wanted
  BY <1>0, <1>1 DEF Same
<1> HIDE DEF M
<1>3. CASE N \in Turns(M) /\ (Len(J.ask) = 1 \/ verdict \in J.wanted)
  <2>1. /\ Same(M, N) /\ N.pc = M.pc /\ N.matched = M.matched
        /\ \/ M.todo = {} /\ N.todo = {} /\ N.ask = <<>>
           \/ N.ioc \in M.todo /\ N.todo = M.todo \ {N.ioc} /\ N.ask = M.asked
    BY <1>2, <1>3, TurnsOutcome
  <2>2. Same(J, N) /\ Fields \subseteq DOMAIN N
    BY <1>0, <1>1, <2>1 DEF Same
  <2>3. N.asked = J.asked
    BY <2>2 DEF Same
  <2>4. Asking(N)
    <3>1. CASE N.ask = <<>> /\ N.todo = {}
      <4>1. N.ask \in Seq(Providers) /\ Range(N.ask) = {}
        BY <3>1 DEF Range
      <4> QED
        BY <1>0, <1>1, <2>1, <2>2, <2>3, <3>1, <4>1 DEF Asking
    <3>2. CASE N.ask = M.asked
      BY <1>0, <1>1, <1>2, <2>1, <2>2, <2>3, <3>2 DEF Asking
    <3> QED
      BY <2>1, <3>1, <3>2
  <2>5. ASSUME NEW i, NEW p, p \in Range(J.asked), Left(J, i, p)
        PROVE  Left(N, i, p) \/ (i = J.ioc /\ (p = Head(J.ask) \/ i \in N.matched))
    <3>1. CASE i \in J.todo
      BY <1>1, <1>2, <2>1, <2>5, <3>1 DEF Left
    <3>2. CASE i = J.ioc /\ p \in Range(J.ask)
      <4>1. Len(J.ask) = 1 => p = Head(J.ask)
        BY <1>0, <3>2, AskedOnce
      <4>2. verdict \in J.wanted => J.ioc \in N.matched
        BY <1>1, <2>1
      <4> QED
        BY <1>3, <3>2, <4>1, <4>2
    <3> QED
      BY <2>5, <3>1, <3>2 DEF Left
  <2> QED
    BY <1>1, <2>1, <2>2, <2>4, <2>5
<1>4. CASE N = [M EXCEPT !.ask = Tail(@)] /\ Len(J.ask) # 1
  <2>1. /\ Same(M, N) /\ N.pc = "look" /\ N.matched = M.matched /\ N.ask = Tail(J.ask)
        /\ N.todo = J.todo /\ N.ioc = J.ioc
    BY <1>1, <1>2, <1>4 DEF Fields, Same
  <2>2. Same(J, N) /\ Fields \subseteq DOMAIN N /\ N.asked = J.asked
    BY <1>0, <1>1, <2>1 DEF Same
  <2>3. Asking(N)
    BY <1>0, <1>4, <2>1, <2>2, AskedOnce DEF Asking
  <2>4. ASSUME NEW i, NEW p, Left(J, i, p)
        PROVE  Left(N, i, p) \/ (i = J.ioc /\ p = Head(J.ask))
    BY <1>0, <2>1, <2>4, AskedOnce DEF Left
  <2> QED
    BY <1>1, <2>1, <2>2, <2>3, <2>4
<1> QED
  BY <1>1, <1>2, <1>3, <1>4 DEF Rest, M

LEMMA AnsweredOutcome ==
  ASSUME Shape, NEW c \in Callers, NEW verdict, job[c] # Idle, job[c].ask # <<>>,
         Answered(c, verdict)
  PROVE  /\ DOMAIN job' = Callers /\ job'[c] \in Rest(Noted(job[c], verdict), verdict)
         /\ \A d \in Callers \ {c} : job'[d] = job[d]
         /\ Same(job[c], job'[c]) /\ Asking(job'[c]) /\ job'[c].pc = "look"
         /\ job'[c].matched =
              job[c].matched \cup (IF verdict \in job[c].wanted THEN {job[c].ioc} ELSE {})
<1>1. /\ DOMAIN job' = Callers /\ job'[c] \in Rest(Noted(job[c], verdict), verdict)
      /\ \A d \in Callers \ {c} : job'[d] = job[d]
  BY DEF Answered, Shape
<1>2. Asking(job[c])
  BY DEF Shape, JobShape
<1> QED
  BY <1>1, <1>2, RestOutcome

(* What every step but an edit of the keys keeps.                          *)
Grows ==
    /\ now' \in Nat /\ now' >= now /\ keys \subseteq keys'
    /\ \E S : table' \in Seq(S)
    /\ Len(table') >= Len(table) /\ DOMAIN served' = DOMAIN served

LEMMA OthersKept ==
  ASSUME Shape, Grows, NEW c \in Callers, job'[c] = job[c]
  PROVE  JobShape(c)' /\ Pending(c)'
<1>1. now \in Nat /\ now' \in Nat /\ now' >= now /\ Len(table) \in Nat /\ Len(table') \in Nat
  BY DEF Shape, Grows
<1>2. JobShape(c) /\ Pending(c)
  BY DEF Shape
<1>3. JobShape(c)'
  BY <1>1, <1>2 DEF JobShape, Grows
<1>4. Pending(c)'
  BY <1>2 DEF Pending, Of, Provider
<1> QED
  BY <1>3, <1>4

LEMMA AnswerShape ==
  ASSUME Shape, Grows, NEW c \in Callers, NEW verdict, job[c] # Idle, job[c].ask # <<>>,
         Answered(c, verdict)
  PROVE  Shape'
<1>1. now \in Nat /\ now' \in Nat /\ now' >= now /\ Len(table) \in Nat /\ Len(table') \in Nat
  BY DEF Shape, Grows
<1>2. /\ Same(job[c], job'[c]) /\ Asking(job'[c]) /\ job'[c].pc = "look"
      /\ DOMAIN job' = Callers /\ \A d \in Callers \ {c} : job'[d] = job[d]
  BY AnsweredOutcome
<1>3. JobShape(c)
  BY DEF Shape
<1>4. JobShape(c)' /\ Pending(c)'
  BY <1>1, <1>2, <1>3 DEF JobShape, Pending, Same, Grows
<1>5. \A d \in Callers \ {c} : JobShape(d)' /\ Pending(d)'
  BY <1>2, OthersKept
<1> QED
  BY <1>1, <1>2, <1>4, <1>5 DEF Shape, Grows

LEMMA TableGrows ==
  ASSUME NEW S, table \in Seq(S), NEW row, table' = Append(table, row)
  PROVE  /\ \E T : table' \in Seq(T)
         /\ Len(table) \in Nat /\ DOMAIN table = 1..Len(table)
         /\ Len(table') = Len(table) + 1 /\ DOMAIN table' = 1..Len(table')
         /\ table'[Len(table')] = row
         /\ \A n \in DOMAIN table : table'[n] = table[n]
<1> DEFINE T == S \cup {row}
<1>1. table \in Seq(T) /\ row \in T
  OBVIOUS
<1> HIDE DEF T
<1>2. table' \in Seq(T)
  BY <1>1
<1> QED
  BY <1>1, <1>2

LEMMA InitShape == Init => Shape
<1> HAVE Init
<1>1. table \in Seq({})
  BY DEF Init
<1> QED
  BY <1>1 DEF Init, Shape, JobShape, Pending, Idle

(* A lookup in progress has a question.                                    *)
LEMMA Busy ==
  ASSUME Shape, NEW c \in Callers, Looking(c) \/ job[c].pc \in {"fetch", "store"}
  PROVE  /\ job[c] # Idle /\ job[c].ask # <<>> /\ Asking(job[c])
         /\ Provider(c) \in Range(job[c].ask)
<1>1. job[c] # Idle
  BY DEF Looking, Idle
<1>2. Asking(job[c]) /\ job[c].ask # <<>>
  BY <1>1 DEF Shape, JobShape, Looking, Asking
<1> QED
  BY <1>1, <1>2, AskedOnce DEF Asking, Provider

(* One step per action: what it does to the jobs.                          *)
LEMMA ShapeStep ==
  ASSUME Shape, [Next]_vars
  PROVE  Shape'
<1> USE DEF settings
<1>0. now \in Nat /\ Len(table) \in Nat
  BY DEF Shape
<1>1. ASSUME UNCHANGED <<now, table, keys>>, DOMAIN served' = DOMAIN served PROVE Grows
  BY <1>0, <1>1 DEF Grows, Shape
<1>2. ASSUME NEW c \in Callers, Grows, DOMAIN job' = Callers,
             JobShape(c)', Pending(c)', \A d \in Callers \ {c} : job'[d] = job[d]
      PROVE  Shape'
  <2>1. \A d \in Callers \ {c} : JobShape(d)' /\ Pending(d)'
    BY <1>2, OthersKept
  <2> QED
    BY <1>2, <2>1 DEF Shape, Grows
<1>3. ASSUME NEW c \in Callers, NotConfigured(c) \/ FetchFails(c) PROVE Shape'
  <2>1. Looking(c) \/ job[c].pc \in {"fetch", "store"}
    BY <1>3 DEF NotConfigured, FetchFails
  <2>2. UNCHANGED <<now, table, keys, served>> /\ \E v : Answered(c, v)
    BY <1>3 DEF NotConfigured, FetchFails
  <2> QED
    BY <1>1, <2>1, <2>2, Busy, AnswerShape
<1>4. ASSUME NEW c \in Callers, ServeCached(c) PROVE Shape'
  <2>1. PICK n \in Cached(Of(c)) :
           /\ Answered(c, table[n].verdict)
           /\ served' = [served EXCEPT ![Of(c)] = table[n].at]
    BY <1>4 DEF ServeCached
  <2>2. UNCHANGED <<now, table, keys>> /\ DOMAIN served' = DOMAIN served /\ Looking(c)
    BY <1>4, <2>1 DEF ServeCached
  <2> QED
    BY <1>1, <2>1, <2>2, Busy, AnswerShape
<1>5. ASSUME NEW c \in Callers, StartFetch(c) PROVE Shape'
  <2>1. /\ job[c] # Idle /\ job[c].ask # <<>> /\ UNCHANGED <<now, table, keys, served>>
        /\ job' = [job EXCEPT ![c].pc = "fetch"] /\ JobShape(c)
    BY <1>5, Busy DEF StartFetch, Shape
  <2>2. /\ DOMAIN job' = Callers /\ job'[c].pc = "fetch" /\ Same(job[c], job'[c])
        /\ job'[c].ask = job[c].ask /\ \A d \in Callers \ {c} : job'[d] = job[d]
    BY <2>1 DEF Shape, JobShape, Asking, Fields, Same
  <2>3. JobShape(c)' /\ Pending(c)'
    BY <2>1, <2>2 DEF JobShape, Pending, Asking, Same
  <2> QED
    BY <1>1, <1>2, <2>1, <2>2, <2>3
<1>6. ASSUME NEW c \in Callers, FetchReturns(c) PROVE Shape'
  <2>1. PICK v : job' = [job EXCEPT ![c].pc = "store",
                                    ![c].row = [of |-> Of(c), verdict |-> v, at |-> now]]
    BY <1>6 DEF FetchReturns
  <2>2. /\ job[c] # Idle /\ job[c].ask # <<>> /\ UNCHANGED <<now, table, keys, served>>
        /\ JobShape(c)
    BY <1>6, Busy DEF FetchReturns, Shape
  <2>3. /\ DOMAIN job' = Callers /\ job'[c].pc = "store" /\ Same(job[c], job'[c])
        /\ job'[c].ask = job[c].ask /\ job'[c].ioc = job[c].ioc
        /\ job'[c].row = [of |-> Of(c), verdict |-> v, at |-> now]
        /\ \A d \in Callers \ {c} : job'[d] = job[d]
    BY <2>1, <2>2 DEF Shape, JobShape, Asking, Fields, Same
  <2>4. JobShape(c)'
    BY <2>2, <2>3 DEF JobShape, Asking, Same
  <2>5. Pending(c)'
    BY <1>0, <2>2, <2>3 DEF Pending, JobShape, Same, Of, Provider
  <2> QED
    BY <1>1, <1>2, <2>2, <2>3, <2>4, <2>5
<1>7. ASSUME NEW c \in Callers, Store(c) PROVE Shape'
  <2>1. /\ table' = Append(table, job[c].row) /\ Answered(c, job[c].row.verdict)
        /\ UNCHANGED <<now, keys>> /\ DOMAIN served' = DOMAIN served
        /\ job[c].pc = "store"
    BY <1>7 DEF Store
  <2>2. Grows
    BY <1>0, <2>1, TableGrows DEF Grows, Shape
  <2> QED
    BY <2>1, <2>2, Busy, AnswerShape
<1>8. ASSUME NEW c \in Callers, Finish(c) \/ LoseAnswer(c) PROVE Shape'
  <2>1. job' = [job EXCEPT ![c] = Idle] /\ UNCHANGED <<now, table, keys, served>>
    BY <1>8 DEF Finish, LoseAnswer
  <2> QED
    BY <1>1, <1>2, <2>1 DEF Shape, JobShape, Pending, Idle
<1>9. ASSUME NEW c \in Callers, NEW j \in Jobs, Start(c, j) PROVE Shape'
  <2> DEFINE J == [pc |-> "look", kind |-> j.kind, tenant |-> j.tenant, wanted |-> j.wanted,
                   iocs |-> j.iocs, todo |-> j.iocs, ioc |-> Nothing,
                   asked |-> j.providers, ask |-> <<>>, matched |-> {}, row |-> NoRow,
                   began |-> now, known |-> Len(table), kept |-> keys \cap Range(j.providers)]
  <2>1. PICK N \in Turns(J) : job' = [job EXCEPT ![c] = N]
    BY <1>9 DEF Start
  <2>2. UNCHANGED <<now, table, served>> /\ keys \subseteq keys'
    BY <1>9 DEF Start
  <2>3. Fields \subseteq DOMAIN J /\ J.asked \in Seq(Providers)
    BY JobsAssumption DEF Fields
  <2>4. /\ Same(J, N) /\ N.pc = "look"
        /\ \/ N.todo = {} /\ N.ask = <<>>
           \/ N.ask = J.asked
    BY <2>3, TurnsOutcome
  <2>5. Asking(N)
    <3>1. /\ Fields \subseteq DOMAIN N /\ N.asked = J.asked
          /\ <<>> \in Seq(Providers) /\ Range(<<>>) = {}
      BY <2>3, <2>4 DEF Same, Range
    <3> QED
      BY <2>3, <2>4, <3>1 DEF Asking
  <2>6. Grows
    BY <1>0, <2>2 DEF Grows, Shape
  <2>7. DOMAIN job' = Callers /\ job'[c] = N /\ \A d \in Callers \ {c} : job'[d] = job[d]
    BY <2>1 DEF Shape
  <2>8. N.began = now /\ N.known = Len(table) /\ N.kept = keys \cap Range(N.asked)
    BY <2>4 DEF Same
  <2>9. JobShape(c)' /\ Pending(c)'
    BY <1>0, <2>2, <2>4, <2>5, <2>7, <2>8 DEF JobShape, Pending
  <2> QED
    BY <1>2, <2>6, <2>7, <2>9
<1>10. ASSUME NEW K, job' = KeptUnder(K), keys' = K, UNCHANGED <<now, table, served>>
       PROVE  Shape'
  <2>1. ASSUME NEW c \in Callers PROVE JobShape(c)' /\ Pending(c)'
    <3>1. CASE job[c] = Idle
      BY <1>10, <3>1 DEF KeptUnder, JobShape, Pending, Idle
    <3>2. CASE job[c] # Idle
      <4>1. job'[c] = [job[c] EXCEPT !.kept = @ \cap K]
        BY <1>10, <3>2 DEF KeptUnder
      <4>2. Asking(job[c]) /\ Pending(c) /\ JobShape(c) /\ Fields \subseteq DOMAIN job[c]
        BY <3>2 DEF Shape, JobShape, Asking
      <4>3. /\ DOMAIN job'[c] = DOMAIN job[c] /\ job'[c].kept = job[c].kept \cap K
            /\ \A x \in Fields \ {"kept"} : job'[c][x] = job[c][x]
        BY <4>1, <4>2 DEF Fields
      <4>4. /\ job'[c].pc = job[c].pc /\ job'[c].asked = job[c].asked /\ job'[c].ask = job[c].ask
            /\ job'[c].todo = job[c].todo /\ job'[c].ioc = job[c].ioc /\ job'[c].row = job[c].row
            /\ job'[c].began = job[c].began /\ job'[c].known = job[c].known
            /\ job'[c].tenant = job[c].tenant
        BY <4>3 DEF Fields
      <4>5. Asking(job'[c])
        BY <4>2, <4>3, <4>4 DEF Asking
      <4>6. JobShape(c)'
        BY <1>10, <3>2, <4>2, <4>3, <4>4, <4>5 DEF JobShape
      <4>7. Pending(c)'
        BY <4>2, <4>4 DEF Pending, Of, Provider
      <4> QED
        BY <4>6, <4>7
    <3> QED
      BY <3>1, <3>2
  <2> QED
    BY <1>10, <2>1 DEF Shape, KeptUnder
<1>11. ASSUME NEW p \in Providers, NEW K \in SUBSET Providers, PatchKey(p, K) PROVE Shape'
  BY <1>10, <1>11 DEF PatchKey
<1>12. CASE LoadKeys
  BY <1>10, <1>12 DEF LoadKeys
<1>13. CASE Tick \/ UNCHANGED vars
  <2>1. UNCHANGED <<table, keys, served, job>> /\ (now' = now \/ now' = now + 1)
    BY <1>13 DEF Tick, vars
  <2>2. Grows
    BY <1>0, <2>1 DEF Grows, Shape
  <2> QED
    BY <2>1, <2>2, OthersKept DEF Shape, Grows
<1> QED
  BY <1>3, <1>4, <1>5, <1>6, <1>7, <1>8, <1>9, <1>11, <1>12, <1>13 DEF Next, Lookup

-----------------------------------------------------------------------------
(* Whatever was served is in the table, or something newer.                *)
Backed ==
    /\ \A n \in DOMAIN table : table[n].at \in Nat
    /\ \A s \in Subject :
          /\ served[s] \in Nat \cup {-1}
          /\ served[s] # -1 => \E n \in RowsOf(s) : table[n].at >= served[s]

LEMMA MaxOfTwo ==
  ASSUME NEW a \in Int, NEW b \in Int
  PROVE  Max({a, b}) \in {a, b} /\ Max({a, b}) >= a /\ Max({a, b}) >= b
<1>1. \E x \in {a, b} : \A y \in {a, b} : x >= y
  BY a >= b \/ b >= a
<1> QED
  BY <1>1 DEF Max

(* Which steps touch the table and what was served.                        *)
LEMMA ServingSteps ==
  [Next]_vars => \/ UNCHANGED <<table, served>>
                 \/ \E c \in Callers : ServeCached(c) \/ Store(c)
<1> HAVE [Next]_vars
<1>1. ASSUME NEW c \in Callers,
             NotConfigured(c) \/ StartFetch(c) \/ FetchFails(c) \/ FetchReturns(c)
                \/ Finish(c) \/ LoseAnswer(c)
      PROVE  UNCHANGED <<table, served>>
  BY <1>1 DEF NotConfigured, StartFetch, FetchFails, FetchReturns, Finish, LoseAnswer
<1>2. ASSUME NEW c \in Callers, NEW j \in Jobs, Start(c, j)
      PROVE  UNCHANGED <<table, served>>
  BY <1>2 DEF Start
<1>3. ASSUME NEW p \in Providers, NEW K \in SUBSET Providers, PatchKey(p, K)
      PROVE  UNCHANGED <<table, served>>
  BY <1>3 DEF PatchKey
<1>4. CASE LoadKeys \/ Tick \/ UNCHANGED vars
  BY <1>4 DEF LoadKeys, Tick, vars
<1> QED
  BY <1>1, <1>2, <1>3, <1>4 DEF Next, Lookup

(* A verdict from the cache is the newest there is.                        *)
LEMMA CachedIsNewest ==
  ASSUME Backed, NEW c \in Callers, ServeCached(c)
  PROVE  /\ table' = table
         /\ \E n \in DOMAIN table :
               /\ table[n].of = Of(c) /\ table[n].at \in Nat
               /\ Of(c) \in Subject => table[n].at >= served[Of(c)]
               /\ served' = [served EXCEPT ![Of(c)] = table[n].at]
<1>1. PICK n \in Cached(Of(c)) : served' = [served EXCEPT ![Of(c)] = table[n].at]
  BY DEF ServeCached
<1>2. n \in RowsOf(Of(c)) /\ \A m \in RowsOf(Of(c)) : table[m].at <= table[n].at
  BY DEF Cached, Newest
<1>3. n \in DOMAIN table /\ table[n].of = Of(c) /\ table[n].at \in Nat
  BY <1>2 DEF RowsOf, Backed
<1>4. ASSUME Of(c) \in Subject PROVE table[n].at >= served[Of(c)]
  <2>1. CASE served[Of(c)] = -1
    BY <1>3, <2>1
  <2>2. CASE served[Of(c)] # -1
    <3>1. PICK m \in RowsOf(Of(c)) : table[m].at >= served[Of(c)]
      BY <1>4, <2>2 DEF Backed
    <3>2. table[m].at \in Nat /\ served[Of(c)] \in Nat
      BY <1>4, <2>2, <3>1 DEF RowsOf, Backed
    <3> QED
      BY <1>2, <1>3, <3>1, <3>2
  <2> QED
    BY <2>1, <2>2
<1> QED
  BY <1>1, <1>3, <1>4 DEF ServeCached

(* A row is inserted before its verdict is given.                          *)
LEMMA StoreOutcome ==
  ASSUME Shape, Backed, NEW c \in Callers, Store(c)
  PROVE  /\ Len(table) \in Nat /\ DOMAIN table = 1..Len(table)
         /\ DOMAIN table' = 1..(Len(table) + 1)
         /\ table'[Len(table) + 1] = job[c].row /\ job[c].row.of = Of(c)
         /\ \A n \in DOMAIN table : n \in DOMAIN table' /\ table'[n] = table[n]
         /\ \A n \in DOMAIN table' : table'[n].at \in Nat
         /\ \E n \in DOMAIN table' :
               /\ table'[n].of = Of(c)
               /\ served' = [served EXCEPT ![Of(c)] = Max({@, table'[n].at})]
<1> DEFINE row == job[c].row
<1>1. /\ table' = Append(table, row) /\ row.of = Of(c) /\ row.at \in Nat
      /\ served' = [served EXCEPT ![Of(c)] = Max({@, row.at})]
  BY DEF Store, Shape, Pending
<1> HIDE DEF row
<1>2. PICK S : table \in Seq(S)
  BY DEF Shape
<1>3. /\ DOMAIN table' = 1..(Len(table) + 1)
      /\ Len(table) \in Nat /\ DOMAIN table = 1..Len(table)
      /\ table'[Len(table) + 1] = row
      /\ \A n \in DOMAIN table : table'[n] = table[n]
  BY <1>1, <1>2, TableGrows
<1>4. \A n \in DOMAIN table' : table'[n].at \in Nat
  BY <1>1, <1>3 DEF Backed
<1>5. Len(table) + 1 \in DOMAIN table' /\ \A n \in DOMAIN table : n \in DOMAIN table'
  BY <1>3
<1> QED
  BY <1>1, <1>3, <1>4, <1>5 DEF row

LEMMA BackedStep ==
  ASSUME Shape, Backed, [Next]_vars
  PROVE  Backed' /\ \A s \in Subject : served'[s] >= served[s]
<1>1. CASE UNCHANGED <<table, served>>
  BY <1>1 DEF Backed, RowsOf
<1>2. ASSUME NEW c \in Callers, ServeCached(c)
      PROVE  Backed' /\ \A s \in Subject : served'[s] >= served[s]
  <2>1. PICK n \in DOMAIN table :
           /\ table[n].of = Of(c) /\ table[n].at \in Nat
           /\ Of(c) \in Subject => table[n].at >= served[Of(c)]
           /\ served' = [served EXCEPT ![Of(c)] = table[n].at]
    BY <1>2, CachedIsNewest
  <2>2. table' = table
    BY <1>2, CachedIsNewest
  <2>3. \A s \in Subject : IF s = Of(c) THEN served'[s] = table[n].at ELSE served'[s] = served[s]
    BY <2>1 DEF Shape
  <2>4. n \in RowsOf(Of(c))
    BY <2>1 DEF RowsOf
  <2>5. \A s \in Subject : served[s] \in Nat \cup {-1}
    BY DEF Backed
  <2>6. \A s \in Subject : served'[s] >= served[s]
    BY <2>1, <2>3, <2>5
  <2>7. \A s \in Subject : /\ served'[s] \in Nat \cup {-1}
                           /\ served'[s] # -1 => \E m \in RowsOf(s) : table[m].at >= served'[s]
    BY <2>1, <2>3, <2>4 DEF Backed
  <2> QED
    BY <2>2, <2>6, <2>7 DEF Backed, RowsOf
<1>3. ASSUME NEW c \in Callers, Store(c)
      PROVE  Backed' /\ \A s \in Subject : served'[s] >= served[s]
  <2>1. /\ \A n \in DOMAIN table : n \in DOMAIN table' /\ table'[n] = table[n]
        /\ \A n \in DOMAIN table' : table'[n].at \in Nat
    BY <1>3, StoreOutcome
  <2>2. PICK n \in DOMAIN table' :
           /\ table'[n].of = Of(c)
           /\ served' = [served EXCEPT ![Of(c)] = Max({@, table'[n].at})]
    BY <1>3, StoreOutcome
  <2>3. ASSUME NEW s \in Subject
        PROVE  /\ served'[s] \in Nat \cup {-1} /\ served'[s] >= served[s]
               /\ served'[s] # -1 => \E m \in DOMAIN table' :
                                        table'[m].of = s /\ table'[m].at >= served'[s]
    <3>1. /\ served[s] \in Nat \cup {-1}
          /\ served[s] # -1 => \E m \in DOMAIN table' :
                                  table'[m].of = s /\ table'[m].at >= served[s]
      BY <2>1 DEF Backed, RowsOf
    <3>2. CASE s # Of(c)
      <4>1. served'[s] = served[s]
        BY <2>2, <3>2 DEF Shape
      <4> QED
        BY <3>1, <4>1
    <3>3. CASE s = Of(c)
      <4>1. served'[s] = Max({served[s], table'[n].at}) /\ table'[n].at \in Nat
        BY <2>1, <2>2, <3>3 DEF Shape
      <4>2. /\ served'[s] \in {served[s], table'[n].at}
            /\ served'[s] >= served[s] /\ served'[s] >= table'[n].at
        <5>1. served[s] \in Int /\ table'[n].at \in Int
          BY <3>1, <4>1
        <5>2. /\ Max({served[s], table'[n].at}) \in {served[s], table'[n].at}
              /\ Max({served[s], table'[n].at}) >= served[s]
              /\ Max({served[s], table'[n].at}) >= table'[n].at
          BY <5>1, MaxOfTwo
        <5> QED
          BY <4>1, <5>2
      <4>3. CASE served'[s] = table'[n].at
        BY <2>2, <3>3, <4>1, <4>2, <4>3
      <4>4. CASE served'[s] = served[s]
        BY <3>1, <4>2, <4>4
      <4> QED
        BY <4>2, <4>3, <4>4
    <3> QED
      BY <3>2, <3>3
  <2> QED
    BY <2>1, <2>3 DEF Backed, RowsOf
<1> QED
  BY <1>1, <1>2, <1>3, ServingSteps

(* The cache never serves a verdict older than one a caller has been given *)
(* (enrich_providers.py:56-66, 244-257).                                   *)
THEOREM CacheGoesForward == Spec => CacheNeverGoesBack
<1>1. Init => Shape /\ Backed
  BY InitShape DEF Init, Backed
<1>2. Shape /\ Backed /\ [Next]_vars => (Shape /\ Backed)'
  BY ShapeStep, BackedStep
<1>3. Shape /\ Backed /\ [Next]_vars => [\A s \in Subject : served'[s] >= served[s]]_vars
  BY BackedStep
<1> QED
  BY <1>1, <1>2, <1>3, PTL DEF Spec, CacheNeverGoesBack

-----------------------------------------------------------------------------
(* How a step moves time, the table and each job.                          *)
Kin(J, N) ==
    /\ N.tenant = J.tenant /\ N.wanted = J.wanted /\ N.iocs = J.iocs /\ N.asked = J.asked
    /\ N.kind = J.kind
    /\ N.began = J.began /\ N.known = J.known /\ N.kept \subseteq J.kept

Still(J, N) ==
    Kin(J, N) /\ N.matched = J.matched /\ N.todo = J.todo /\ N.ioc = J.ioc /\ N.ask = J.ask

Longer ==
    /\ now \in Nat /\ now' \in Nat /\ now' >= now
    /\ Len(table) \in Nat /\ DOMAIN table = 1..Len(table)
    /\ \A n \in DOMAIN table : n \in DOMAIN table' /\ table'[n] = table[n]
    /\ DOMAIN table \subseteq DOMAIN table'
    /\ \A n \in DOMAIN table' : n \in Nat /\ (n \in DOMAIN table \/ n > Len(table))

LEMMA TableStep ==
  ASSUME Shape, Backed, [Next]_vars
  PROVE  table' = table \/ \E c \in Callers : Store(c)
BY ServingSteps, CachedIsNewest

LEMMA NowStep ==
  ASSUME Shape, [Next]_vars
  PROVE  now' = now \/ now' = now + 1
<1>1. ASSUME NEW c \in Callers, Lookup(c) \/ Finish(c) \/ LoseAnswer(c) PROVE now' = now
  BY <1>1 DEF Lookup, NotConfigured, ServeCached, StartFetch, FetchFails, FetchReturns, Store,
              Finish, LoseAnswer
<1>2. ASSUME NEW c \in Callers, NEW j \in Jobs, Start(c, j) PROVE now' = now
  BY <1>2 DEF Start
<1>3. ASSUME NEW p \in Providers, NEW K \in SUBSET Providers, PatchKey(p, K) PROVE now' = now
  BY <1>3 DEF PatchKey
<1>4. CASE LoadKeys \/ Tick \/ UNCHANGED vars
  BY <1>4 DEF LoadKeys, Tick, vars
<1> QED
  BY <1>1, <1>2, <1>3, <1>4 DEF Next

LEMMA LongerStep ==
  ASSUME Shape, Backed, [Next]_vars
  PROVE  Longer
<1>1. now \in Nat /\ now' \in Nat /\ now' >= now
  BY NowStep DEF Shape
<1>2. Len(table) \in Nat /\ DOMAIN table = 1..Len(table)
  BY DEF Shape
<1>3. CASE table' = table
  BY <1>1, <1>2, <1>3 DEF Longer
<1>4. ASSUME NEW c \in Callers, Store(c) PROVE Longer
  <2>1. /\ DOMAIN table' = 1..(Len(table) + 1)
        /\ \A n \in DOMAIN table : n \in DOMAIN table' /\ table'[n] = table[n]
    BY <1>4, StoreOutcome
  <2> QED
    BY <1>1, <1>2, <2>1 DEF Longer
<1> QED
  BY <1>3, <1>4, TableStep

(* What a lookup can be answered with.                                     *)
Replied(c, v) ==
    \/ v = Nothing /\ Provider(c) \notin keys
    \/ \E n \in Cached(Of(c)) : v = table[n].verdict
    \/ v = "unknown" /\ job[c].pc = "fetch"
    \/ v = job[c].row.verdict /\ job[c].pc = "store" /\ Store(c)

Begun(J, N) ==
    /\ J = Idle /\ N.matched = {} /\ N.pc = "look" /\ N.known = Len(table)
    /\ N.asked = <<>> \/ \A i \in N.iocs : i \in N.todo \/ (i = N.ioc /\ N.ask = N.asked)

LEMMA StartOutcome ==
  ASSUME Shape, NEW c \in Callers, NEW j \in Jobs, Start(c, j)
  PROVE  /\ Begun(job[c], job'[c]) /\ \A d \in Callers \ {c} : job'[d] = job[d]
         /\ job'[c].wanted = j.wanted /\ job'[c].kind = j.kind
<1> DEFINE J == [pc |-> "look", kind |-> j.kind, tenant |-> j.tenant, wanted |-> j.wanted,
                 iocs |-> j.iocs, todo |-> j.iocs, ioc |-> Nothing,
                 asked |-> j.providers, ask |-> <<>>, matched |-> {}, row |-> NoRow,
                 began |-> now, known |-> Len(table), kept |-> keys \cap Range(j.providers)]
<1>1. PICK N \in Turns(J) : job' = [job EXCEPT ![c] = N]
  BY DEF Start
<1>2. Fields \subseteq DOMAIN J
  BY DEF Fields
<1>3. /\ Same(J, N) /\ N.pc = "look" /\ N.matched = {}
      /\ \/ J.todo = {} /\ N.todo = {} /\ N.ask = <<>>
         \/ N.ioc \in J.todo /\ N.todo = J.todo \ {N.ioc} /\ N.ask = J.asked
  BY <1>2, TurnsOutcome
<1>4. /\ N.known = Len(table) /\ N.iocs = J.todo /\ N.asked = J.asked
      /\ N.wanted = j.wanted /\ N.kind = j.kind
  BY <1>3 DEF Same
<1>5. job'[c] = N /\ \A d \in Callers \ {c} : job'[d] = job[d]
  BY <1>1 DEF Shape
<1>6. job[c] = Idle
  BY DEF Start
<1> HIDE DEF J
<1>7. \A i \in N.iocs : i \in N.todo \/ (i = N.ioc /\ N.ask = N.asked)
  BY <1>3, <1>4
<1> QED
  BY <1>3, <1>4, <1>5, <1>6, <1>7 DEF Begun

Course(c) ==
    LET J == job[c]
        N == job'[c]
    IN  \/ N = Idle
        \/ N = J
        \/ Begun(J, N)
        \/ J # Idle /\ Still(J, N) /\ (N.pc = J.pc \/ (N.pc = "store" /\ J.pc = "fetch"))
        \/ J # Idle /\ Still(J, N) /\ StartFetch(c)
        \/ J # Idle /\ J.ask # <<>> /\ \E v : Answered(c, v) /\ Replied(c, v)

LEMMA JobStep ==
  ASSUME Shape, [Next]_vars, NEW c \in Callers
  PROVE  Course(c)
<1>1. ASSUME NEW d \in Callers, NEW v, job[d] # Idle, job[d].ask # <<>>,
             Answered(d, v), Replied(d, v)
      PROVE  Course(c)
  BY <1>1, AnsweredOutcome DEF Course
<1>2. ASSUME NEW d \in Callers, NotConfigured(d) \/ ServeCached(d) \/ FetchFails(d) \/ Store(d)
      PROVE  Course(c)
  <2>1. job[d] # Idle /\ job[d].ask # <<>>
    BY <1>2, Busy DEF NotConfigured, ServeCached, FetchFails, Store
  <2>2. PICK v : Answered(d, v) /\ Replied(d, v)
    BY <1>2 DEF NotConfigured, ServeCached, FetchFails, Store, Replied
  <2> QED
    BY <1>1, <2>1, <2>2
<1>3. ASSUME NEW d \in Callers, StartFetch(d) \/ FetchReturns(d) PROVE Course(c)
  <2>1. job[d] # Idle /\ Fields \subseteq DOMAIN job[d]
    BY <1>3, Busy DEF StartFetch, FetchReturns, Asking
  <2>2. CASE c # d
    BY <1>3, <2>2 DEF StartFetch, FetchReturns, Course, Shape
  <2>3. CASE c = d /\ StartFetch(c)
    <3>1. /\ job' = [job EXCEPT ![c].pc = "fetch"]
          /\ \A x \in Fields \ {"pc"} : job'[c][x] = job[c][x]
      BY <2>1, <2>3 DEF StartFetch, Shape, Fields
    <3>2. Still(job[c], job'[c])
      BY <3>1 DEF Still, Kin, Fields
    <3> QED
      BY <2>1, <2>3, <3>2 DEF Course
  <2>4. CASE c = d /\ FetchReturns(c)
    <3>1. PICK row : job' = [job EXCEPT ![c].pc = "store", ![c].row = row]
      BY <2>4 DEF FetchReturns
    <3>2. /\ \A x \in Fields \ {"pc", "row"} : job'[c][x] = job[c][x]
          /\ job'[c].pc = "store"
      <4>1. job'[c] = [job[c] EXCEPT !.pc = "store", !.row = row]
        BY <3>1 DEF Shape
      <4> QED
        BY <2>1, <2>4, <4>1 DEF Fields
    <3>3. Still(job[c], job'[c])
      BY <3>2 DEF Still, Kin, Fields
    <3> QED
      BY <2>1, <2>4, <3>2, <3>3 DEF Course, FetchReturns
  <2> QED
    BY <1>3, <2>2, <2>3, <2>4
<1>4. ASSUME NEW d \in Callers, Finish(d) \/ LoseAnswer(d) PROVE Course(c)
  BY <1>4 DEF Finish, LoseAnswer, Course, Shape
<1>5. ASSUME NEW d \in Callers, NEW j \in Jobs, Start(d, j) PROVE Course(c)
  BY <1>5, StartOutcome DEF Course
<1>6. ASSUME NEW K, job' = KeptUnder(K) PROVE Course(c)
  <2>1. CASE job[c] = Idle
    BY <1>6, <2>1 DEF KeptUnder, Course
  <2>2. CASE job[c] # Idle
    <3>1. job'[c] = [job[c] EXCEPT !.kept = @ \cap K] /\ Fields \subseteq DOMAIN job[c]
      BY <1>6, <2>2 DEF KeptUnder, Shape, JobShape, Asking
    <3>2. /\ \A x \in Fields \ {"kept"} : job'[c][x] = job[c][x]
          /\ job'[c].kept = job[c].kept \cap K
      BY <3>1 DEF Fields
    <3>3. Still(job[c], job'[c])
      BY <3>2 DEF Still, Kin, Fields
    <3>4. job'[c].pc = job[c].pc
      BY <3>2 DEF Fields
    <3> QED
      BY <2>2, <3>3, <3>4 DEF Course
  <2> QED
    BY <2>1, <2>2
<1>7. ASSUME NEW p \in Providers, NEW K \in SUBSET Providers, PatchKey(p, K) PROVE Course(c)
  BY <1>6, <1>7 DEF PatchKey
<1>8. CASE LoadKeys
  BY <1>6, <1>8 DEF LoadKeys
<1>9. CASE Tick \/ UNCHANGED vars
  BY <1>9 DEF Tick, vars, Course
<1> QED
  BY <1>2, <1>3, <1>4, <1>5, <1>7, <1>8, <1>9 DEF Next, Lookup

-----------------------------------------------------------------------------
(* Some row is the newest: what an earlier step left newest, or the row    *)
(* this step inserts.                                                      *)
NewestThere == \A s : RowsOf(s) # {} => Newest(s) # {}

LEMMA NewestStep ==
  ASSUME Shape, Backed, NewestThere, [Next]_vars
  PROVE  NewestThere'
<1>1. CASE table' = table
  <2>1. ASSUME NEW s PROVE RowsOf(s)' = RowsOf(s) /\ Newest(s)' = Newest(s)
    BY <1>1 DEF RowsOf, Newest
  <2> QED
    BY <2>1, Zenon DEF NewestThere
<1>2. ASSUME NEW c \in Callers, Store(c), NEW s, RowsOf(s)' # {} PROVE Newest(s)' # {}
  <2> DEFINE L == Len(table) + 1
  <2>1. /\ DOMAIN table' = DOMAIN table \cup {L} /\ L \notin DOMAIN table
        /\ \A n \in DOMAIN table : table'[n] = table[n] /\ table[n].at \in Nat
        /\ table'[L].at \in Nat
    <3>1. /\ DOMAIN table = 1..Len(table) /\ Len(table) \in Nat
          /\ DOMAIN table' = 1..(Len(table) + 1)
          /\ \A n \in DOMAIN table : table'[n] = table[n]
          /\ \A n \in DOMAIN table' : table'[n].at \in Nat
      BY <1>2, StoreOutcome
    <3> QED
      BY <3>1 DEF Backed
  <2> HIDE DEF L
  <2>2. RowsOf(s)' = RowsOf(s) \cup (IF table'[L].of = s THEN {L} ELSE {})
    BY <2>1 DEF RowsOf
  <2>3. RowsOf(s) \subseteq DOMAIN table
    BY DEF RowsOf
  <2>4. CASE RowsOf(s) = {}
    <3>1. RowsOf(s)' = {L}
      BY <1>2, <2>2, <2>4
    <3>2. L \in Newest(s)'
      BY <2>1, <3>1 DEF Newest
    <3> QED
      BY <3>2
  <2>5. ASSUME NEW n \in Newest(s) PROVE Newest(s)' # {}
    <3>1. n \in RowsOf(s) /\ \A m \in RowsOf(s) : table[m].at <= table[n].at
      BY <2>5 DEF Newest
    <3>2. CASE table'[L].of = s /\ table'[L].at > table[n].at
      <4>1. \A m \in RowsOf(s)' : table'[m].at <= table'[L].at
        BY <2>1, <2>2, <2>3, <3>1, <3>2
      <4>2. L \in Newest(s)'
        BY <2>2, <3>2, <4>1 DEF Newest
      <4> QED
        BY <4>2
    <3>3. CASE ~(table'[L].of = s /\ table'[L].at > table[n].at)
      <4>1. \A m \in RowsOf(s)' : table'[m].at <= table'[n].at
        BY <2>1, <2>2, <2>3, <3>1, <3>3
      <4>2. n \in Newest(s)'
        BY <2>2, <3>1, <4>1 DEF Newest
      <4> QED
        BY <4>2
    <3> QED
      BY <3>2, <3>3
  <2> QED
    BY <2>4, <2>5 DEF NewestThere
<1> QED
  BY <1>1, <1>2, TableStep DEF NewestThere

(* A miss means that no verdict is fresh, not only the newest.             *)
LEMMA MissIsTotal ==
  ASSUME Shape, Backed, NewestThere, NEW s, Cached(s) = {}, NEW n \in RowsOf(s)
  PROVE  ~Fresh(n)
<1>1. PICK m \in Newest(s) : TRUE
  BY DEF NewestThere
<1>2. m \in RowsOf(s) /\ table[n].at <= table[m].at /\ ~Fresh(m)
  BY <1>1 DEF Newest, Cached
<1>3. table[n].at \in Nat /\ table[m].at \in Nat /\ now \in Nat
  BY <1>2 DEF RowsOf, Backed, Shape
<1> QED
  BY <1>2, <1>3, TtlAssumption DEF Fresh

-----------------------------------------------------------------------------
(* Matches.                                                                *)
Unknowns == {Nothing, "unknown"}

Matches ==
    \A c \in Callers : job[c] # Idle /\ RuleStep(job[c]) =>
        /\ job[c].wanted \cap Unknowns = {}
        /\ \A i \in job[c].matched : Justified(c, i)

LEMMA JustifiedStays ==
  ASSUME Longer, NEW c \in Callers, Kin(job[c], job'[c]), NEW i, Justified(c, i)
  PROVE  Justified(c, i)'
<1>0. PICK p \in Range(job[c].asked) : \E n \in RowsOf(<<job[c].tenant, p, i>>) :
          Wanted(n, c) /\ table[n].at + Ttl >= job[c].began
  BY DEF Justified
<1>1. PICK n \in RowsOf(<<job[c].tenant, p, i>>) :
          Wanted(n, c) /\ table[n].at + Ttl >= job[c].began
  BY <1>0
<1>2. n \in RowsOf(<<job[c].tenant, p, i>>)' /\ table'[n] = table[n]
  BY <1>1 DEF RowsOf, Longer, Kin
<1>3. /\ p \in Range(job'[c].asked) /\ Wanted(n, c)'
      /\ table'[n].at + Ttl >= job'[c].began
  BY <1>1, <1>2 DEF Wanted, Kin
<1> QED
  BY <1>2, <1>3 DEF Justified

(* A match comes from a row that is in the cache, or that is put there.    *)
LEMMA MatchFound ==
  ASSUME Shape, Backed, Longer, NEW c \in Callers, job[c] # Idle, job[c].ask # <<>>, NEW v,
         Answered(c, v), Replied(c, v), v \in job[c].wanted, v \notin Unknowns,
         NEW i, i = job[c].ioc
  PROVE  Justified(c, i)'
<1>1. Same(job[c], job'[c])
  BY AnsweredOutcome
<1>2. /\ Asking(job[c]) /\ job[c].began \in Nat /\ job[c].began <= now /\ now \in Nat
  BY DEF Shape, JobShape
<1>3. PICK p : p = Provider(c)
  OBVIOUS
<1>3a. p \in Range(job'[c].asked)
  BY <1>1, <1>2, <1>3, AskedOnce DEF Asking, Provider, Same
<1>4. ASSUME NEW n \in DOMAIN table', table'[n].of = Of(c), table'[n].verdict = v,
             table'[n].at + Ttl >= job[c].began
      PROVE  Justified(c, i)'
  <2>1. n \in RowsOf(<<job[c].tenant, p, i>>)'
    BY <1>1, <1>3, <1>4 DEF RowsOf, Of, Same
  <2>2. Wanted(n, c)' /\ table'[n].at + Ttl >= job'[c].began
    BY <1>1, <1>4 DEF Wanted, Same
  <2> QED
    BY <1>3a, <2>1, <2>2 DEF Justified
<1>5. ASSUME NEW n \in Cached(Of(c)), v = table[n].verdict PROVE Justified(c, i)'
  <2>1. n \in DOMAIN table /\ table[n].of = Of(c) /\ now - table[n].at <= Ttl
    BY <1>5 DEF Cached, Newest, RowsOf, Fresh
  <2>2. table'[n] = table[n] /\ n \in DOMAIN table' /\ table[n].at \in Nat
    BY <2>1 DEF Longer, Backed
  <2>3. table[n].at + Ttl >= job[c].began
    BY <1>2, <2>1, <2>2, TtlAssumption
  <2> QED
    BY <1>4, <1>5, <2>1, <2>2, <2>3
<1>6. ASSUME v = job[c].row.verdict, job[c].pc = "store", Store(c)
      PROVE  Justified(c, i)'
  <2> DEFINE n == Len(table) + 1
  <2>1. /\ table'[n] = job[c].row /\ job[c].row.of = Of(c) /\ n \in DOMAIN table'
    BY <1>6, StoreOutcome
  <2>2. job[c].row.at \in Nat /\ job[c].began <= job[c].row.at
    BY <1>6 DEF Shape, Pending
  <2> HIDE DEF n
  <2>3. table'[n].at + Ttl >= job[c].began
    BY <1>2, <2>1, <2>2, TtlAssumption
  <2> QED
    BY <1>4, <1>6, <2>1, <2>3
<1> QED
  BY <1>5, <1>6 DEF Replied, Unknowns

LEMMA RuleKept ==
  ASSUME NEW J, NEW N, Kin(J, N)
  PROVE  N.wanted = J.wanted /\ (RuleStep(N) => RuleStep(J))
BY DEF Kin, RuleStep

LEMMA SameIsKin ==
  ASSUME NEW J, NEW N, Same(J, N)
  PROVE  Kin(J, N)
BY DEF Same, Kin

(* No rule may want "unknown", which is also what a failed call is taken   *)
(* for: a key that only failed would then be kept with nothing behind it.  *)
WantKnown == \A j \in Jobs : j.kind \in {"pass", "dry-run"} => j.wanted \cap Unknowns = {}

LEMMA WantedStart ==
  ASSUME WantKnown, Shape, [Next]_vars, NEW c \in Callers, job[c] = Idle, job'[c] # Idle,
         RuleStep(job'[c])
  PROVE  job'[c].wanted \cap Unknowns = {}
<1>1. ASSUME NEW d \in Callers, NEW v, job[d] # Idle, job[d].ask # <<>>, Answered(d, v)
      PROVE  job'[c] = job[c]
  BY <1>1, AnsweredOutcome
<1>2. ASSUME NEW d \in Callers, NotConfigured(d) \/ ServeCached(d) \/ FetchFails(d) \/ Store(d)
      PROVE  job'[c] = job[c]
  <2>1. job[d] # Idle /\ job[d].ask # <<>> /\ \E v : Answered(d, v)
    BY <1>2, Busy DEF NotConfigured, ServeCached, FetchFails, Store
  <2> QED
    BY <1>1, <2>1
<1>3. ASSUME NEW d \in Callers, StartFetch(d) \/ FetchReturns(d) PROVE job'[c] = job[c]
  <2>1. d # c
    BY <1>3, Busy DEF StartFetch, FetchReturns
  <2> QED
    BY <1>3, <2>1 DEF StartFetch, FetchReturns, Shape
<1>4. ASSUME NEW d \in Callers, Finish(d) \/ LoseAnswer(d) PROVE job'[c] = job[c]
  BY <1>4 DEF Finish, LoseAnswer, Shape, Idle
<1>5. ASSUME NEW d \in Callers, NEW j \in Jobs, Start(d, j)
      PROVE  job'[c].wanted \cap Unknowns = {}
  <2>1. d = c
    BY <1>5, StartOutcome
  <2>2. job'[c].wanted = j.wanted /\ job'[c].kind = j.kind
    BY <1>5, <2>1, StartOutcome
  <2> QED
    BY <2>2 DEF WantKnown, RuleStep
<1>6. ASSUME NEW K, job' = KeptUnder(K) PROVE job'[c] = job[c]
  BY <1>6 DEF KeptUnder
<1>7. CASE LoadKeys \/ \E p \in Providers, K \in SUBSET Providers : PatchKey(p, K)
  BY <1>6, <1>7 DEF LoadKeys, PatchKey
<1>8. CASE Tick \/ UNCHANGED vars
  BY <1>8 DEF Tick, vars
<1> QED
  BY <1>2, <1>3, <1>4, <1>5, <1>7, <1>8 DEF Next, Lookup

LEMMA MatchesStep ==
  ASSUME WantKnown, Shape, Backed, Matches, [Next]_vars
  PROVE  Matches'
<1> SUFFICES ASSUME NEW c \in Callers, job'[c] # Idle, RuleStep(job'[c])
             PROVE  /\ job'[c].wanted \cap Unknowns = {}
                    /\ \A i \in job'[c].matched : Justified(c, i)'
  BY DEF Matches
<1>0. Longer
  BY LongerStep
<1>1. ASSUME job[c] # Idle, Kin(job[c], job'[c])
      PROVE  /\ job'[c].wanted \cap Unknowns = {}
             /\ \A i \in job[c].matched : Justified(c, i)'
  <2>1. RuleStep(job[c]) /\ job'[c].wanted = job[c].wanted
    BY <1>1, RuleKept
  <2> QED
    BY <1>0, <1>1, <2>1, JustifiedStays DEF Matches
<1>2. CASE job'[c] = job[c]
  <2>1. Kin(job[c], job'[c])
    BY <1>2 DEF Kin
  <2> QED
    BY <1>1, <1>2, <2>1
<1>3. CASE Begun(job[c], job'[c])
  BY <1>3, WantedStart DEF Begun
<1>4. CASE job[c] # Idle /\ Still(job[c], job'[c])
  BY <1>1, <1>4 DEF Still
<1>5. ASSUME job[c] # Idle, job[c].ask # <<>>, NEW v, Answered(c, v), Replied(c, v)
      PROVE  /\ job'[c].wanted \cap Unknowns = {}
             /\ \A i \in job'[c].matched : Justified(c, i)'
  <2>1. /\ Same(job[c], job'[c])
        /\ job'[c].matched =
              job[c].matched \cup (IF v \in job[c].wanted THEN {job[c].ioc} ELSE {})
    BY <1>5, AnsweredOutcome
  <2>2. Kin(job[c], job'[c])
    BY <2>1, SameIsKin
  <2>3. /\ job'[c].wanted \cap Unknowns = {} /\ job'[c].wanted = job[c].wanted
        /\ \A i \in job[c].matched : Justified(c, i)'
    BY <1>1, <1>5, <2>2, RuleKept
  <2>4. ASSUME NEW i, i = job[c].ioc, v \in job[c].wanted PROVE Justified(c, i)'
    <3>1. v \notin Unknowns
      BY <2>3, <2>4
    <3> QED
      BY <1>0, <1>5, <2>4, <3>1, MatchFound
  <2> QED
    BY <2>1, <2>3, <2>4
<1> QED
  BY <1>2, <1>3, <1>4, <1>5, JobStep DEF Course

(* A key a rule's enrich step keeps is backed by a wanted verdict of its   *)
(* tenant and providers, not older than Ttl, for any callers, providers and*)
(* losses, unless a rule wants "unknown" (enrich_providers.py:300-328).    *)
THEOREM MatchesAreJustified ==
  ASSUME WantKnown
  PROVE  Spec => []MatchIsJustified
<1>1. Init => Shape /\ Backed /\ Matches
  BY InitShape DEF Init, Backed, Matches
<1>2. Shape /\ Backed /\ Matches /\ [Next]_vars => (Shape /\ Backed /\ Matches)'
  BY ShapeStep, BackedStep, MatchesStep
<1>3. Matches => MatchIsJustified
  BY DEF Matches, MatchIsJustified, RuleDone, Idle
<1> QED
  BY <1>1, <1>2, <1>3, PTL DEF Spec

-----------------------------------------------------------------------------
(* What is known bad is not passed over: as long as the key of a provider  *)
(* is there, an IOC is still to be looked up at it, or matched, or was not *)
(* known bad when it was.                                                  *)
Covered(c) ==
    job[c] # Idle =>
        /\ job[c].pc \in {"fetch", "store"} => ~KnownBad(c, Of(c))
        /\ \A i \in job[c].iocs, p \in job[c].kept :
              \/ Left(job[c], i, p) \/ i \in job[c].matched
              \/ ~KnownBad(c, <<job[c].tenant, p, i>>)

AllCovered == \A c \in Callers : Covered(c)

(* What was not known bad does not become it.                              *)
LEMMA KnownBadStays ==
  ASSUME Shape, Backed, Longer, NEW c \in Callers, job[c] # Idle, Kin(job[c], job'[c]),
         NEW s, KnownBad(c, s)'
  PROVE  KnownBad(c, s)
<1> DEFINE known == { n \in RowsOf(s) : n <= job[c].known }
           later == { n \in RowsOf(s)' : n <= job'[c].known }
<1>0. /\ job'[c].known = job[c].known /\ job'[c].wanted = job[c].wanted
      /\ job[c].known \in Nat /\ job[c].known <= Len(table)
      /\ now \in Nat /\ now' \in Nat /\ now' >= now /\ Len(table) \in Nat
  BY DEF Kin, Shape, JobShape, Longer
<1>1a. \A n \in RowsOf(s) : n \in RowsOf(s)' /\ table'[n] = table[n] /\ table[n].at \in Nat
  BY DEF RowsOf, Longer, Backed
<1>1b. ASSUME NEW n \in later PROVE n \in known
  <2>1. n \in DOMAIN table' /\ table'[n].of = s /\ n <= job[c].known
    BY <1>0, <1>1b DEF RowsOf
  <2>2. ~(n > Len(table))
    BY <1>0, <2>1 DEF Longer
  <2>3. n \in DOMAIN table /\ table[n].of = s
    BY <2>1, <2>2 DEF Longer
  <2> QED
    BY <2>1, <2>3 DEF RowsOf
<1>1. /\ \A n \in RowsOf(s) : n \in RowsOf(s)' /\ table'[n] = table[n] /\ table[n].at \in Nat
      /\ \A n \in later : n \in known
  BY <1>1a, <1>1b
<1>2. known \subseteq later
  BY <1>0, <1>1
<1>3. PICK n \in later : /\ \A m \in later : table'[m].at <= table'[n].at
                         /\ \A m \in RowsOf(s)' : table'[m].at >= table'[n].at => Wanted(m, c)'
                         /\ Fresh(n)'
  BY DEF KnownBad
<1>4. n \in known /\ n \in RowsOf(s) /\ table'[n] = table[n] /\ table[n].at \in Nat
  BY <1>1, <1>3
<1>5. \A m \in known : table[m].at <= table[n].at
  BY <1>1, <1>2, <1>3, <1>4
<1>6. \A m \in RowsOf(s) : table[m].at >= table[n].at => Wanted(m, c)
  BY <1>0, <1>1, <1>3, <1>4 DEF Wanted
<1>7. Fresh(n)
  BY <1>0, <1>3, <1>4, TtlAssumption DEF Fresh
<1> HIDE DEF known
<1>8. \E k \in known : /\ \A m \in known : table[m].at <= table[k].at
                       /\ \A m \in RowsOf(s) : table[m].at >= table[k].at => Wanted(m, c)
                       /\ Fresh(k)
  BY <1>4, <1>5, <1>6, <1>7
<1> QED
  BY <1>8 DEF KnownBad, known

(* A miss, or an unwanted verdict in the cache, refutes it.                *)
LEMMA MissRefutes ==
  ASSUME Shape, Backed, NewestThere, NEW c \in Callers, NEW s, Cached(s) = {}
  PROVE  ~KnownBad(c, s)
BY MissIsTotal DEF KnownBad

LEMMA UnwantedRefutes ==
  ASSUME Backed, NEW c \in Callers, NEW s, NEW n \in Cached(s), ~Wanted(n, c)
  PROVE  ~KnownBad(c, s)
BY DEF KnownBad, Cached, Newest

LEMMA StillCovered ==
  ASSUME Shape, Backed, Longer, NEW c \in Callers, job[c] # Idle, Still(job[c], job'[c]),
         Covered(c),
         job'[c].pc \in {"fetch", "store"} => ~KnownBad(c, Of(c))
  PROVE  Covered(c)'
<1>1. Kin(job[c], job'[c])
  BY DEF Still
<1>2. ASSUME job'[c].pc \in {"fetch", "store"} PROVE ~KnownBad(c, Of(c))'
  <2>1. PICK s : s = Of(c)
    OBVIOUS
  <2>2. Of(c)' = s
    BY <2>1 DEF Still, Kin, Of, Provider
  <2>3. ~KnownBad(c, s)'
    BY <1>1, <1>2, <2>1, KnownBadStays
  <2>4. (s = Of(c))' /\ ~KnownBad(c, s)'
    BY <2>2, <2>3
  <2> QED
    BY <2>4 DEF KnownBad
<1>3. ASSUME NEW i \in job'[c].iocs, NEW p \in job'[c].kept
      PROVE  \/ Left(job[c], i, p)' \/ i \in job'[c].matched
             \/ ~KnownBad(c, <<job[c].tenant, p, i>>)'
  <2>1. i \in job[c].iocs /\ p \in job[c].kept /\ job'[c].tenant = job[c].tenant
    BY <1>3 DEF Still, Kin
  <2>2. PICK s : s = <<job[c].tenant, p, i>>
    OBVIOUS
  <2>3. \/ Left(job[c], i, p) \/ i \in job[c].matched \/ ~KnownBad(c, s)
    BY <2>1, <2>2 DEF Covered
  <2>4. Left(job[c], i, p) => Left(job[c], i, p)'
    BY DEF Still, Left
  <2>5. job'[c].matched = job[c].matched
    BY DEF Still
  <2>6. ~KnownBad(c, s) => ~KnownBad(c, s)'
    BY <1>1, KnownBadStays
  <2>7. s = <<job'[c].tenant, p, i>>
    BY <2>1, <2>2
  <2>8. KnownBad(c, s)' <=> KnownBad(c, <<job[c].tenant, p, i>>)'
    BY <2>7 DEF KnownBad
  <2> QED
    BY <2>3, <2>4, <2>5, <2>6, <2>8
<1> QED
  BY <1>2, <1>3 DEF Covered

(* An answer that is not a match comes of a provider without a key, of a   *)
(* verdict in the cache that is not wanted, or after a miss.               *)
LEMMA AnswerRefutes ==
  ASSUME Shape, Backed, Longer, NEW c \in Callers, job[c] # Idle, job[c].ask # <<>>, Covered(c),
         NEW v, Answered(c, v), Replied(c, v), v \notin job[c].wanted,
         Provider(c) \in job[c].kept
  PROVE  ~KnownBad(c, Of(c))
<1>1. Provider(c) \in keys
  BY DEF Shape, JobShape
<1>2. ASSUME NEW n \in Cached(Of(c)), v = table[n].verdict PROVE ~KnownBad(c, Of(c))
  BY <1>2, UnwantedRefutes DEF Wanted
<1>3. CASE job[c].pc \in {"fetch", "store"}
  BY <1>3 DEF Covered
<1> QED
  BY <1>1, <1>2, <1>3 DEF Replied

LEMMA AnsweredCovered ==
  ASSUME Shape, Backed, Longer, NEW c \in Callers, job[c] # Idle, job[c].ask # <<>>, Covered(c),
         NEW v, Answered(c, v), Replied(c, v)
  PROVE  Covered(c)'
<1>1. /\ Same(job[c], job'[c]) /\ job'[c].pc = "look"
      /\ job'[c] \in Rest(Noted(job[c], v), v) /\ Asking(job[c])
      /\ job'[c].matched = job[c].matched \cup (IF v \in job[c].wanted THEN {job[c].ioc} ELSE {})
  BY AnsweredOutcome DEF Shape, JobShape
<1>2. \A i, p : p \in Range(job[c].asked) /\ Left(job[c], i, p) =>
              \/ Left(job'[c], i, p)
              \/ i = job[c].ioc /\ (p = Head(job[c].ask) \/ i \in job'[c].matched)
  BY <1>1, RestOutcome
<1>3. ASSUME NEW i \in job'[c].iocs, NEW p \in job'[c].kept
      PROVE  \/ Left(job[c], i, p)' \/ i \in job'[c].matched
             \/ ~KnownBad(c, <<job[c].tenant, p, i>>)'
  <2>1. /\ i \in job[c].iocs /\ p \in job[c].kept /\ job'[c].tenant = job[c].tenant
        /\ p \in Range(job[c].asked)
    BY <1>1, <1>3 DEF Same, Shape, JobShape
  <2>2. PICK s : s = <<job[c].tenant, p, i>>
    OBVIOUS
  <2>3. \/ Left(job[c], i, p) \/ i \in job[c].matched \/ ~KnownBad(c, s)
    BY <2>1, <2>2 DEF Covered
  <2>4. ASSUME i = job[c].ioc, p = Head(job[c].ask), i \notin job'[c].matched
        PROVE  ~KnownBad(c, s)
    <3>1. v \notin job[c].wanted
      BY <1>1, <2>4
    <3>2. Provider(c) = p /\ Of(c) = s
      BY <2>2, <2>4 DEF Of, Provider
    <3> QED
      BY <2>1, <3>1, <3>2, AnswerRefutes
  <2>5. \/ Left(job'[c], i, p) \/ i \in job'[c].matched \/ ~KnownBad(c, s)
    BY <1>1, <1>2, <2>1, <2>3, <2>4
  <2>6. Kin(job[c], job'[c])
    BY <1>1, SameIsKin
  <2>7. ~KnownBad(c, s) => ~KnownBad(c, s)'
    BY <2>6, KnownBadStays
  <2>8. s = <<job'[c].tenant, p, i>>
    BY <2>1, <2>2
  <2>9. KnownBad(c, s)' <=> KnownBad(c, <<job[c].tenant, p, i>>)'
    BY <2>8 DEF KnownBad
  <2>10. Left(job'[c], i, p) => Left(job[c], i, p)'
    BY DEF Left
  <2> QED
    BY <2>5, <2>7, <2>9, <2>10
<1> QED
  BY <1>1, <1>3 DEF Covered

LEMMA BegunCovered ==
  ASSUME Shape', NEW c \in Callers, Begun(job[c], job'[c])
  PROVE  Covered(c)'
<1>1. CASE job'[c].asked = <<>>
  <2>1. job'[c] # Idle => job'[c].kept \subseteq Range(job'[c].asked)
    BY DEF Shape, JobShape
  <2>2. Range(job'[c].asked) = {}
    BY <1>1 DEF Range
  <2> QED
    BY <2>1, <2>2 DEF Covered, Begun
<1>2. CASE \A i \in job'[c].iocs :
              i \in job'[c].todo \/ (i = job'[c].ioc /\ job'[c].ask = job'[c].asked)
  <2>1. ASSUME NEW i \in job'[c].iocs, NEW p \in job'[c].kept, job'[c] # Idle
        PROVE  Left(job[c], i, p)'
    <3>1. p \in Range(job'[c].asked)
      BY <2>1 DEF Shape, JobShape
    <3>2. i \in job'[c].todo \/ (i = job'[c].ioc /\ p \in Range(job'[c].ask))
      BY <1>2, <3>1
    <3> QED
      BY <3>2 DEF Left
  <2> QED
    BY <2>1 DEF Covered, Begun
<1> QED
  BY <1>1, <1>2 DEF Begun

LEMMA CoveredStep ==
  ASSUME Shape, Backed, NewestThere, AllCovered, [Next]_vars
  PROVE  AllCovered'
<1> SUFFICES ASSUME NEW c \in Callers PROVE Covered(c)'
  BY DEF AllCovered
<1>0. Longer /\ Shape' /\ Covered(c)
  BY LongerStep, ShapeStep DEF AllCovered
<1>1. CASE job'[c] = Idle
  BY <1>1 DEF Covered
<1>2. CASE job[c] # Idle /\ job'[c] = job[c]
  <2>1. Still(job[c], job'[c])
    BY <1>2 DEF Still, Kin
  <2> QED
    BY <1>0, <1>2, <2>1, StillCovered DEF Covered
<1>3. CASE Begun(job[c], job'[c])
  BY <1>0, <1>3, BegunCovered
<1>4. CASE /\ job[c] # Idle /\ Still(job[c], job'[c])
           /\ job'[c].pc = job[c].pc \/ (job'[c].pc = "store" /\ job[c].pc = "fetch")
  BY <1>0, <1>4, StillCovered DEF Covered
<1>5. CASE job[c] # Idle /\ Still(job[c], job'[c]) /\ StartFetch(c)
  <2>1. Cached(Of(c)) = {}
    BY <1>5 DEF StartFetch
  <2> QED
    BY <1>0, <1>5, <2>1, MissRefutes, StillCovered
<1>6. ASSUME job[c] # Idle, job[c].ask # <<>>, NEW v, Answered(c, v), Replied(c, v)
      PROVE  Covered(c)'
  BY <1>0, <1>6, AnsweredCovered
<1> QED
  BY <1>1, <1>2, <1>3, <1>4, <1>5, <1>6, JobStep DEF Course

(* Whichever of the other providers fail, whatever else is in the list and *)
(* whoever else is asking: a key still known bad when a rule's enrich step *)
(* is done is matched (enrich_providers.py:314-327).                       *)
THEOREM KnownBadIsKept == Spec => []KnownBadIsMatched
<1> DEFINE Inv == Shape /\ Backed /\ NewestThere /\ AllCovered
<1>1. Init => Inv
  <2> HAVE Init
  <2>1. \A s : RowsOf(s) = {}
    BY DEF Init, RowsOf
  <2> QED
    BY <2>1, InitShape DEF Init, Backed, NewestThere, AllCovered, Covered
<1>2. Inv /\ [Next]_vars => Inv'
  BY ShapeStep, BackedStep, NewestStep, CoveredStep
<1>3. Inv => KnownBadIsMatched
  <2> SUFFICES ASSUME Inv, NEW c \in Callers, RuleDone(c),
                      NEW i \in job[c].iocs, NEW p \in job[c].kept,
                      KnownBad(c, <<job[c].tenant, p, i>>)
               PROVE  i \in job[c].matched
    BY DEF KnownBadIsMatched
  <2>1. job[c] # Idle /\ job[c].ask = <<>>
    BY DEF RuleDone, Idle
  <2>2. Asking(job[c]) /\ p \in Range(job[c].asked)
    BY <2>1 DEF Shape, JobShape
  <2>3. Range(<<>>) = {}
    BY DEF Range
  <2>4. job[c].todo = {} /\ ~Left(job[c], i, p)
    BY <2>1, <2>2, <2>3 DEF Asking, Left
  <2> QED
    BY <2>1, <2>4 DEF AllCovered, Covered
<1> QED
  BY <1>1, <1>2, <1>3, PTL DEF Spec

-----------------------------------------------------------------------------
(* How answers are reused. While no verdict of a subject from the window   *)
(* t..t+Ttl is stored, every answer in it waits in a caller's hands or is  *)
(* lost. Once one is stored nobody else starts to ask before the window is *)
(* over, so the callers that still ask are all that can add to it.         *)
Within(t, at) == t <= at /\ at <= t + Ttl

AnsweredIn(s, t) == { n \in DOMAIN answered[s] : answered[s][n] \in t..(t + Ttl) }

Fetching(s, t) ==
    { c \in Callers : job[c].pc = "fetch" /\ Of(c) = s /\ now <= t + Ttl }

Storing(s, t) ==
    { c \in Callers : job[c].pc = "store" /\ job[c].row.of = s /\ Within(t, job[c].row.at) }

StoredIn(s, t) == \E n \in RowsOf(s) : Within(t, table[n].at)

Spare(s, t) ==
    IF StoredIn(s, t)
    THEN Cardinality(AnsweredIn(s, t)) + Cardinality(Fetching(s, t))
            <= Cardinality(Callers) + crashes
    ELSE Cardinality(AnsweredIn(s, t)) <= Cardinality(Storing(s, t)) + crashes

Calls == answered \in [Subject -> Seq(Nat)] /\ crashes \in Nat

Spared == \A s \in Subject, t \in Nat : Spare(s, t)

LEMMA CallerSets ==
  ASSUME NEW s, NEW t
  PROVE  /\ Cardinality(Callers) \in Nat
         /\ IsFiniteSet(Fetching(s, t)) /\ Cardinality(Fetching(s, t)) \in Nat
         /\ IsFiniteSet(Storing(s, t)) /\ Cardinality(Storing(s, t)) \in Nat
         /\ Cardinality(Fetching(s, t)) + Cardinality(Storing(s, t)) <= Cardinality(Callers)
<1>1. Fetching(s, t) \subseteq Callers /\ Storing(s, t) \subseteq Callers
  BY DEF Fetching, Storing
<1>2. IsFiniteSet(Fetching(s, t)) /\ IsFiniteSet(Storing(s, t))
  BY <1>1, CallersAssumption, FS_Subset
<1>3. Fetching(s, t) \cap Storing(s, t) = {}
  BY DEF Fetching, Storing
<1>4. Cardinality(Fetching(s, t) \cap Storing(s, t)) = 0
  BY <1>3, FS_EmptySet
<1>5. /\ Cardinality(Callers) \in Nat /\ Cardinality(Fetching(s, t)) \in Nat
      /\ Cardinality(Storing(s, t)) \in Nat
  BY <1>2, CallersAssumption, FS_CardinalityType
<1>6. Cardinality(Fetching(s, t) \cup Storing(s, t))
        = Cardinality(Fetching(s, t)) + Cardinality(Storing(s, t))
            - Cardinality(Fetching(s, t) \cap Storing(s, t))
  BY <1>2, FS_Union
<1>7. Cardinality(Fetching(s, t) \cup Storing(s, t)) <= Cardinality(Callers)
  BY <1>1, CallersAssumption, FS_Subset
<1> QED
  BY <1>2, <1>4, <1>5, <1>6, <1>7

Counted ==
    \A s, t : /\ IsFiniteSet(Fetching(s, t)) /\ Cardinality(Fetching(s, t)) \in Nat
              /\ IsFiniteSet(Storing(s, t)) /\ Cardinality(Storing(s, t)) \in Nat
              /\ Cardinality(Fetching(s, t)) + Cardinality(Storing(s, t)) <= Cardinality(Callers)

LEMMA CallerSetsCount == Counted
BY CallerSets DEF Counted

LEMMA CallerSetsNext == Counted'
BY CallerSetsCount, PTL

LEMMA AnswerCount ==
  ASSUME Calls, NEW s \in Subject, NEW t \in Nat
  PROVE  /\ IsFiniteSet(AnsweredIn(s, t)) /\ Cardinality(AnsweredIn(s, t)) \in Nat
<1>1. AnsweredIn(s, t) \subseteq 1..Len(answered[s]) /\ Len(answered[s]) \in Nat
  BY DEF AnsweredIn, Calls
<1>2. IsFiniteSet(1..Len(answered[s]))
  BY <1>1, FS_Interval
<1> QED
  BY <1>1, <1>2, FS_Subset, FS_CardinalityType

(* Most steps count nothing: no answer, no row; no caller starts asking in *)
(* the window, none in it gives up its answer.                             *)
LEMMA SpareKept ==
  ASSUME Calls, Calls', NEW s \in Subject, NEW t \in Nat, Spare(s, t),
         AnsweredIn(s, t)' = AnsweredIn(s, t), crashes' >= crashes,
         StoredIn(s, t)' <=> StoredIn(s, t),
         StoredIn(s, t) => Fetching(s, t)' \subseteq Fetching(s, t),
         ~StoredIn(s, t) => Storing(s, t) \subseteq Storing(s, t)'
  PROVE  Spare(s, t)'
<1> DEFINE A == Cardinality(AnsweredIn(s, t))
           F == Cardinality(Fetching(s, t))
           P == Cardinality(Storing(s, t))
<1>1. Cardinality(AnsweredIn(s, t)') = A
  OBVIOUS
<1>3. /\ IsFiniteSet(Storing(s, t)') /\ Cardinality(Storing(s, t)') \in Nat
      /\ Cardinality(Fetching(s, t)') \in Nat
  BY CallerSetsNext DEF Counted
<1>4. A \in Nat /\ F \in Nat /\ P \in Nat /\ IsFiniteSet(Fetching(s, t)) /\ Cardinality(Callers) \in Nat
  BY CallerSets, AnswerCount
<1>5. ~StoredIn(s, t) => P <= Cardinality(Storing(s, t)')
  BY <1>3, FS_Subset
<1>6. StoredIn(s, t) => Cardinality(Fetching(s, t)') <= F
  BY <1>4, FS_Subset
<1>7. crashes \in Nat /\ crashes' \in Nat
  BY DEF Calls
<1> HIDE DEF A, F, P
<1>8. IF StoredIn(s, t)
      THEN A + Cardinality(Fetching(s, t)') <= Cardinality(Callers) + crashes'
      ELSE A <= Cardinality(Storing(s, t)') + crashes'
  <2>1. IF StoredIn(s, t) THEN A + F <= Cardinality(Callers) + crashes ELSE A <= P + crashes
    BY DEF Spare, A, F, P
  <2> QED
    BY <1>3, <1>4, <1>5, <1>6, <1>7, <2>1
<1> QED
  BY <1>1, <1>8 DEF Spare, A

LEMMA CallsStep ==
  ASSUME Calls, Shape, [Next]_vars
  PROVE  Calls'
<1>1. CASE UNCHANGED <<answered, crashes>>
  BY <1>1 DEF Calls
<1>2. ASSUME NEW c \in Callers,
             NotConfigured(c) \/ ServeCached(c) \/ StartFetch(c) \/ FetchFails(c) \/ Store(c)
                \/ Finish(c)
      PROVE  UNCHANGED <<answered, crashes>>
  BY <1>2 DEF NotConfigured, ServeCached, StartFetch, FetchFails, Store, Finish, counters
<1>3. ASSUME NEW c \in Callers, FetchReturns(c) PROVE Calls'
  <2>1. now \in Nat /\ crashes' = crashes
    BY <1>3 DEF FetchReturns, counters, Shape
  <2>2. answered' = answered \/ answered' = [answered EXCEPT ![Of(c)] = Append(@, now)]
    BY <1>3 DEF FetchReturns
  <2>3. /\ DOMAIN answered' = Subject
        /\ \A s \in Subject : answered'[s] = answered[s] \/ answered'[s] = Append(answered[s], now)
    BY <2>2 DEF Calls
  <2>4. ASSUME NEW s \in Subject PROVE answered'[s] \in Seq(Nat)
    <3>1. answered[s] \in Seq(Nat)
      BY DEF Calls
    <3>2. Append(answered[s], now) \in Seq(Nat)
      BY <2>1, <3>1
    <3> QED
      BY <2>3, <3>1, <3>2
  <2>5. answered' = [s \in Subject |-> answered'[s]]
    BY <2>2, <2>3 DEF Calls
  <2> QED
    BY <2>1, <2>4, <2>5 DEF Calls
<1>4. ASSUME NEW c \in Callers, LoseAnswer(c) PROVE Calls'
  BY <1>4 DEF LoseAnswer, Calls
<1>5. ASSUME NEW c \in Callers, NEW j \in Jobs, Start(c, j) PROVE UNCHANGED <<answered, crashes>>
  BY <1>5 DEF Start
<1>6. ASSUME NEW p \in Providers, NEW K \in SUBSET Providers, PatchKey(p, K)
      PROVE  UNCHANGED <<answered, crashes>>
  BY <1>6 DEF PatchKey
<1>7. CASE LoadKeys \/ Tick \/ UNCHANGED vars
  BY <1>7, <1>1 DEF LoadKeys, Tick, vars, counters
<1> QED
  BY <1>1, <1>2, <1>3, <1>4, <1>5, <1>6, <1>7 DEF Next, Lookup

(* A step of one caller that inserts nothing and answers nothing of s.     *)
LEMMA OneCaller ==
  ASSUME Calls, Calls', NEW s \in Subject, NEW t \in Nat, Spare(s, t), NEW c \in Callers,
         \A d \in Callers \ {c} : job'[d] = job[d],
         now' = now, table' = table, AnsweredIn(s, t)' = AnsweredIn(s, t), crashes' = crashes,
         StoredIn(s, t) => c \notin Fetching(s, t)', job[c].pc # "store"
  PROVE  Spare(s, t)'
<1>1. StoredIn(s, t)' <=> StoredIn(s, t)
  BY DEF StoredIn, RowsOf
<1>2. ASSUME NEW d \in Callers \ {c}
      PROVE  /\ d \in Fetching(s, t)' <=> d \in Fetching(s, t)
             /\ d \in Storing(s, t)' <=> d \in Storing(s, t)
  BY <1>2 DEF Fetching, Storing, Of, Provider
<1>3. c \notin Storing(s, t)
  BY DEF Storing
<1>4. StoredIn(s, t) => Fetching(s, t)' \subseteq Fetching(s, t)
  <2>1. Fetching(s, t)' \subseteq Callers
    BY DEF Fetching
  <2> QED
    BY <1>2, <2>1
<1>5. Storing(s, t) \subseteq Storing(s, t)'
  <2>1. Storing(s, t) \subseteq Callers
    BY DEF Storing
  <2> QED
    BY <1>2, <1>3, <2>1
<1>6. crashes' >= crashes
  BY DEF Calls
<1> QED
  BY <1>1, <1>4, <1>5, <1>6, SpareKept

(* Nobody asks again while a verdict of the window is still good.          *)
LEMMA AskedOnMissOnly ==
  ASSUME Shape, Backed, NewestThere, NEW s, NEW t \in Nat, StoredIn(s, t),
         NEW c \in Callers, StartFetch(c)
  PROVE  c \notin Fetching(s, t)'
<1> SUFFICES ASSUME c \in Fetching(s, t)' PROVE FALSE
  OBVIOUS
<1>1. /\ job' = [job EXCEPT ![c].pc = "fetch"] /\ Cached(Of(c)) = {} /\ now' = now
      /\ Fields \subseteq DOMAIN job[c]
  BY Busy DEF StartFetch, Asking
<1>2. Of(c)' = Of(c)
  BY <1>1 DEF Of, Provider, Fields, Shape
<1>3. Of(c)' = s /\ now' <= t + Ttl
  BY DEF Fetching
<1>4. PICK n \in RowsOf(s) : Within(t, table[n].at)
  BY DEF StoredIn
<1>5. table[n].at \in Nat /\ now \in Nat
  BY <1>4 DEF RowsOf, Backed, Shape
<1>6. Fresh(n)
  BY <1>1, <1>3, <1>4, <1>5, TtlAssumption DEF Fresh, Within
<1>7. Cached(s) = {}
  BY <1>1, <1>2, <1>3
<1> QED
  BY <1>4, <1>6, <1>7, MissIsTotal

(* An answer passes from the call to the caller's hands: one count for     *)
(* another.                                                                *)
LEMMA ReturnSpares ==
  ASSUME Shape, Calls, Calls', NEW s \in Subject, NEW t \in Nat, Spare(s, t),
         NEW c \in Callers, FetchReturns(c)
  PROVE  Spare(s, t)'
<1>1. PICK v : job' = [job EXCEPT ![c].pc = "store",
                                  ![c].row = [of |-> Of(c), verdict |-> v, at |-> now]]
  BY DEF FetchReturns
<1>2. /\ job[c].pc = "fetch" /\ now' = now /\ table' = table /\ crashes' = crashes
      /\ now \in Nat /\ Fields \subseteq DOMAIN job[c]
  BY Busy DEF FetchReturns, counters, Shape, Asking
<1>3. /\ job'[c].pc = "store" /\ job'[c].row.of = Of(c) /\ job'[c].row.at = now
      /\ \A d \in Callers \ {c} : job'[d] = job[d]
  BY <1>1, <1>2 DEF Fields, Shape
<1>4. c \notin Fetching(s, t)' /\ c \notin Storing(s, t)
  BY <1>2, <1>3 DEF Fetching, Storing
<1>5. CASE AnsweredIn(s, t)' = AnsweredIn(s, t)
  BY <1>2, <1>3, <1>4, <1>5, OneCaller
<1>6. CASE answered'[s] = Append(answered[s], now) /\ s = Of(c)
  <2> DEFINE L == Len(answered[s]) + 1
  <2>1. /\ answered[s] \in Seq(Nat) /\ L \in Nat /\ L \notin DOMAIN answered[s]
        /\ DOMAIN answered'[s] = DOMAIN answered[s] \cup {L}
        /\ answered'[s][L] = now
        /\ \A n \in DOMAIN answered[s] : answered'[s][n] = answered[s][n]
    <3>1. answered[s] \in Seq(Nat)
      BY DEF Calls
    <3> QED
      BY <1>2, <1>6, <3>1
  <2> HIDE DEF L
  <2>2. CASE now \notin t..(t + Ttl)
    <3>1. AnsweredIn(s, t)' = AnsweredIn(s, t)
      BY <2>1, <2>2 DEF AnsweredIn
    <3> QED
      BY <1>5, <3>1
  <2>3. CASE now \in t..(t + Ttl)
    <3>1. AnsweredIn(s, t)' = AnsweredIn(s, t) \cup {L} /\ L \notin AnsweredIn(s, t)
      BY <2>1, <2>3 DEF AnsweredIn
    <3>2. Cardinality(AnsweredIn(s, t)') = Cardinality(AnsweredIn(s, t)) + 1
      BY <3>1, AnswerCount, FS_AddElement
    <3>3. c \in Fetching(s, t) /\ c \in Storing(s, t)'
      BY <1>2, <1>3, <1>6, <2>3, TtlAssumption DEF Fetching, Storing, Within
    <3>4. /\ Fetching(s, t)' \subseteq Fetching(s, t) \ {c}
          /\ Storing(s, t) \cup {c} \subseteq Storing(s, t)'
      <4>1. ASSUME NEW d \in Callers \ {c}
            PROVE  /\ d \in Fetching(s, t)' <=> d \in Fetching(s, t)
                   /\ d \in Storing(s, t)' <=> d \in Storing(s, t)
        BY <1>2, <1>3, <4>1 DEF Fetching, Storing, Of, Provider
      <4>2. Fetching(s, t)' \subseteq Callers /\ Storing(s, t) \subseteq Callers
        BY DEF Fetching, Storing
      <4> QED
        BY <1>4, <3>3, <4>1, <4>2
    <3>5. Cardinality(Fetching(s, t)') <= Cardinality(Fetching(s, t)) - 1
      <4>1. /\ IsFiniteSet(Fetching(s, t) \ {c})
            /\ Cardinality(Fetching(s, t) \ {c}) = Cardinality(Fetching(s, t)) - 1
        BY <3>3, CallerSets, FS_RemoveElement
      <4>2. Cardinality(Fetching(s, t)') <= Cardinality(Fetching(s, t) \ {c})
        BY <3>4, <4>1, FS_Subset
      <4> QED
        BY <4>1, <4>2
    <3>6. Cardinality(Storing(s, t)) + 1 <= Cardinality(Storing(s, t)')
      <4>1. Cardinality(Storing(s, t) \cup {c}) = Cardinality(Storing(s, t)) + 1
        BY <1>4, CallerSets, FS_AddElement
      <4>2. Cardinality(Storing(s, t) \cup {c}) <= Cardinality(Storing(s, t)')
        BY <3>4, CallerSetsNext, FS_Subset DEF Counted
      <4> QED
        BY <4>1, <4>2
    <3>7. StoredIn(s, t)' <=> StoredIn(s, t)
      BY <1>2 DEF StoredIn, RowsOf
    <3>8. /\ Cardinality(Fetching(s, t)') \in Nat /\ Cardinality(Storing(s, t)') \in Nat
          /\ Cardinality(Fetching(s, t)) \in Nat /\ Cardinality(Storing(s, t)) \in Nat
          /\ Cardinality(AnsweredIn(s, t)) \in Nat /\ Cardinality(Callers) \in Nat
          /\ crashes \in Nat
      BY CallerSets, CallerSetsNext, AnswerCount DEF Counted, Calls
    <3>9. IF StoredIn(s, t)
          THEN Cardinality(AnsweredIn(s, t)') + Cardinality(Fetching(s, t)')
                  <= Cardinality(Callers) + crashes'
          ELSE Cardinality(AnsweredIn(s, t)') <= Cardinality(Storing(s, t)') + crashes'
      BY <1>2, <3>2, <3>5, <3>6, <3>8 DEF Spare
    <3> QED
      BY <3>7, <3>9 DEF Spare
  <2> QED
    BY <2>2, <2>3
<1>7. answered'[s] = answered[s] \/ (answered'[s] = Append(answered[s], now) /\ s = Of(c))
  <2>1. answered' = answered \/ answered' = [answered EXCEPT ![Of(c)] = Append(@, now)]
    BY DEF FetchReturns
  <2> QED
    BY <2>1 DEF Calls
<1>8. answered'[s] = answered[s] => AnsweredIn(s, t)' = AnsweredIn(s, t)
  BY DEF AnsweredIn
<1> QED
  BY <1>5, <1>6, <1>7, <1>8

(* The first verdict stored: all that is counted so far is in the hands of *)
(* callers that do not ask, or lost.                                       *)
LEMMA StoreSpares ==
  ASSUME Shape, Backed, Calls, Calls', NEW s \in Subject, NEW t \in Nat, Spare(s, t),
         NEW c \in Callers, Store(c)
  PROVE  Spare(s, t)'
<1>1. /\ job[c].pc = "store" /\ now' = now /\ answered' = answered /\ crashes' = crashes
      /\ job'[c].pc = "look" /\ \A d \in Callers \ {c} : job'[d] = job[d]
  BY Busy, AnsweredOutcome DEF Store, counters
<1>2. AnsweredIn(s, t)' = AnsweredIn(s, t)
  BY <1>1 DEF AnsweredIn
<1>3. ASSUME NEW d \in Callers \ {c}
      PROVE  /\ d \in Fetching(s, t)' <=> d \in Fetching(s, t)
             /\ d \in Storing(s, t)' <=> d \in Storing(s, t)
  BY <1>1, <1>3 DEF Fetching, Storing, Of, Provider
<1>4. Fetching(s, t)' \subseteq Fetching(s, t)
  <2>1. Fetching(s, t)' \subseteq Callers /\ c \notin Fetching(s, t)'
    BY <1>1 DEF Fetching
  <2> QED
    BY <1>3, <2>1
<1>5. StoredIn(s, t)' <=> StoredIn(s, t) \/ c \in Storing(s, t)
  <2> DEFINE L == Len(table) + 1
  <2>1. /\ DOMAIN table' = DOMAIN table \cup {L} /\ table'[L] = job[c].row
        /\ \A n \in DOMAIN table : table'[n] = table[n]
    <3>1. /\ DOMAIN table = 1..Len(table) /\ Len(table) \in Nat
          /\ DOMAIN table' = 1..(Len(table) + 1) /\ table'[L] = job[c].row
          /\ \A n \in DOMAIN table : table'[n] = table[n]
      BY StoreOutcome
    <3> QED
      BY <3>1
  <2> HIDE DEF L
  <2> QED
    BY <1>1, <2>1 DEF StoredIn, RowsOf, Storing
<1>6. CASE StoredIn(s, t)' <=> StoredIn(s, t)
  <2>1. ~StoredIn(s, t) => Storing(s, t) \subseteq Storing(s, t)'
    <3>1. Storing(s, t) \subseteq Callers
      BY DEF Storing
    <3> QED
      BY <1>3, <1>5, <1>6, <3>1
  <2>2. crashes' >= crashes
    BY <1>1 DEF Calls
  <2> QED
    BY <1>2, <1>4, <1>6, <2>1, <2>2, SpareKept
<1>7. CASE ~StoredIn(s, t) /\ StoredIn(s, t)'
  <2>1. Cardinality(AnsweredIn(s, t)) <= Cardinality(Storing(s, t)) + crashes
    BY <1>7 DEF Spare
  <2>2. Cardinality(Fetching(s, t)') <= Cardinality(Fetching(s, t))
    BY <1>4, CallerSets, FS_Subset
  <2>3. /\ Cardinality(Fetching(s, t)') \in Nat
        /\ Cardinality(Fetching(s, t)) \in Nat /\ Cardinality(Storing(s, t)) \in Nat
        /\ Cardinality(AnsweredIn(s, t)) \in Nat /\ Cardinality(Callers) \in Nat
        /\ crashes \in Nat
        /\ Cardinality(Fetching(s, t)) + Cardinality(Storing(s, t)) <= Cardinality(Callers)
    BY CallerSets, CallerSetsNext, AnswerCount DEF Counted, Calls
  <2>4. Cardinality(AnsweredIn(s, t)') = Cardinality(AnsweredIn(s, t))
    BY <1>2
  <2>5. Cardinality(AnsweredIn(s, t)') + Cardinality(Fetching(s, t)')
           <= Cardinality(Callers) + crashes'
    BY <1>1, <2>1, <2>2, <2>3, <2>4
  <2> QED
    BY <1>7, <2>5 DEF Spare
<1> QED
  BY <1>5, <1>6, <1>7

LEMMA LossSpares ==
  ASSUME Calls, Calls', Shape, NEW s \in Subject, NEW t \in Nat, Spare(s, t),
         NEW c \in Callers, LoseAnswer(c)
  PROVE  Spare(s, t)'
<1>1. /\ job' = [job EXCEPT ![c] = Idle] /\ now' = now /\ table' = table /\ answered' = answered
      /\ crashes' = crashes + 1
  BY DEF LoseAnswer
<1>2. job'[c] = Idle /\ \A d \in Callers \ {c} : job'[d] = job[d]
  BY <1>1 DEF Shape
<1>3. AnsweredIn(s, t)' = AnsweredIn(s, t) /\ (StoredIn(s, t)' <=> StoredIn(s, t))
  BY <1>1 DEF AnsweredIn, StoredIn, RowsOf
<1>4. ASSUME NEW d \in Callers \ {c}
      PROVE  /\ d \in Fetching(s, t)' <=> d \in Fetching(s, t)
             /\ d \in Storing(s, t)' <=> d \in Storing(s, t)
  BY <1>1, <1>2, <1>4 DEF Fetching, Storing, Of, Provider
<1>5. /\ Fetching(s, t)' \subseteq Fetching(s, t)
      /\ Storing(s, t) \ {c} \subseteq Storing(s, t)'
  <2>1. Fetching(s, t)' \subseteq Callers /\ c \notin Fetching(s, t)' /\ Storing(s, t) \subseteq Callers
    BY <1>2 DEF Fetching, Storing, Idle
  <2> QED
    BY <1>4, <2>1
<1>6. Cardinality(Storing(s, t)) - 1 <= Cardinality(Storing(s, t)')
  <2>1. /\ Cardinality(Storing(s, t) \ {c}) \in {Cardinality(Storing(s, t)), Cardinality(Storing(s, t)) - 1}
        /\ Cardinality(Storing(s, t)) \in Nat
    BY CallerSets, FS_RemoveElement
  <2>2. Cardinality(Storing(s, t) \ {c}) <= Cardinality(Storing(s, t)')
    BY <1>5, CallerSetsNext, FS_Subset DEF Counted
  <2>3. Cardinality(Storing(s, t)') \in Nat
    BY CallerSetsNext DEF Counted
  <2> QED
    BY <2>1, <2>2, <2>3
<1>7. CASE StoredIn(s, t)
  <2>1. crashes' >= crashes
    BY <1>1 DEF Calls
  <2> QED
    BY <1>3, <1>5, <1>7, <2>1, SpareKept
<1>8. CASE ~StoredIn(s, t)
  <2>1. Cardinality(AnsweredIn(s, t)) <= Cardinality(Storing(s, t)) + crashes
    BY <1>8 DEF Spare
  <2>2. /\ Cardinality(Storing(s, t)') \in Nat /\ Cardinality(Storing(s, t)) \in Nat
        /\ Cardinality(AnsweredIn(s, t)) \in Nat /\ crashes \in Nat
    BY CallerSets, CallerSetsNext, AnswerCount DEF Counted, Calls
  <2>3. Cardinality(AnsweredIn(s, t)') = Cardinality(AnsweredIn(s, t))
    BY <1>3
  <2>4. Cardinality(AnsweredIn(s, t)') <= Cardinality(Storing(s, t)') + crashes'
    BY <1>1, <1>6, <2>1, <2>2, <2>3
  <2> QED
    BY <1>3, <1>8, <2>4 DEF Spare
<1> QED
  BY <1>7, <1>8

(* Edits of the keys and the clock move no caller's lookup.                *)
LEMMA OutsideSpares ==
  ASSUME Shape, Calls, Calls', NEW s \in Subject, NEW t \in Nat, Spare(s, t),
         UNCHANGED <<table, answered, crashes>>, now' \in Nat, now' >= now,
         \A d \in Callers : job'[d] = job[d] \/ (\E K : job'[d] = [job[d] EXCEPT !.kept = K])
  PROVE  Spare(s, t)'
<1>1. now \in Nat /\ \A d \in Callers : job[d] # Idle => Fields \subseteq DOMAIN job[d]
  BY DEF Shape, JobShape, Asking
<1>2. ASSUME NEW d \in Callers
      PROVE  /\ d \in Fetching(s, t)' => d \in Fetching(s, t)
             /\ d \in Storing(s, t) => d \in Storing(s, t)'
  <2>1. CASE job'[d] = job[d]
    BY <1>1, <2>1, TtlAssumption DEF Fetching, Storing, Of, Provider
  <2>2. ASSUME NEW K, job'[d] = [job[d] EXCEPT !.kept = K]
        PROVE  /\ d \in Fetching(s, t)' => d \in Fetching(s, t)
               /\ d \in Storing(s, t) => d \in Storing(s, t)'
    <3>1. CASE job[d] = Idle
      <4>1. job'[d] = Idle
        BY <2>2, <3>1 DEF Idle
      <4> QED
        BY <3>1, <4>1, <2>1
    <3>2. CASE job[d] # Idle
      <4>1. /\ job'[d].pc = job[d].pc /\ job'[d].tenant = job[d].tenant
            /\ job'[d].ask = job[d].ask /\ job'[d].ioc = job[d].ioc /\ job'[d].row = job[d].row
        BY <1>1, <2>2, <3>2 DEF Fields
      <4> QED
        BY <1>1, <4>1, TtlAssumption DEF Fetching, Storing, Of, Provider
    <3> QED
      BY <3>1, <3>2
  <2> QED
    BY <2>1, <2>2
<1>3. Fetching(s, t)' \subseteq Callers /\ Storing(s, t) \subseteq Callers
  BY DEF Fetching, Storing
<1>4. /\ Fetching(s, t)' \subseteq Fetching(s, t) /\ Storing(s, t) \subseteq Storing(s, t)'
  BY <1>2, <1>3
<1>5. /\ AnsweredIn(s, t)' = AnsweredIn(s, t) /\ (StoredIn(s, t)' <=> StoredIn(s, t))
      /\ crashes' >= crashes
  BY DEF AnsweredIn, StoredIn, RowsOf, Calls
<1> QED
  BY <1>4, <1>5, SpareKept

LEMMA SparedStep ==
  ASSUME Shape, Backed, NewestThere, Calls, Spared, [Next]_vars
  PROVE  Calls' /\ Spared'
<1>0. Calls'
  BY CallsStep
<1> SUFFICES ASSUME NEW s \in Subject, NEW t \in Nat PROVE Spare(s, t)'
  BY <1>0 DEF Spared
<1>1. Spare(s, t)
  BY DEF Spared
<1>2. UNCHANGED answered => AnsweredIn(s, t)' = AnsweredIn(s, t)
  BY DEF AnsweredIn
<1>3. ASSUME NEW c \in Callers, NEW v, Answered(c, v), job[c].pc # "store",
             Looking(c) \/ job[c].pc = "fetch", UNCHANGED <<now, table, answered, crashes>>
      PROVE  Spare(s, t)'
  <2>1. job'[c].pc = "look" /\ \A d \in Callers \ {c} : job'[d] = job[d]
    BY <1>3, Busy, AnsweredOutcome
  <2>2. c \notin Fetching(s, t)'
    BY <2>1 DEF Fetching
  <2> QED
    BY <1>0, <1>1, <1>2, <1>3, <2>1, <2>2, OneCaller
<1>4. ASSUME NEW c \in Callers, NotConfigured(c) \/ ServeCached(c) \/ FetchFails(c)
      PROVE  Spare(s, t)'
  <2>1. /\ UNCHANGED <<now, table, answered, crashes>> /\ \E v : Answered(c, v)
        /\ Looking(c) \/ job[c].pc = "fetch"
    BY <1>4 DEF NotConfigured, ServeCached, FetchFails, counters
  <2>2. job[c].pc # "store"
    BY <2>1 DEF Looking
  <2> QED
    BY <1>3, <2>1, <2>2
<1>5. ASSUME NEW c \in Callers, StartFetch(c) PROVE Spare(s, t)'
  <2>1. /\ UNCHANGED <<now, table, answered, crashes>> /\ job[c].pc # "store"
        /\ \A d \in Callers \ {c} : job'[d] = job[d]
    BY <1>5 DEF StartFetch, Looking, counters, Shape
  <2>2. StoredIn(s, t) => c \notin Fetching(s, t)'
    BY <1>5, AskedOnMissOnly
  <2> QED
    BY <1>0, <1>1, <1>2, <2>1, <2>2, OneCaller
<1>6. ASSUME NEW c \in Callers, FetchReturns(c) \/ Store(c) \/ LoseAnswer(c)
      PROVE  Spare(s, t)'
  BY <1>0, <1>1, <1>6, ReturnSpares, StoreSpares, LossSpares
<1>7. ASSUME NEW c \in Callers, Finish(c) PROVE Spare(s, t)'
  <2>1. /\ UNCHANGED <<now, table, answered, crashes>> /\ job[c].pc # "store" /\ job'[c] = Idle
        /\ \A d \in Callers \ {c} : job'[d] = job[d]
    BY <1>7 DEF Finish, counters, Shape
  <2>2. c \notin Fetching(s, t)'
    BY <2>1 DEF Fetching, Idle
  <2> QED
    BY <1>0, <1>1, <1>2, <2>1, <2>2, OneCaller
<1>8. ASSUME NEW c \in Callers, NEW j \in Jobs, Start(c, j) PROVE Spare(s, t)'
  <2>1. /\ UNCHANGED <<now, table, answered, crashes>> /\ job[c] = Idle
    BY <1>8 DEF Start
  <2>2. job'[c].pc = "look" /\ \A d \in Callers \ {c} : job'[d] = job[d]
    BY <1>8, StartOutcome DEF Begun
  <2>3. c \notin Fetching(s, t)' /\ job[c].pc # "store"
    BY <2>1, <2>2 DEF Fetching, Idle
  <2> QED
    BY <1>0, <1>1, <1>2, <2>1, <2>2, <2>3, OneCaller
<1>9. ASSUME NEW K, job' = KeptUnder(K), UNCHANGED <<now, table, answered, crashes>>
      PROVE  Spare(s, t)'
  <2>1. ASSUME NEW d \in Callers
        PROVE  job'[d] = job[d] \/ (\E L : job'[d] = [job[d] EXCEPT !.kept = L])
    BY <1>9 DEF KeptUnder
  <2>2. now' \in Nat /\ now' >= now
    BY <1>9 DEF Shape
  <2> QED
    BY <1>0, <1>1, <1>9, <2>1, <2>2, OutsideSpares
<1>10. ASSUME NEW p \in Providers, NEW K \in SUBSET Providers, PatchKey(p, K)
       PROVE  Spare(s, t)'
  BY <1>9, <1>10 DEF PatchKey
<1>11. CASE LoadKeys
  BY <1>9, <1>11 DEF LoadKeys, counters
<1>12. CASE Tick \/ UNCHANGED vars
  <2>1. UNCHANGED <<job, table, answered, crashes>> /\ now' \in Nat /\ now' >= now
    BY <1>12, NowStep DEF Tick, vars, counters, Shape
  <2> QED
    BY <1>0, <1>1, <2>1, OutsideSpares
<1> QED
  BY <1>4, <1>5, <1>6, <1>7, <1>8, <1>10, <1>11, <1>12 DEF Next, Lookup

(* Of one IOC and tenant a provider answers at most once per caller in any *)
(* Ttl hours, and once more for each answer that is lost, for any number   *)
(* of callers, lookups, failed calls and edits of the keys                 *)
(* (enrich_providers.py:204-257).                                          *)
THEOREM AnswersSuffice == Spec => []AnswersAreReused
<1> DEFINE Inv == Shape /\ Backed /\ NewestThere /\ Calls /\ Spared
<1>1. Init => Inv
  <2> SUFFICES ASSUME Init PROVE Inv
    OBVIOUS
  <2>1. \A s : RowsOf(s) = {}
    BY DEF Init, RowsOf
  <2>2. Calls
    <3>1. <<>> \in Seq(Nat)
      OBVIOUS
    <3> QED
      BY <3>1 DEF Init, Calls
  <2>3. ASSUME NEW s \in Subject, NEW t \in Nat PROVE Spare(s, t)
    <3>1. AnsweredIn(s, t) = {}
      BY DEF Init, AnsweredIn
    <3>2. Cardinality(AnsweredIn(s, t)) = 0 /\ ~StoredIn(s, t) /\ crashes = 0
      BY <2>1, <3>1, FS_EmptySet DEF StoredIn, Init
    <3> QED
      BY <3>2, CallerSets DEF Spare
  <2> QED
    BY <2>1, <2>2, <2>3, InitShape DEF Init, Backed, NewestThere, Spared
<1>2. Inv /\ [Next]_vars => Inv'
  BY ShapeStep, BackedStep, NewestStep, SparedStep
<1>3. Inv => AnswersAreReused
  <2> SUFFICES ASSUME Inv, NEW s \in Subject, NEW t \in Nat
               PROVE  Cardinality(AnsweredIn(s, t)) <= Cardinality(Callers) + crashes
    BY BoundsAssumption DEF AnswersAreReused, AnsweredIn
  <2>1. /\ Cardinality(AnsweredIn(s, t)) \in Nat /\ Cardinality(Callers) \in Nat
        /\ Cardinality(Storing(s, t)) \in Nat /\ Cardinality(Fetching(s, t)) \in Nat
        /\ Cardinality(Fetching(s, t)) + Cardinality(Storing(s, t)) <= Cardinality(Callers)
        /\ crashes \in Nat /\ Spare(s, t)
    BY CallerSets, AnswerCount DEF Calls, Spared
  <2> QED
    BY <2>1 DEF Spare
<1> QED
  BY <1>1, <1>2, <1>3, PTL DEF Spec
===============================================================================
