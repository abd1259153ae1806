--------------------------- MODULE RuleEval_proofs ----------------------------
(***************************************************************************)
(* The evaluators of rules_engine.py against what the documents say rules  *)
(* are about, for every table of events, every set of rule files, every    *)
(* limit and every verdict of the providers. The clock and the table only  *)
(* grow; the work is in what an evaluator makes of a table, so each        *)
(* property follows from the type invariant and from lemmas about the      *)
(* operators of RuleEval and RuleForms:                                    *)
(*   - a list that a query may return consists of distinct rows of the     *)
(*     window, and of all of them if the LIMIT lets them through;          *)
(*   - counts on a list bound those on the table from below, and equal     *)
(*     them if nothing was cut;                                            *)
(*   - running through a correlation's steps leaves exactly the keys       *)
(*     that meet each of them;                                             *)
(*   - validation gives back what it gave before, and what the             *)
(*     evaluators read.                                                    *)
(***************************************************************************)
EXTENDS RuleEval, FiniteSetTheorems, WellFoundedInduction, TLAPS

(* Every non-empty set of naturals has a least element.                    *)
LEMMA LeastNatural ==
  ASSUME NEW S \in SUBSET Nat, S # {}
  PROVE  \E n \in S : \A m \in S : n <= m
<1> DEFINE R == { ss \in Nat \X Nat : ss[1] < ss[2] }
<1>1. IsWellFoundedOn(R, Nat)
  BY NatLessThanWellFounded DEF OpToRel
<1>2. \E n \in S : \A m \in S : ~ (<<m, n>> \in R)
  <2> HIDE DEF R
  <2> QED
    BY <1>1, WFMin
<1>3. \A n, m \in S : m < n => <<m, n>> \in R
  OBVIOUS
<1>4. PICK n \in S : \A m \in S : ~ (<<m, n>> \in R)
  BY <1>2
<1>5. \A m \in S : ~ (m < n)
  BY <1>3, <1>4
<1> HIDE DEF R
<1> QED
  BY <1>5

-----------------------------------------------------------------------------
(* What the evaluators read in a file, field by field.                     *)
LEMMA EvaluatedTyped ==
  ASSUME NEW d, WellFormed(d), NEW r, r = Evaluated(d)
  PROVE  /\ r.type \in TYPES
         /\ r.window \in Nat \ {0}
         /\ r.type = "threshold" => /\ r.threshold \in Nat \ {0}
                                    /\ r.group_by \in ALLOWED_GROUP_BY
         /\ r.type = "correlation" =>
                /\ r.join_on \in ALLOWED_GROUP_BY
                /\ DOMAIN r.steps = 1..Len(r.steps) /\ Len(r.steps) \in Nat
                /\ \A n \in DOMAIN r.steps :
                        "enrich" \notin DOMAIN r.steps[n] => r.steps[n].min_count \in Nat \ {0}
<1>1. d.type \in TYPES /\ IsNumber(d, "window_minutes")
  BY DEF WellFormed
<1>2. \A D, field, n : IsNumber(D, field) /\ n \in Nat \ {0} => Number(D, field, n) \in Nat \ {0}
  BY DEF IsNumber, Number
<1>3. r.type \in TYPES /\ r.window \in Nat \ {0}
  BY <1>1, <1>2, WindowsAssumption DEF Evaluated
<1>4. r.type = "threshold" => r.threshold \in Nat \ {0} /\ r.group_by \in ALLOWED_GROUP_BY
  BY <1>2 DEF Evaluated, WellFormed
<1>5. CASE r.type = "correlation"
  <2>1. d.type = "correlation" /\ "steps" \in DOMAIN d /\ d.steps \in Seq(Range(d.steps))
    BY <1>5 DEF Evaluated, WellFormed
  <2>2. r.join_on \in ALLOWED_GROUP_BY
    BY <2>1 DEF Evaluated, WellFormed
  <2>3. \A n \in DOMAIN d.steps : "enrich" \notin DOMAIN StepRead(d.steps[n])
            => StepRead(d.steps[n]).min_count \in Nat \ {0}
    BY <1>2, <2>1 DEF StepRead, WellFormed
  <2>4. r.steps = [n \in DOMAIN d.steps |-> StepRead(d.steps[n])]
    BY <2>1 DEF Evaluated
  <2>5. r.steps \in Seq({ StepRead(d.steps[n]) : n \in DOMAIN d.steps })
    BY <2>1, <2>4
  <2> QED
    BY <1>3, <1>5, <2>2, <2>3, <2>4, <2>5 DEF TYPES
<1> QED
  BY <1>3, <1>4, <1>5 DEF TYPES

(* The same of any rule the passes evaluate.                               *)
LEMMA RuleTyped ==
  ASSUME NEW r \in Rules
  PROVE  /\ r.type \in TYPES
         /\ r.window \in Nat \ {0}
         /\ r.type = "threshold" => /\ r.threshold \in Nat \ {0}
                                    /\ r.group_by \in ALLOWED_GROUP_BY
         /\ r.type = "correlation" =>
                /\ r.join_on \in ALLOWED_GROUP_BY
                /\ DOMAIN r.steps = 1..Len(r.steps) /\ Len(r.steps) \in Nat
                /\ \A n \in DOMAIN r.steps :
                        "enrich" \notin DOMAIN r.steps[n] => r.steps[n].min_count \in Nat \ {0}
BY FilesAssumption, EvaluatedTyped DEF Rules

(* A bounded count has a largest value.                                    *)
LEMMA LargestCount ==
  ASSUME NEW S, S # {}, NEW f \in [S -> Nat], NEW b \in Nat, \A k \in S : f[k] <= b
  PROVE  \E k \in S : \A l \in S : f[l] <= f[k]
<1> DEFINE D == { b - f[k] : k \in S }
<1>1. D \in SUBSET Nat /\ D # {}
  OBVIOUS
<1>2. PICK m \in D : \A n \in D : m <= n
  <2> HIDE DEF D
  <2> QED
    BY <1>1, LeastNatural
<1>3. PICK k \in S : m = b - f[k]
  BY <1>2
<1>4. \A l \in S : m <= b - f[l]
  BY <1>2
<1> QED
  BY <1>3, <1>4

(* The least of a set of naturals, and of two.                             *)
LEMMA MinIsLeast ==
  ASSUME NEW S \in SUBSET Nat, S # {}
  PROVE  Min(S) \in S /\ \A n \in S : Min(S) <= n
BY LeastNatural DEF Min

-----------------------------------------------------------------------------
(* How the list of events an evaluator is given counts against the table   *)
(* it was taken from, each row at most once.                               *)
LEMMA ListsCount ==
  ASSUME NEW W, IsFiniteSet(W), NEW full, DOMAIN full = W,
         NEW es, NEW s \in Injection(DOMAIN es, W), \A n \in DOMAIN es : es[n] = full[s[n]],
         NEW filters, NEW col, NEW k
  PROVE  /\ Count(es, filters, col, k) \in Nat /\ Count(full, filters, col, k) \in Nat
         /\ Count(es, filters, col, k) <= Count(full, filters, col, k)
         /\ s \in Surjection(DOMAIN es, W) =>
                Count(es, filters, col, k) = Count(full, filters, col, k)
<1> DEFINE P(e) == Matches(e, filters) /\ e[col] = k
           A == { n \in DOMAIN es : P(es[n]) }
           B == { n \in W : P(full[n]) }
           g == [n \in A |-> s[n]]
<1> HIDE DEF P
<1>1. IsFiniteSet(B)
  BY FS_Subset
<1>2. g \in Injection(A, B)
  BY DEF Injection, IsInjective
<1>3. IsFiniteSet(A) /\ Cardinality(A) <= Cardinality(B)
      /\ (Cardinality(A) = Cardinality(B) <=> g \in Surjection(A, B))
  <2> HIDE DEF A, B, g
  <2> QED
    BY <1>1, <1>2, FS_Injection
<1>4. s \in Surjection(DOMAIN es, W) => g \in Surjection(A, B)
  BY <1>2 DEF Surjection, Injection
<1>5. Cardinality(A) \in Nat /\ Cardinality(B) \in Nat
  BY <1>1, <1>3, FS_CardinalityType
<1>6. Count(es, filters, col, k) = Cardinality(A) /\ Count(full, filters, col, k) = Cardinality(B)
  BY DEF Count, P
<1> QED
  BY <1>3, <1>4, <1>5, <1>6

(* The keys of a list are keys of the table, all of them if nothing was    *)
(* cut.                                                                    *)
LEMMA ListsHaveKeys ==
  ASSUME NEW W, NEW full, DOMAIN full = W,
         NEW es, NEW s \in Injection(DOMAIN es, W), \A n \in DOMAIN es : es[n] = full[s[n]],
         NEW col
  PROVE  /\ NonBlank(es, col) \subseteq NonBlank(full, col)
         /\ s \in Surjection(DOMAIN es, W) => NonBlank(es, col) = NonBlank(full, col)
BY DEF NonBlank, Injection, Surjection

(* The window is a finite part of the table.                               *)
LEMMA WindowIsFinite ==
  ASSUME TypeOK, NEW t, NEW window
  PROVE  /\ InWindow(events, t, window) \subseteq DOMAIN events
         /\ IsFiniteSet(InWindow(events, t, window))
         /\ Cardinality(InWindow(events, t, window)) \in Nat
         /\ Cardinality(InWindow(events, t, window)) <= MaxEvents
<1> DEFINE W == InWindow(events, t, window)
<1>1. DOMAIN events = 1..Len(events) /\ Len(events) \in Nat /\ Len(events) <= MaxEvents
  BY DEF TypeOK
<1> DEFINE len == Len(events)
<1>6. IsFiniteSet(1..len) /\ Cardinality(1..len) = len
  <2> HIDE DEF len
  <2>1. len \in Nat
    BY <1>1 DEF len
  <2>2. IsFiniteSet(1..len) /\ Cardinality(1..len) = IF 1 > len THEN 0 ELSE len - 1 + 1
    BY <2>1, FS_Interval
  <2> QED
    BY <2>1, <2>2
<1>2. IsFiniteSet(DOMAIN events) /\ Cardinality(DOMAIN events) <= MaxEvents
      /\ Cardinality(DOMAIN events) \in Nat
  BY <1>1, <1>6
<1>3. W \in SUBSET DOMAIN events
  BY DEF InWindow
<1>4. IsFiniteSet(W) /\ Cardinality(W) <= Cardinality(DOMAIN events)
  <2> HIDE DEF W
  <2> QED
    BY <1>2, <1>3, FS_Subset
<1>5. Cardinality(W) \in Nat
  <2> HIDE DEF W
  <2> QED
    BY <1>4, FS_CardinalityType
<1> QED
  BY <1>2, <1>3, <1>4, <1>5, BoundsAssumption

(* The smaller of two naturals.                                            *)
LEMMA LeastOfTwo ==
  ASSUME NEW m \in Nat, NEW n \in Nat
  PROVE  Min({m, n}) = IF m <= n THEN m ELSE n
<1>1. Min({m, n}) \in {m, n} /\ \A x \in {m, n} : Min({m, n}) <= x
  BY MinIsLeast
<1> QED
  BY <1>1

(* The lists a query may return are made of rows in the window, each once, *)
(* and have all of them if the LIMIT lets them through.                    *)
LEMMA FetchedPicks ==
  ASSUME TypeOK, NEW t, NEW window, NEW limit \in Nat,
         NEW es \in Fetched(events, t, window, limit)
  PROVE  LET W == InWindow(events, t, window)
             full == Restrict(events, W)
         IN  /\ \E len \in Nat : DOMAIN es = 1..len
             /\ \E s \in Injection(DOMAIN es, W) :
                    /\ \A n \in DOMAIN es : es[n] = full[s[n]]
                    /\ Cardinality(W) <= limit => s \in Surjection(DOMAIN es, W)
<1> DEFINE W == InWindow(events, t, window)
           full == Restrict(events, W)
           len == Min({limit, Cardinality(W)})
<1>1. IsFiniteSet(W) /\ Cardinality(W) \in Nat
  BY WindowIsFinite
<1>2. len \in Nat /\ (Cardinality(W) <= limit => len = Cardinality(W))
  BY <1>1, LeastOfTwo
<1> PICK s \in NewestFirst(events, W, limit) : es = [n \in DOMAIN s |-> events[s[n]]]
  BY DEF Fetched
<1>3. s \in [1..len -> W] /\ \A m, n \in DOMAIN s : m < n => s[m] # s[n]
  BY DEF NewestFirst
<1> HIDE DEF len, W
<1>4. DOMAIN es = 1..len /\ \A n \in DOMAIN es : es[n] = full[s[n]]
  BY <1>3 DEF Restrict
<1>5. s \in Injection(DOMAIN es, W)
  BY <1>2, <1>3, <1>4 DEF Injection, IsInjective
<1>6. Cardinality(DOMAIN es) = len
  BY <1>2, <1>4, FS_Interval
<1>7. Cardinality(W) <= limit => s \in Surjection(DOMAIN es, W)
  BY <1>1, <1>2, <1>5, <1>6, FS_Injection
<1> QED
  BY <1>2, <1>4, <1>5, <1>7 DEF W

(* The columns of a stored event: the tenant, the time and the payload's.  *)
LEMMA RowTyped ==
  ASSUME TypeOK, NEW n \in DOMAIN events
  PROVE  /\ events[n].tenant \in Tenants /\ events[n].at \in 0..MaxTime
         /\ \A col \in ALLOWED_GROUP_BY \cup {"src_ip"} : events[n][col] \in Keys \cup {Null}
<1> PICK t \in Tenants, at \in 0..MaxTime, p \in Payloads : events[n] = Row(t, at, p)
  BY DEF TypeOK
<1>1. events[n].tenant = t /\ events[n].at = at
  BY DEF Row, Updated
<1>2. ASSUME NEW col \in ALLOWED_GROUP_BY \cup {"src_ip"}
      PROVE  events[n][col] = p[col] /\ p[col] \in Keys \cup {Null}
  BY PayloadsAssumption, ColumnsAssumption DEF Row, Updated
<1> QED
  BY <1>1, <1>2

(* What the documents call recent are the rows in the window.              *)
LEMMA RecentIsWindow ==
  ASSUME TypeOK, NEW t, NEW r, r.window \in Nat
  PROVE  Recent(t, r) = Restrict(events, InWindow(events, t, r.window))
<1>1. \A n \in DOMAIN events : events[n].at \in Int
  BY RowTyped, BoundsAssumption
<1>2. now \in Int
  BY BoundsAssumption DEF TypeOK
<1>3. \A n \in DOMAIN events : events[n].at + r.window >= now <=> events[n].at >= now - r.window
  BY <1>1, <1>2
<1>4. { n \in DOMAIN events : events[n].tenant = t /\ events[n].at + r.window >= now }
        = InWindow(events, t, r.window)
  BY <1>3 DEF InWindow
<1> QED
  BY <1>4 DEF Recent

-----------------------------------------------------------------------------
(* Running through the steps leaves the keys that meet every one of them,  *)
(* in whatever order they are.                                             *)
LEMMA SharedMeetAll ==
  ASSUME NEW r, NEW es, NEW bad, DOMAIN r.steps = 1..Len(r.steps), Len(r.steps) \in Nat
  PROVE  Shared(r, es, bad) =
            { k \in NonBlank(es, r.join_on) :
                \A n \in DOMAIN r.steps : Met(r.steps[n], es, r.join_on, k, bad) }
<1> DEFINE len == Len(r.steps)
           all == NonBlank(es, r.join_on)
           Keeps(n, k) == Met(r.steps[n], es, r.join_on, k, bad)
           Kept(n) == { k \in all : \A m \in 1..n : Keeps(m, k) }
           IsPool(f) == f = [n \in 0..len |->
                                IF n = 0 THEN all
                                ELSE StepKeys(r.steps[n], es, r.join_on, f[n - 1], bad)]
           pool == CHOOSE f : IsPool(f)
<1>1. Shared(r, es, bad) = pool[len]
  BY DEF Shared
<1>2. \A n, P : StepKeys(r.steps[n], es, r.join_on, P, bad) = { k \in P : Keeps(n, k) }
  BY DEF StepKeys, Met
<1> HIDE DEF all, Keeps
<1>3. IsPool([n \in 0..len |-> Kept(n)])
  <2> DEFINE g == [n \in 0..len |-> Kept(n)]
  <2>1. ASSUME NEW n \in 0..len
        PROVE  Kept(n) = IF n = 0 THEN all
                         ELSE StepKeys(r.steps[n], es, r.join_on, g[n - 1], bad)
    <3>1. CASE n = 0
      BY <3>1
    <3>2. CASE n # 0
      <4>1. n - 1 \in 0..len /\ 1..n = (1..(n - 1)) \cup {n}
        BY <3>2
      <4>2. g[n - 1] = Kept(n - 1)
        BY <4>1
      <4>3. Kept(n) = { k \in Kept(n - 1) : Keeps(n, k) }
        BY <4>1
      <4> QED
        BY <1>2, <3>2, <4>2, <4>3
    <3> QED
      BY <3>1, <3>2
  <2> HIDE DEF Kept
  <2> QED
    BY <2>1
<1>4. IsPool(pool)
  <2> HIDE DEF IsPool
  <2> QED
    BY <1>3
<1>5. pool[0] = all /\ \A n \in 1..len :
            pool[n] = { k \in pool[n - 1] : Keeps(n, k) }
  <2> HIDE DEF pool
  <2>1. \A n \in 0..len :
            pool[n] = IF n = 0 THEN all
                      ELSE StepKeys(r.steps[n], es, r.join_on, pool[n - 1], bad)
    BY <1>4
  <2>2. ASSUME NEW n \in 1..len PROVE pool[n] = { k \in pool[n - 1] : Keeps(n, k) }
    <3>1. pool[n] = StepKeys(r.steps[n], es, r.join_on, pool[n - 1], bad)
      BY <2>1
    <3> QED
      BY <1>2, <3>1
  <2> QED
    BY <2>1, <2>2
<1> HIDE DEF pool, IsPool
<1>6. \A n \in 0..len : pool[n] = Kept(n)
  <2> DEFINE Off == { n \in 0..len : pool[n] # Kept(n) }
  <2> SUFFICES ASSUME Off # {} PROVE FALSE
    OBVIOUS
  <2>1. PICK n \in Off : \A m \in Off : n <= m
    <3>1. Off \in SUBSET Nat
      OBVIOUS
    <3> HIDE DEF Off
    <3> QED
      BY <3>1, LeastNatural
  <2>2. n # 0
    BY <1>5
  <2>3. n \in 1..len /\ n - 1 \in 0..len /\ 1..n = (1..(n - 1)) \cup {n}
    BY <2>2
  <2>4. pool[n - 1] = Kept(n - 1)
    BY <2>1, <2>3
  <2> QED
    BY <1>5, <2>3, <2>4
<1> QED
  BY <1>1, <1>6 DEF all, Keeps

-----------------------------------------------------------------------------
(* What each evaluator finds in a list of events.                          *)
LEMMA CountIsBounded ==
  ASSUME NEW es, IsFiniteSet(DOMAIN es), NEW filters, NEW col, NEW k
  PROVE  /\ Count(es, filters, col, k) \in Nat /\ Cardinality(DOMAIN es) \in Nat
         /\ Count(es, filters, col, k) <= Cardinality(DOMAIN es)
<1> DEFINE A == { n \in DOMAIN es : Matches(es[n], filters) /\ es[n][col] = k }
<1>1. A \in SUBSET DOMAIN es
  OBVIOUS
<1>2. IsFiniteSet(A) /\ Cardinality(A) <= Cardinality(DOMAIN es)
  <2> HIDE DEF A
  <2> QED
    BY <1>1, FS_Subset
<1>3. Cardinality(A) \in Nat /\ Cardinality(DOMAIN es) \in Nat
  <2> HIDE DEF A
  <2> QED
    BY <1>2, FS_CardinalityType
<1> QED
  BY <1>2, <1>3 DEF Count

(* A match rule hits if some event of the list meets its filters, and      *)
(* names the entity of one that does.                                      *)
LEMMA MatchFinds ==
  ASSUME NEW r, NEW es, NEW len \in Nat, DOMAIN es = 1..len
  PROVE  LET hits == { n \in DOMAIN es : Matches(es[n], r.match) }
         IN  /\ hits = {} => MatchRule(r, es) = {NoHit}
             /\ hits # {} => \E n \in hits : MatchRule(r, es) = {EntityOf(es[n])}
<1> DEFINE hits == { n \in DOMAIN es : Matches(es[n], r.match) }
<1>1. CASE hits = {}
  BY <1>1 DEF MatchRule, Outcomes
<1>2. CASE hits # {}
  <2>1. hits \in SUBSET Nat
    OBVIOUS
  <2>2. Min(hits) \in hits
    <3> HIDE DEF hits
    <3> QED
      BY <1>2, <2>1, MinIsLeast
  <2>3. MatchRule(r, es) = {EntityOf(es[Min(hits)])}
    BY <1>2 DEF MatchRule, Outcomes
  <2> QED
    BY <2>2, <2>3
<1> QED
  BY <1>1, <1>2

(* A correlation rule hits if a key of the list meets every step, and      *)
(* names one that does.                                                    *)
LEMMA CorrelationFinds ==
  ASSUME NEW r, NEW es, IsFiniteSet(DOMAIN es), NEW bad
  PROVE  /\ CorrelationRule(r, es, bad) \subseteq Shared(r, es, bad) \cup {NoHit}
         /\ Shared(r, es, bad) = {} => CorrelationRule(r, es, bad) = {NoHit}
         /\ Len(r.steps) \in Nat /\ Len(r.steps) < 2 => CorrelationRule(r, es, bad) = {NoHit}
         /\ Len(r.steps) \in Nat /\ Len(r.steps) >= 2 /\ Shared(r, es, bad) # {}
                => CorrelationRule(r, es, bad) \subseteq Shared(r, es, bad)
<1> DEFINE lead(k) == IF "enrich" \in DOMAIN r.steps[1] THEN 1
                      ELSE Count(es, r.steps[1].match, r.join_on, k)
           shared == Shared(r, es, bad)
           top == { k \in shared : \A l \in shared : lead(l) <= lead(k) }
           b == Cardinality(DOMAIN es) + 1
<1>1. CorrelationRule(r, es, bad) = Outcomes(IF Len(r.steps) < 2 THEN {} ELSE top)
  BY DEF CorrelationRule
<1>2. \A k : lead(k) \in Nat /\ lead(k) <= b /\ b \in Nat
  BY CountIsBounded
<1> HIDE DEF lead, shared, b
<1>3. ASSUME shared # {} PROVE top # {}
  <2> DEFINE f == [k \in shared |-> lead(k)]
  <2>1. f \in [shared -> Nat] /\ b \in Nat /\ \A k \in shared : f[k] <= b
    BY <1>2
  <2>2. PICK k \in shared : \A l \in shared : f[l] <= f[k]
    <3> HIDE DEF f
    <3> QED
      BY <1>3, <2>1, LargestCount
  <2> QED
    BY <2>2
<1> QED
  BY <1>1, <1>3 DEF Outcomes, shared

-----------------------------------------------------------------------------
(* A list against the table: the keys that meet the steps of a correlation *)
(* on the list meet them on the table, and the other way round if nothing  *)
(* was cut.                                                                *)
LEMMA SharedOnTable ==
  ASSUME TypeOK, NEW r \in Rules, r.type = "correlation", NEW t, NEW bad, NEW limit \in Nat,
         NEW es \in Fetched(events, t, r.window, limit)
  PROVE  LET full == Recent(t, r)
             met == { k \in NonBlank(full, r.join_on) :
                        \A n \in DOMAIN r.steps : Met(r.steps[n], full, r.join_on, k, bad) }
         IN  /\ Shared(r, es, bad) \subseteq met
             /\ Cardinality(DOMAIN full) <= limit => Shared(r, es, bad) = met
<1> DEFINE W == InWindow(events, t, r.window)
           full == Restrict(events, W)
<1>1. /\ r.window \in Nat /\ DOMAIN r.steps = 1..Len(r.steps) /\ Len(r.steps) \in Nat
      /\ \A n \in DOMAIN r.steps :
            "enrich" \notin DOMAIN r.steps[n] => r.steps[n].min_count \in Nat \ {0}
  BY RuleTyped
<1>2. IsFiniteSet(W) /\ DOMAIN full = W /\ Recent(t, r) = full
  BY <1>1, WindowIsFinite, RecentIsWindow DEF Restrict
<1>3. PICK s \in Injection(DOMAIN es, W) :
            /\ \A n \in DOMAIN es : es[n] = full[s[n]]
            /\ Cardinality(W) <= limit => s \in Surjection(DOMAIN es, W)
  BY FetchedPicks
<1> HIDE DEF W, full
<1>4. ASSUME NEW n \in DOMAIN r.steps, NEW k
      PROVE  /\ Met(r.steps[n], es, r.join_on, k, bad) => Met(r.steps[n], full, r.join_on, k, bad)
             /\ Cardinality(W) <= limit =>
                    Met(r.steps[n], es, r.join_on, k, bad) = Met(r.steps[n], full, r.join_on, k, bad)
  <2>1. CASE "enrich" \in DOMAIN r.steps[n]
    BY <2>1 DEF Met
  <2>2. CASE "enrich" \notin DOMAIN r.steps[n]
    <3> DEFINE A == Count(es, r.steps[n].match, r.join_on, k)
               B == Count(full, r.steps[n].match, r.join_on, k)
    <3>1. A \in Nat /\ B \in Nat /\ A <= B /\ (s \in Surjection(DOMAIN es, W) => A = B)
      BY <1>2, <1>3, ListsCount
    <3>2. r.steps[n].min_count \in Nat
      BY <1>1, <2>2
    <3>3. /\ Met(r.steps[n], es, r.join_on, k, bad) <=> A >= r.steps[n].min_count
          /\ Met(r.steps[n], full, r.join_on, k, bad) <=> B >= r.steps[n].min_count
      BY <2>2 DEF Met
    <3> HIDE DEF A, B
    <3>4. A >= r.steps[n].min_count => B >= r.steps[n].min_count
      BY <3>1, <3>2
    <3>5. (Met(r.steps[n], es, r.join_on, k, bad) \in BOOLEAN)
          /\ Met(r.steps[n], full, r.join_on, k, bad) \in BOOLEAN
      BY <2>2 DEF Met
    <3> QED
      BY <1>3, <3>1, <3>3, <3>4, <3>5
  <2> QED
    BY <2>1, <2>2
<1>5. /\ NonBlank(es, r.join_on) \subseteq NonBlank(full, r.join_on)
      /\ Cardinality(W) <= limit => NonBlank(es, r.join_on) = NonBlank(full, r.join_on)
  BY <1>2, <1>3, ListsHaveKeys
<1> DEFINE here == { k \in NonBlank(es, r.join_on) :
                        \A n \in DOMAIN r.steps : Met(r.steps[n], es, r.join_on, k, bad) }
           there == { k \in NonBlank(full, r.join_on) :
                        \A n \in DOMAIN r.steps : Met(r.steps[n], full, r.join_on, k, bad) }
<1>6. Shared(r, es, bad) = here
  BY <1>1, SharedMeetAll
<1>7. here \subseteq there
  BY <1>4, <1>5
<1>8. Cardinality(W) <= limit => here = there
  BY <1>4, <1>5
<1> QED
  BY <1>2, <1>6, <1>7, <1>8

(* The groups of a threshold rule, as SQL counts them, are those of the    *)
(* table, if its filters name no label.                                    *)
LEMMA GroupsOnTable ==
  ASSUME TypeOK, NEW r \in Rules, r.type = "threshold", NEW t, Regular(r, t)
  PROVE  LET full == Recent(t, r)
             rows == { k \in Keys : Count(full, r.match, r.group_by, k) >= r.threshold }
         IN  ThresholdLive(r, t, events) = Outcomes(rows)
<1> DEFINE W == InWindow(events, t, r.window)
           full == Restrict(events, W)
           Size(k) == Cardinality({ n \in W : Matches(events[n], Clauses(r.match))
                                             /\ events[n][r.group_by] = k })
           groups == { events[n][r.group_by] : n \in W }
           rows == { k \in Keys : Count(full, r.match, r.group_by, k) >= r.threshold }
<1>1. r.window \in Nat /\ r.threshold \in Nat \ {0} /\ r.group_by \in ALLOWED_GROUP_BY
  BY RuleTyped
<1>2. IsFiniteSet(W) /\ W \subseteq DOMAIN events /\ DOMAIN full = W /\ Recent(t, r) = full
  BY <1>1, WindowIsFinite, RecentIsWindow DEF Restrict
<1>3. \A e : Matches(e, Clauses(r.match)) <=> Matches(e, r.match)
  BY DEF Regular, Matches, Clauses
<1>4. \A k : Size(k) = Count(full, r.match, r.group_by, k)
  <2> SUFFICES ASSUME NEW k PROVE Size(k) = Count(full, r.match, r.group_by, k)
    OBVIOUS
  <2>1. { n \in W : Matches(events[n], Clauses(r.match)) /\ events[n][r.group_by] = k }
          = { n \in DOMAIN full : Matches(full[n], r.match) /\ full[n][r.group_by] = k }
    BY <1>2, <1>3 DEF Restrict
  <2> QED
    BY <2>1 DEF Count
<1>5. \A k : Size(k) \in Nat /\ (Size(k) > 0 => k \in groups)
  <2> SUFFICES ASSUME NEW k PROVE Size(k) \in Nat /\ (Size(k) > 0 => k \in groups)
    OBVIOUS
  <2> DEFINE A == { n \in W : Matches(events[n], Clauses(r.match)) /\ events[n][r.group_by] = k }
  <2>1. A \in SUBSET W
    OBVIOUS
  <2>2. IsFiniteSet(A) /\ Cardinality(A) \in Nat /\ (A = {} => Cardinality(A) = 0)
    <3> HIDE DEF A, W
    <3> QED
      BY <1>2, <2>1, FS_Subset, FS_CardinalityType, FS_EmptySet
  <2> QED
    BY <2>2
<1>6. groups \subseteq Keys \cup {Null}
  BY <1>1, <1>2, RowTyped
<1>7. Size(Null) = 0
  BY <1>2, <1>4 DEF Regular
<1>8. ThresholdLive(r, t, events) = Outcomes({ k \in groups : Size(k) >= r.threshold })
  BY DEF ThresholdLive
<1> HIDE DEF Size, groups, full
<1>9. { k \in groups : Size(k) >= r.threshold } = rows
  <2>1. \A k : Size(k) >= r.threshold => k \in groups /\ k # Null
    BY <1>1, <1>5, <1>7
  <2> QED
    BY <1>4, <1>6, <2>1
<1> QED
  BY <1>2, <1>8, <1>9

(* The events of a list are recent, and all that are if none was cut.      *)
LEMMA ListedAreRecent ==
  ASSUME TypeOK, NEW r \in Rules, NEW t, NEW limit \in Nat,
         NEW es \in Fetched(events, t, r.window, limit)
  PROVE  LET full == Recent(t, r)
         IN  /\ \E len \in Nat : DOMAIN es = 1..len
             /\ \A n \in DOMAIN es : \E m \in DOMAIN full : es[n] = full[m]
             /\ Cardinality(DOMAIN full) <= limit =>
                    \A m \in DOMAIN full : \E n \in DOMAIN es : es[n] = full[m]
<1> DEFINE W == InWindow(events, t, r.window)
           full == Restrict(events, W)
<1>1. DOMAIN full = W /\ Recent(t, r) = full
  BY RuleTyped, RecentIsWindow DEF Restrict
<1>2. PICK s \in Injection(DOMAIN es, W) :
            /\ \A n \in DOMAIN es : es[n] = full[s[n]]
            /\ Cardinality(W) <= limit => s \in Surjection(DOMAIN es, W)
  BY FetchedPicks
<1>3. \E len \in Nat : DOMAIN es = 1..len
  BY FetchedPicks
<1> HIDE DEF W, full
<1>4. \A n \in DOMAIN es : s[n] \in DOMAIN full
  BY <1>1 DEF Injection
<1>5. Cardinality(W) <= limit => \A m \in DOMAIN full : \E n \in DOMAIN es : s[n] = m
  BY <1>1, <1>2 DEF Surjection
<1> QED
  BY <1>1, <1>2, <1>3, <1>4, <1>5

(* NoHit is neither a key nor the entity of a sample, so a hit is never    *)
(* taken for none.                                                         *)
LEMMA EntitiesAreKeys ==
  ASSUME TypeOK, NEW t, NEW r \in Rules, NEW n \in DOMAIN Recent(t, r)
  PROVE  EntityOf(Recent(t, r)[n]) # NoHit
<1>1. n \in DOMAIN events /\ Recent(t, r)[n] = events[n]
  BY DEF Recent, Restrict
<1>2. events[n].src_ip \in Keys \cup {Null}
  BY <1>1, RowTyped
<1> QED
  BY <1>1, <1>2, KeysAssumption DEF EntityOf, NoEntity, NoHit

(* What a match rule finds on the table.                                   *)
LEMMA MatchOnTable ==
  ASSUME TypeOK, NEW r \in Rules, r.type = "match", NEW t, NEW bad, NEW limit \in Nat,
         NEW es \in Fetched(events, t, r.window, limit)
  PROVE  /\ MatchRule(r, es) \subseteq Subjects(r, t, bad) \cup {NoHit}
         /\ Cardinality(DOMAIN Recent(t, r)) <= limit =>
                (NoHit \in MatchRule(r, es) <=> Subjects(r, t, bad) = {})
<1> DEFINE full == Recent(t, r)
           subjects == { EntityOf(full[n]) :
                            n \in { n \in DOMAIN full : Matches(full[n], r.match) } }
           hits == { n \in DOMAIN es : Matches(es[n], r.match) }
<1>1. Subjects(r, t, bad) = subjects
  BY DEF Subjects
<1>2. /\ \E len \in Nat : DOMAIN es = 1..len
      /\ \A n \in DOMAIN es : \E m \in DOMAIN full : es[n] = full[m]
      /\ Cardinality(DOMAIN full) <= limit =>
            \A m \in DOMAIN full : \E n \in DOMAIN es : es[n] = full[m]
  BY ListedAreRecent
<1>3. /\ hits = {} => MatchRule(r, es) = {NoHit}
      /\ hits # {} => \E n \in hits : MatchRule(r, es) = {EntityOf(es[n])}
  BY <1>2, MatchFinds
<1>4. \A n \in hits : EntityOf(es[n]) \in subjects /\ EntityOf(es[n]) # NoHit
  <2> SUFFICES ASSUME NEW n \in hits
               PROVE  EntityOf(es[n]) \in subjects /\ EntityOf(es[n]) # NoHit
    OBVIOUS
  <2>1. PICK m \in DOMAIN full : es[n] = full[m]
    BY <1>2
  <2> QED
    BY <2>1, EntitiesAreKeys
<1>5. Cardinality(DOMAIN full) <= limit /\ hits = {} => subjects = {}
  <2> SUFFICES ASSUME Cardinality(DOMAIN full) <= limit, NEW m \in DOMAIN full,
                      Matches(full[m], r.match)
               PROVE  hits # {}
    OBVIOUS
  <2>1. PICK n \in DOMAIN es : es[n] = full[m]
    BY <1>2
  <2> QED
    BY <2>1
<1> HIDE DEF hits, subjects, full
<1> QED
  BY <1>1, <1>3, <1>4, <1>5 DEF full

(* What a threshold and a correlation rule find there.                     *)
LEMMA CorrelationOnTable ==
  ASSUME TypeOK, NEW r \in Rules, r.type = "correlation", NEW t, NEW bad, NEW limit \in Nat,
         NEW es \in Fetched(events, t, r.window, limit)
  PROVE  /\ CorrelationRule(r, es, bad) \subseteq Subjects(r, t, bad) \cup {NoHit}
         /\ Cardinality(DOMAIN Recent(t, r)) <= limit =>
                (NoHit \in CorrelationRule(r, es, bad) <=> Subjects(r, t, bad) = {})
<1> DEFINE full == Recent(t, r)
           met == { k \in NonBlank(full, r.join_on) :
                        \A n \in DOMAIN r.steps : Met(r.steps[n], full, r.join_on, k, bad) }
<1>1. NonBlank(full, r.join_on) \subseteq Keys
  <2>1. \A n \in DOMAIN full : n \in DOMAIN events /\ full[n] = events[n]
    BY DEF Recent, Restrict
  <2>2. r.join_on \in ALLOWED_GROUP_BY
    BY RuleTyped
  <2> QED
    BY <2>1, <2>2, RowTyped DEF NonBlank
<1>6. Len(r.steps) \in Nat
  BY RuleTyped
<1>2. /\ Len(r.steps) >= 2 => Subjects(r, t, bad) = met
      /\ Len(r.steps) < 2 => Subjects(r, t, bad) = {}
  BY <1>1, <1>6 DEF Subjects
<1>3. /\ Shared(r, es, bad) \subseteq met
      /\ Cardinality(DOMAIN full) <= limit => Shared(r, es, bad) = met
  BY SharedOnTable
<1>4. IsFiniteSet(DOMAIN es)
  BY FetchedPicks, FS_Interval
<1>5. NoHit \notin met
  BY <1>1, KeysAssumption
<1>7. /\ CorrelationRule(r, es, bad) \subseteq Shared(r, es, bad) \cup {NoHit}
      /\ Shared(r, es, bad) = {} => CorrelationRule(r, es, bad) = {NoHit}
      /\ Len(r.steps) < 2 => CorrelationRule(r, es, bad) = {NoHit}
      /\ Len(r.steps) >= 2 /\ Shared(r, es, bad) # {}
            => CorrelationRule(r, es, bad) \subseteq Shared(r, es, bad)
  BY <1>4, <1>6, CorrelationFinds
<1> HIDE DEF met
<1>8. CASE Len(r.steps) < 2
  BY <1>2, <1>7, <1>8
<1>9. CASE Len(r.steps) >= 2
  BY <1>2, <1>3, <1>5, <1>7, <1>9
<1> QED
  BY <1>6, <1>8, <1>9

(* The same of a threshold rule, whose query is over the table itself.     *)
LEMMA ThresholdOnTable ==
  ASSUME TypeOK, NEW r \in Rules, r.type = "threshold", NEW t, NEW bad, Regular(r, t)
  PROVE  /\ ThresholdLive(r, t, events) \subseteq Subjects(r, t, bad) \cup {NoHit}
         /\ NoHit \in ThresholdLive(r, t, events) <=> Subjects(r, t, bad) = {}
         /\ ThresholdLive(r, t, events) = Outcomes(Subjects(r, t, bad))
BY GroupsOnTable, KeysAssumption DEF Subjects, Outcomes

(* What a pass finds is what the documents say, if nothing was cut.        *)
LEMMA LiveOnTable ==
  ASSUME TypeOK, NEW r \in Rules, NEW t, NEW bad, Regular(r, t)
  PROVE  /\ Live(r, t, events, bad) \subseteq Subjects(r, t, bad) \cup {NoHit}
         /\ Fits(r, t) /\ Subjects(r, t, bad) # {} => NoHit \notin Live(r, t, events, bad)
<1> DEFINE Lists(limit) == Fetched(events, t, r.window, limit)
<1>1. MatchLimit \in Nat /\ JoinLimit \in Nat
  BY LimitsAssumption
<1>2. CASE r.type = "match"
  <2>1. Live(r, t, events, bad) = UNION { MatchRule(r, es) : es \in Lists(MatchLimit) }
    BY <1>2 DEF Live
  <2>2. \A es \in Lists(MatchLimit) :
            /\ MatchRule(r, es) \subseteq Subjects(r, t, bad) \cup {NoHit}
            /\ Cardinality(DOMAIN Recent(t, r)) <= MatchLimit =>
                (NoHit \in MatchRule(r, es) <=> Subjects(r, t, bad) = {})
    BY <1>1, <1>2, MatchOnTable
  <2> QED
    BY <1>2, <2>1, <2>2 DEF Fits
<1>3. CASE r.type = "threshold"
  <2>1. Live(r, t, events, bad) = ThresholdLive(r, t, events)
    BY <1>3 DEF Live
  <2> QED
    BY <1>3, <2>1, ThresholdOnTable
<1>4. CASE r.type = "correlation"
  <2>1. Live(r, t, events, bad) = UNION { CorrelationRule(r, es, bad) : es \in Lists(JoinLimit) }
    BY <1>4 DEF Live
  <2>2. \A es \in Lists(JoinLimit) :
            /\ CorrelationRule(r, es, bad) \subseteq Subjects(r, t, bad) \cup {NoHit}
            /\ Cardinality(DOMAIN Recent(t, r)) <= JoinLimit =>
                (NoHit \in CorrelationRule(r, es, bad) <=> Subjects(r, t, bad) = {})
    BY <1>1, <1>4, CorrelationOnTable
  <2> QED
    BY <1>4, <2>1, <2>2 DEF Fits
<1> QED
  BY <1>2, <1>3, <1>4, RuleTyped DEF TYPES

(* A list that was not cut has the same rows whatever the LIMIT.           *)
LEMMA FetchedWhole ==
  ASSUME TypeOK, NEW t, NEW window, NEW m \in Nat, NEW n \in Nat,
         Cardinality(InWindow(events, t, window)) <= m,
         Cardinality(InWindow(events, t, window)) <= n
  PROVE  Fetched(events, t, window, m) = Fetched(events, t, window, n)
<1> DEFINE W == InWindow(events, t, window)
<1>1. Cardinality(W) \in Nat
  BY WindowIsFinite
<1>2. Min({m, Cardinality(W)}) = Cardinality(W) /\ Min({n, Cardinality(W)}) = Cardinality(W)
  <2> HIDE DEF W
  <2>1. Cardinality(W) <= m /\ Cardinality(W) <= n
    BY DEF W
  <2> QED
    BY <1>1, <2>1, LeastOfTwo
<1>3. NewestFirst(events, W, m) = NewestFirst(events, W, n)
  <2> HIDE DEF W
  <2> QED
    BY <1>2 DEF NewestFirst
<1> QED
  BY <1>3 DEF Fetched

(* The bench groups as SQL does, and picks a largest group.                *)
LEMMA ThresholdBenched ==
  ASSUME TypeOK, NEW r \in Rules, r.type = "threshold", NEW t, NEW bad, NEW limit \in Nat,
         Cardinality(DOMAIN Recent(t, r)) <= limit,
         NEW es \in Fetched(events, t, r.window, limit)
  PROVE  /\ ThresholdBench(r, es) \subseteq Outcomes(Subjects(r, t, bad))
         /\ NoHit \in ThresholdBench(r, es) <=> Subjects(r, t, bad) = {}
<1> DEFINE W == InWindow(events, t, r.window)
           full == Restrict(events, W)
           subjects == Subjects(r, t, bad)
           Size(k) == Count(es, r.match, r.group_by, k)
           rows == { k \in NonBlank(es, r.group_by) : Size(k) >= r.threshold }
           top == { k \in rows : \A l \in rows : Size(l) <= Size(k) }
<1>1. r.window \in Nat /\ r.threshold \in Nat \ {0} /\ r.group_by \in ALLOWED_GROUP_BY
  BY RuleTyped
<1>2. IsFiniteSet(W) /\ DOMAIN full = W /\ Recent(t, r) = full
  BY <1>1, WindowIsFinite, RecentIsWindow DEF Restrict
<1>3. PICK s \in Injection(DOMAIN es, W) :
            /\ \A n \in DOMAIN es : es[n] = full[s[n]]
            /\ Cardinality(W) <= limit => s \in Surjection(DOMAIN es, W)
  BY FetchedPicks
<1>4. IsFiniteSet(DOMAIN es)
  <2>1. PICK len \in Nat : DOMAIN es = 1..len
    BY FetchedPicks
  <2> QED
    BY <2>1, FS_Interval
<1> HIDE DEF W, full
<1>5. \A k : Size(k) = Count(full, r.match, r.group_by, k)
  BY <1>2, <1>3, ListsCount
<1>6. \A k : Size(k) \in Nat /\ Size(k) <= Cardinality(DOMAIN es) /\ Cardinality(DOMAIN es) \in Nat
  BY <1>4, CountIsBounded
<1>7. subjects = { k \in Keys : Count(full, r.match, r.group_by, k) >= r.threshold }
  BY <1>2 DEF Subjects
<1>8. NonBlank(es, r.group_by) \subseteq Keys
  <2>1. \A n \in DOMAIN es : \E m \in DOMAIN events : es[n] = events[m]
    <3>1. \A n \in DOMAIN es : \E m \in DOMAIN Recent(t, r) : es[n] = Recent(t, r)[m]
      BY ListedAreRecent
    <3>2. \A m \in DOMAIN Recent(t, r) : m \in DOMAIN events /\ Recent(t, r)[m] = events[m]
      BY DEF Recent, Restrict
    <3> QED
      BY <3>1, <3>2
  <2> QED
    BY <1>1, <2>1, RowTyped DEF NonBlank
<1>9. ASSUME NEW k \in Keys, Size(k) >= r.threshold PROVE k \in NonBlank(es, r.group_by)
  <2> DEFINE A == { n \in DOMAIN es : Matches(es[n], r.match) /\ es[n][r.group_by] = k }
  <2>1. A # {}
    <3>1. Size(k) = Cardinality(A)
      BY DEF Count
    <3>2. Size(k) # 0
      BY <1>1, <1>6, <1>9
    <3> HIDE DEF A
    <3> QED
      BY <3>1, <3>2, FS_EmptySet
  <2>2. k # Null
    BY KeysAssumption
  <2> QED
    BY <2>1, <2>2 DEF NonBlank
<1>10. rows = subjects
  BY <1>5, <1>7, <1>8, <1>9
<1>11. ThresholdBench(r, es) = Outcomes(top)
  BY DEF ThresholdBench
<1>12. NoHit \notin subjects
  BY <1>7, KeysAssumption
<1> HIDE DEF rows, Size, subjects
<1>13. ASSUME rows # {} PROVE top # {}
  <2> DEFINE f == [k \in rows |-> Size(k)]
             b == Cardinality(DOMAIN es)
  <2>1. f \in [rows -> Nat] /\ b \in Nat /\ \A k \in rows : f[k] <= b
    BY <1>6
  <2>2. PICK k \in rows : \A l \in rows : f[l] <= f[k]
    <3> HIDE DEF f, b
    <3> QED
      BY <1>13, <2>1, LargestCount
  <2> QED
    BY <2>2
<1> QED
  BY <1>10, <1>11, <1>12, <1>13 DEF Outcomes, subjects

(* What the bench finds in the recent events, when nothing was cut.        *)
LEMMA BenchOnTable ==
  ASSUME TypeOK, NEW r \in Rules, NEW t, NEW bad, Regular(r, t), Fits(r, t),
         NEW es \in Fetched(events, t, r.window, MaxEvents)
  PROVE  LET live == Live(r, t, events, bad)
             bench == Bench(r, es, bad)
         IN  bench \subseteq live /\ (NoHit \in bench <=> NoHit \in live)
<1> DEFINE W == InWindow(events, t, r.window)
           live == Live(r, t, events, bad)
           bench == Bench(r, es, bad)
           Lists(limit) == Fetched(events, t, r.window, limit)
<1>1. MatchLimit \in Nat /\ JoinLimit \in Nat /\ MaxEvents \in Nat
  BY LimitsAssumption, BoundsAssumption
<1>2. Cardinality(W) <= MaxEvents /\ DOMAIN Recent(t, r) = W
  BY WindowIsFinite, RuleTyped, RecentIsWindow DEF Restrict
<1>3. CASE r.type = "match"
  <2>1. Lists(MaxEvents) = Lists(MatchLimit)
    BY <1>1, <1>2, <1>3, FetchedWhole DEF Fits
  <2>2. live = UNION { MatchRule(r, l) : l \in Lists(MatchLimit) } /\ bench = MatchRule(r, es)
    BY <1>3 DEF Live, Bench
  <2>3. \A l \in Lists(MatchLimit) :
            NoHit \in MatchRule(r, l) <=> Subjects(r, t, bad) = {}
    BY <1>1, <1>3, MatchOnTable DEF Fits
  <2> QED
    BY <2>1, <2>2, <2>3
<1>4. CASE r.type = "threshold"
  <2>1. live = Outcomes(Subjects(r, t, bad)) /\ bench = ThresholdBench(r, es)
        /\ (NoHit \in live <=> Subjects(r, t, bad) = {})
    BY <1>4, ThresholdOnTable DEF Live, Bench
  <2> QED
    BY <1>1, <1>2, <1>4, <2>1, ThresholdBenched
<1>5. CASE r.type = "correlation"
  <2>1. Lists(MaxEvents) = Lists(JoinLimit)
    BY <1>1, <1>2, <1>5, FetchedWhole DEF Fits
  <2>2. live = UNION { CorrelationRule(r, l, bad) : l \in Lists(JoinLimit) }
        /\ bench = CorrelationRule(r, es, bad)
    BY <1>5 DEF Live, Bench
  <2>3. \A l \in Lists(JoinLimit) :
            NoHit \in CorrelationRule(r, l, bad) <=> Subjects(r, t, bad) = {}
    BY <1>1, <1>5, CorrelationOnTable DEF Fits
  <2> QED
    BY <2>1, <2>2, <2>3
<1> QED
  BY <1>3, <1>4, <1>5, RuleTyped DEF TYPES

-----------------------------------------------------------------------------
(* Type correctness: an event is stored with its tenant and the time it    *)
(* came, and the table keeps within its bound (ingest.py:29-36).           *)
THEOREM TypeCorrect == Spec => []TypeOK
<1>1. Init => TypeOK
  BY BoundsAssumption DEF Init, TypeOK
<1>2. TypeOK /\ [Next]_vars => TypeOK'
  <2> SUFFICES ASSUME TypeOK, [Next]_vars PROVE TypeOK'
    OBVIOUS
  <2>1. CASE Tick
    BY <2>1, BoundsAssumption DEF TypeOK, Tick
  <2>2. ASSUME NEW t \in Tenants, NEW p \in Payloads, Ingest(t, p) PROVE TypeOK'
    BY <2>2, BoundsAssumption DEF TypeOK, Ingest
  <2>3. CASE UNCHANGED vars
    BY <2>3 DEF TypeOK, vars
  <2> QED
    BY <2>1, <2>2, <2>3 DEF Next
<1> QED
  BY <1>1, <1>2, PTL DEF Spec

(* A pass alerts only about someone its rule is about. It may read no more *)
(* of the window than the LIMIT gives it, and in any order of equal        *)
(* timestamps: a match in a list is one in the table, and a count there    *)
(* reaches the threshold only if the table's does                          *)
(* (rules_engine.py:199-202, 280-289, 356-426).                            *)
THEOREM AlertsAreAboutSubjects == Spec => []NothingInvented
<1>1. TypeOK => NothingInvented
  BY LiveOnTable DEF NothingInvented
<1> QED
  BY <1>1, TypeCorrect, PTL

(* And it finds someone whenever there is someone to find and the window   *)
(* fits in the LIMIT: no order of rows, groups or steps hides the hit      *)
(* (rules_engine.py:194-202, 264-289, 344-426).                            *)
THEOREM SubjectsAreFound == Spec => []NothingMissed
<1>1. TypeOK => NothingMissed
  BY LiveOnTable DEF NothingMissed
<1> QED
  BY <1>1, TypeCorrect, PTL

(* A dry-run over the recent events says what the next pass will: its      *)
(* verdict is the pass's, and the entity it shows one the pass may choose, *)
(* though one counts in Python and the other in SQL                        *)
(* (rules_engine.py:252-289).                                              *)
THEOREM BenchIsRight == Spec => []BenchAgrees
<1>1. TypeOK => BenchAgrees
  BY BenchOnTable DEF BenchAgrees
<1> QED
  BY <1>1, TypeCorrect, PTL

(* Every query filters by tenant before it groups or cuts, so the rows of  *)
(* other tenants neither take part nor use up the LIMIT                    *)
(* (rules_engine.py:194-196, 269, 344-346).                                *)
THEOREM OtherTenantsDoNotMatter == Spec => []TenantsApart
<1>1. ASSUME NEW t, NEW window
      PROVE  LET own == Restrict(events, { n \in DOMAIN events : events[n].tenant = t })
             IN  /\ InWindow(own, t, window) = InWindow(events, t, window)
                 /\ \A n \in InWindow(events, t, window) : own[n] = events[n]
  BY DEF InWindow, Restrict
<1>2. TenantsApart
  <2> SUFFICES ASSUME NEW r \in Rules, NEW t \in Tenants, NEW bad \in Verdicts(r)
               PROVE  LET own == Restrict(events, { n \in DOMAIN events : events[n].tenant = t })
                      IN  Live(r, t, events, bad) = Live(r, t, own, bad)
    BY DEF TenantsApart
  <2> DEFINE own == Restrict(events, { n \in DOMAIN events : events[n].tenant = t })
             W == InWindow(events, t, r.window)
  <2>1. InWindow(own, t, r.window) = W /\ \A n \in W : own[n] = events[n]
    BY <1>1
  <2> HIDE DEF own, W
  <2>2. ASSUME NEW limit PROVE NewestFirst(own, W, limit) = NewestFirst(events, W, limit)
    <3>1. ASSUME NEW s \in [1..Min({limit, Cardinality(W)}) -> W]
          PROVE  /\ \A n \in DOMAIN s : own[s[n]].at = events[s[n]].at
                 /\ \A n \in W : own[n].at = events[n].at
      BY <2>1
    <3> QED
      BY <3>1 DEF NewestFirst
  <2>3. ASSUME NEW limit
        PROVE  Fetched(own, t, r.window, limit) = Fetched(events, t, r.window, limit)
    <3>1. \A s \in NewestFirst(events, W, limit) :
            [n \in DOMAIN s |-> own[s[n]]] = [n \in DOMAIN s |-> events[s[n]]]
      BY <2>1 DEF NewestFirst
    <3> QED
      BY <2>1, <2>2, <3>1 DEF Fetched, W
  <2>4. ThresholdLive(r, t, own) = ThresholdLive(r, t, events)
    <3> DEFINE Size(db, k) == Cardinality({ n \in W : Matches(db[n], Clauses(r.match))
                                                      /\ db[n][r.group_by] = k })
    <3>1. \A k : Size(own, k) = Size(events, k)
      <4> SUFFICES ASSUME NEW k PROVE Size(own, k) = Size(events, k)
        OBVIOUS
      <4> QED
        BY <2>1
    <3>2. { own[n][r.group_by] : n \in W } = { events[n][r.group_by] : n \in W }
      BY <2>1
    <3>3. /\ ThresholdLive(r, t, own) = Outcomes({ k \in { own[n][r.group_by] : n \in W } :
                                                        Size(own, k) >= r.threshold })
          /\ ThresholdLive(r, t, events) = Outcomes({ k \in { events[n][r.group_by] : n \in W } :
                                                        Size(events, k) >= r.threshold })
      BY <2>1 DEF ThresholdLive, W
    <3> HIDE DEF Size
    <3> QED
      BY <3>1, <3>2, <3>3
  <2>5. Live(r, t, events, bad) = Live(r, t, own, bad)
    <3>1. CASE r.type = "match"
      BY <2>3, <3>1 DEF Live
    <3>2. CASE r.type = "threshold"
      BY <2>4, <3>2 DEF Live
    <3>3. CASE r.type = "correlation"
      BY <2>3, <3>3 DEF Live
    <3> QED
      BY <3>1, <3>2, <3>3, RuleTyped DEF TYPES
  <2> QED
    BY <2>5 DEF own
<1> QED
  BY <1>2, PTL

-----------------------------------------------------------------------------
(* Filters, and steps of a correlation, that say the same.                 *)
Alike(m, n) == DOMAIN m = DOMAIN n /\ \A col \in DOMAIN m : m[col] = n[col]

StepsAlike(a, b) ==
    /\ "enrich" \in DOMAIN a <=> "enrich" \in DOMAIN b
    /\ "enrich" \in DOMAIN a => a.enrich = b.enrich
    /\ "enrich" \notin DOMAIN a => Alike(a.match, b.match) /\ a.min_count = b.min_count

(* Filters that are alike are met by the same events, with or without      *)
(* their labels.                                                           *)
LEMMA FiltersAlike ==
  ASSUME NEW m, NEW n, Alike(m, n)
  PROVE  /\ \A e : Matches(e, m) = Matches(e, n)
         /\ \A e : Matches(e, Clauses(m)) = Matches(e, Clauses(n))
         /\ \A es, col, k : Count(es, m, col, k) = Count(es, n, col, k)
<1>1. \A e : Matches(e, m) = Matches(e, n)
  BY DEF Matches, Alike
<1>2. \A e : Matches(e, Clauses(m)) = Matches(e, Clauses(n))
  BY DEF Matches, Clauses, Alike
<1>3. ASSUME NEW es, NEW col, NEW k PROVE Count(es, m, col, k) = Count(es, n, col, k)
  <2>1. { i \in DOMAIN es : Matches(es[i], m) /\ es[i][col] = k }
          = { i \in DOMAIN es : Matches(es[i], n) /\ es[i][col] = k }
    BY <1>1
  <2> QED
    BY <2>1 DEF Count
<1> QED
  BY <1>1, <1>2, <1>3

(* What two readings of a rule have in common.                             *)
RulesAlike(r, q) ==
    /\ r.type = q.type /\ r.window = q.window
    /\ r.type \in {"match", "threshold"} => Alike(r.match, q.match)
    /\ r.type = "threshold" => r.threshold = q.threshold /\ r.group_by = q.group_by
    /\ r.type = "correlation" =>
            /\ r.join_on = q.join_on
            /\ DOMAIN r.steps = 1..Len(r.steps) /\ Len(r.steps) \in Nat
            /\ DOMAIN q.steps = 1..Len(q.steps) /\ Len(q.steps) = Len(r.steps)
            /\ \A n \in DOMAIN r.steps : StepsAlike(r.steps[n], q.steps[n])

(* Correlation rules with the same steps find the same in every list.      *)
LEMMA CorrelationsAlike ==
  ASSUME NEW r, NEW q, RulesAlike(r, q), r.type = "correlation", NEW es, NEW bad
  PROVE  CorrelationRule(r, es, bad) = CorrelationRule(q, es, bad)
<1> DEFINE Lead(p, k) == IF "enrich" \in DOMAIN p.steps[1] THEN 1
                         ELSE Count(es, p.steps[1].match, p.join_on, k)
           col == r.join_on
<1>1. /\ q.join_on = col
      /\ DOMAIN r.steps = 1..Len(r.steps) /\ Len(r.steps) \in Nat
      /\ DOMAIN q.steps = DOMAIN r.steps /\ Len(q.steps) = Len(r.steps)
      /\ \A n \in DOMAIN r.steps : StepsAlike(r.steps[n], q.steps[n])
  BY DEF RulesAlike
<1>2. ASSUME NEW n \in DOMAIN r.steps, NEW k
      PROVE  Met(r.steps[n], es, col, k, bad) = Met(q.steps[n], es, col, k, bad)
  BY <1>1, FiltersAlike DEF Met, StepsAlike
<1>3. Shared(r, es, bad) = Shared(q, es, bad)
  <2> DEFINE M == { k \in NonBlank(es, col) :
                        \A n \in DOMAIN r.steps : Met(r.steps[n], es, col, k, bad) }
             N == { k \in NonBlank(es, col) :
                        \A n \in DOMAIN q.steps : Met(q.steps[n], es, col, k, bad) }
  <2>1. Shared(r, es, bad) = M
    BY <1>1, SharedMeetAll
  <2>2. Shared(q, es, bad) = N
    BY <1>1, SharedMeetAll
  <2>3. M = N
    BY <1>1, <1>2
  <2> QED
    BY <2>1, <2>2, <2>3
<1>4. ASSUME Len(r.steps) >= 2, NEW k PROVE Lead(r, k) = Lead(q, k)
  <2>1. 1 \in DOMAIN r.steps
    BY <1>1, <1>4
  <2> QED
    BY <1>1, <2>1, FiltersAlike DEF StepsAlike
<1>5. \A p : CorrelationRule(p, es, bad) =
                Outcomes(IF Len(p.steps) < 2 THEN {}
                         ELSE { k \in Shared(p, es, bad) :
                                    \A l \in Shared(p, es, bad) : Lead(p, l) <= Lead(p, k) })
  BY DEF CorrelationRule
<1> HIDE DEF Lead
<1>6. CASE Len(r.steps) < 2
  BY <1>1, <1>5, <1>6
<1>7. CASE Len(r.steps) >= 2
  <2>1. { k \in Shared(r, es, bad) : \A l \in Shared(r, es, bad) : Lead(r, l) <= Lead(r, k) }
         = { k \in Shared(q, es, bad) : \A l \in Shared(q, es, bad) : Lead(q, l) <= Lead(q, k) }
    BY <1>3, <1>4, <1>7
  <2> QED
    BY <1>1, <1>5, <1>7, <2>1
<1> QED
  BY <1>1, <1>6, <1>7

(* Rules that read alike find alike in every table.                        *)
LEMMA LiveAlike ==
  ASSUME NEW r, NEW q, RulesAlike(r, q), r.type \in TYPES, NEW t, NEW bad
  PROVE  Live(r, t, events, bad) = Live(q, t, events, bad)
<1>1. q.type = r.type /\ q.window = r.window
  BY DEF RulesAlike
<1>2. CASE r.type = "match"
  <2>1. \A e : Matches(e, r.match) = Matches(e, q.match)
    BY <1>2, FiltersAlike DEF RulesAlike
  <2>2. ASSUME NEW es PROVE MatchRule(r, es) = MatchRule(q, es)
    <3>1. { n \in DOMAIN es : Matches(es[n], r.match) } = { n \in DOMAIN es : Matches(es[n], q.match) }
      BY <2>1
    <3> QED
      BY <3>1 DEF MatchRule
  <2> QED
    BY <1>1, <1>2, <2>2 DEF Live
<1>3. CASE r.type = "threshold"
  <2> DEFINE W == InWindow(events, t, r.window)
             Size(p, k) == Cardinality({ n \in W : Matches(events[n], Clauses(p.match))
                                                  /\ events[n][r.group_by] = k })
  <2>1. /\ \A e : Matches(e, Clauses(r.match)) = Matches(e, Clauses(q.match))
        /\ q.group_by = r.group_by /\ q.threshold = r.threshold
    BY <1>3, FiltersAlike DEF RulesAlike
  <2>2. ASSUME NEW k PROVE Size(r, k) = Size(q, k)
    <3>1. { n \in W : Matches(events[n], Clauses(r.match)) /\ events[n][r.group_by] = k }
            = { n \in W : Matches(events[n], Clauses(q.match)) /\ events[n][r.group_by] = k }
      BY <2>1
    <3> QED
      BY <3>1
  <2>3. /\ ThresholdLive(r, t, events) =
                Outcomes({ k \in { events[n][r.group_by] : n \in W } : Size(r, k) >= r.threshold })
        /\ ThresholdLive(q, t, events) =
                Outcomes({ k \in { events[n][r.group_by] : n \in W } : Size(q, k) >= r.threshold })
    BY <1>1, <2>1 DEF ThresholdLive
  <2> HIDE DEF Size
  <2>4. ThresholdLive(r, t, events) = ThresholdLive(q, t, events)
    BY <2>2, <2>3
  <2> QED
    BY <1>1, <1>3, <2>4 DEF Live
<1>4. CASE r.type = "correlation"
  BY <1>1, <1>4, CorrelationsAlike DEF Live
<1> QED
  BY <1>2, <1>3, <1>4 DEF TYPES

-----------------------------------------------------------------------------
(* What validation makes of a file, and of one it made.                    *)
LEMMA Clamp ==
  ASSUME NEW n \in Nat
  PROVE  /\ n # 0 => Clamped(n) \in 1..MAX_WINDOW_MINUTES
         /\ n \in 1..MAX_WINDOW_MINUTES => Clamped(n) = n
<1>1. MAX_WINDOW_MINUTES \in Nat /\ MAX_WINDOW_MINUTES >= 1
  BY WindowsAssumption
<1>2. Min({MAX_WINDOW_MINUTES, n}) = IF MAX_WINDOW_MINUTES <= n THEN MAX_WINDOW_MINUTES ELSE n
  BY <1>1, LeastOfTwo
<1>3. \A m \in Nat : Max({1, m}) = IF m <= 1 THEN 1 ELSE m
  BY DEF Max
<1> QED
  BY <1>1, <1>2, <1>3 DEF Clamped

(* A field that says something is read as it is, and a default never beats *)
(* it.                                                                     *)
LEMMA Readings ==
  ASSUME NEW d, NEW field, NEW default
  PROVE  /\ default # Blank => Text(d, field, default) # Blank
         /\ field \in DOMAIN d /\ d[field] # Blank => Text(d, field, default) = d[field]
         /\ default # 0 => Number(d, field, default) # 0
         /\ field \in DOMAIN d /\ d[field] # 0 => Number(d, field, default) = d[field]
         /\ default \in Nat /\ IsNumber(d, field) => Number(d, field, default) \in Nat
BY DEF Text, Number, IsNumber

(* Cleaning filters changes nothing in those that are as validation stores *)
(* them, leaves no blank value, and what it leaves is accepted again.      *)
LEMMA CleanIsClean ==
  ASSUME NEW m, \A col \in DOMAIN m : m[col] \subseteq Values
  PROVE  /\ \A col \in DOMAIN CleanMatch(m) : CleanMatch(m)[col] \subseteq Values
         /\ (\A col \in DOMAIN m : \A v \in m[col] : Stored[Stored[v]] = Stored[v])
                => AsStored(CleanMatch(m))
         /\ AsStored(m) => Alike(m, CleanMatch(m))
         /\ MatchAccepted(m) => MatchAccepted(CleanMatch(m))
<1> DEFINE c == CleanMatch(m)
<1>1. /\ DOMAIN c = { col \in DOMAIN m : StoredValues(m[col]) # {} }
      /\ \A col \in DOMAIN c : c[col] = StoredValues(m[col])
  BY DEF CleanMatch
<1> HIDE DEF c
<1>2. \A col \in DOMAIN c : \A x \in c[col] : x # Blank /\ \E v \in m[col] : x = Stored[v]
  BY <1>1 DEF StoredValues
<1>3. \A col \in DOMAIN c : c[col] # {} /\ c[col] \subseteq Values
  BY <1>1, <1>2, ValuesAssumption
<1>4. ASSUME \A col \in DOMAIN m : \A v \in m[col] : Stored[Stored[v]] = Stored[v]
      PROVE  AsStored(c)
  BY <1>1, <1>2, <1>3, <1>4 DEF AsStored
<1>5. ASSUME AsStored(m) PROVE Alike(m, c)
  <2>1. \A col \in DOMAIN m : StoredValues(m[col]) = m[col] /\ m[col] # {}
    BY <1>5 DEF AsStored, StoredValues
  <2> QED
    BY <1>1, <2>1 DEF Alike
<1>6. ASSUME MatchAccepted(m) PROVE MatchAccepted(c)
  <2>1. DOMAIN c # {} /\ DOMAIN c \subseteq DOMAIN m /\ DOMAIN m \subseteq ALLOWED_MATCH_KEYS
        /\ Cardinality(DOMAIN m) <= MAX_MATCH_KEYS
    BY <1>1, <1>6 DEF MatchAccepted, c
  <2>2. IsFiniteSet(DOMAIN m)
    BY <2>1, KeysAllowedAssumption, FS_Subset
  <2>3. IsFiniteSet(DOMAIN c) /\ Cardinality(DOMAIN c) <= Cardinality(DOMAIN m)
    BY <2>1, <2>2, FS_Subset
  <2>4. Cardinality(DOMAIN c) <= MAX_MATCH_KEYS
    BY <2>1, <2>2, <2>3, FS_CardinalityType, KeysAllowedAssumption
  <2>5. \A col \in DOMAIN c : StoredValues(c[col]) # {}
    <3> SUFFICES ASSUME NEW col \in DOMAIN c PROVE StoredValues(c[col]) # {}
      OBVIOUS
    <3>1. PICK x \in c[col] : TRUE
      BY <1>3
    <3>2. PICK v \in m[col] : x = Stored[v] /\ v \in Values /\ x # Blank
      BY <1>1, <1>2, <3>1
    <3>3. Stored[x] # Blank
      BY <3>2, ValuesAssumption
    <3> QED
      BY <3>1, <3>3 DEF StoredValues
  <2>6. DOMAIN CleanMatch(c) # {}
    BY <2>1, <2>5 DEF CleanMatch
  <2> QED
    BY <2>1, <2>4, <2>6 DEF MatchAccepted
<1> QED
  BY <1>3, <1>4, <1>5, <1>6 DEF c

(* An enrich mapping that says something, in lower case.                   *)
PlainEnrich(enrich) ==
    DOMAIN enrich # {} /\ \A field \in DOMAIN enrich : \A x \in enrich[field] : Lowered[x] = x

(* What validation makes of an enrich mapping: it reads as it is stored,   *)
(* and a plain one reads the same.                                         *)
LEMMA CleanEnrichIsRead ==
  ASSUME NEW enrich, \A field \in DOMAIN enrich : enrich[field] \subseteq Texts,
         NEW clean, clean = CleanEnrich(enrich)
  PROVE  /\ DOMAIN clean = {"providers", "verdicts"}
         /\ \A field \in DOMAIN clean : clean[field] \subseteq Texts
         /\ EnrichRead(clean) = clean
         /\ clean.providers \subseteq ENRICH_PROVIDERS /\ clean.verdicts \subseteq ENRICH_VERDICTS
                => PlainEnrich(clean) /\ CleanEnrich(clean) = clean
         /\ PlainEnrich(enrich) => EnrichRead(enrich) = clean
<1> DEFINE read == EnrichRead(enrich)
<1>1. /\ read = [providers |-> read.providers, verdicts |-> read.verdicts]
      /\ read.providers = Names(enrich, "providers", {"vt"})
      /\ read.verdicts = Names(enrich, "verdicts", {"malicious", "suspicious"})
  BY DEF EnrichRead
<1>2. /\ {"vt"} \subseteq Texts /\ {"malicious", "suspicious"} \subseteq Texts
      /\ \A x \in {"vt", "malicious", "suspicious"} : Lowered[x] = x
  BY TextsAssumption DEF ENRICH_PROVIDERS, ENRICH_VERDICTS
<1>3. /\ read.providers # {} /\ read.providers \subseteq Texts
      /\ read.verdicts # {} /\ read.verdicts \subseteq Texts
  BY <1>1, <1>2 DEF Names
<1> HIDE DEF read
<1>4. clean = [providers |-> { Lowered[x] : x \in read.providers },
               verdicts |-> { Lowered[x] : x \in read.verdicts }]
  BY DEF CleanEnrich, read
<1>5. /\ DOMAIN clean = {"providers", "verdicts"}
      /\ clean.providers = { Lowered[x] : x \in read.providers }
      /\ clean.verdicts = { Lowered[x] : x \in read.verdicts }
  BY <1>4
<1>6. /\ clean.providers # {} /\ clean.providers \subseteq Texts
      /\ clean.verdicts # {} /\ clean.verdicts \subseteq Texts
  BY <1>3, <1>5, TextsAssumption
<1>7. EnrichRead(clean) = clean
  <2>1. Names(clean, "providers", {"vt"}) = clean.providers
        /\ Names(clean, "verdicts", {"malicious", "suspicious"}) = clean.verdicts
    BY <1>5, <1>6 DEF Names
  <2> QED
    BY <1>4, <1>5, <2>1 DEF EnrichRead
<1>8. ASSUME clean.providers \subseteq ENRICH_PROVIDERS, clean.verdicts \subseteq ENRICH_VERDICTS
      PROVE  PlainEnrich(clean) /\ CleanEnrich(clean) = clean
  <2>1. \A x \in clean.providers \cup clean.verdicts : Lowered[x] = x
    BY <1>8, TextsAssumption
  <2>2. PlainEnrich(clean)
    BY <1>5, <2>1 DEF PlainEnrich
  <2>3. /\ { Lowered[x] : x \in clean.providers } = clean.providers
        /\ { Lowered[x] : x \in clean.verdicts } = clean.verdicts
    BY <2>1
  <2> QED
    BY <1>4, <1>5, <1>7, <2>2, <2>3 DEF CleanEnrich
<1>9. ASSUME PlainEnrich(enrich) PROVE read = clean
  <2>1. /\ \A x \in read.providers : Lowered[x] = x
        /\ \A x \in read.verdicts : Lowered[x] = x
    BY <1>1, <1>2, <1>9 DEF Names, PlainEnrich
  <2>2. /\ { Lowered[x] : x \in read.providers } = read.providers
        /\ { Lowered[x] : x \in read.verdicts } = read.verdicts
    BY <2>1
  <2> QED
    BY <1>1, <1>4, <2>2
<1> QED
  BY <1>5, <1>6, <1>7, <1>8, <1>9 DEF read

(* What files say in a step: values and names, and one spelled as          *)
(* validation stores it.                                                   *)
StepTyped(step) ==
    IF "enrich" \in DOMAIN step
    THEN \A field \in DOMAIN step.enrich : step.enrich[field] \subseteq Texts
    ELSE \A col \in DOMAIN MatchOf(step) : MatchOf(step)[col] \subseteq Values

PlainStep(step) ==
    IF "enrich" \in DOMAIN step THEN PlainEnrich(step.enrich) ELSE AsStored(MatchOf(step))

StepSettled(step) ==
    "enrich" \notin DOMAIN step =>
        \A col \in DOMAIN MatchOf(step) : \A v \in MatchOf(step)[col] : Stored[Stored[v]] = Stored[v]

(* A step is accepted again as it is stored, and read the same if it was   *)
(* plain.                                                                  *)
LEMMA CleanStepIsStep ==
  ASSUME NEW step, StepAccepted(step), IsNumber(step, "min_count"), StepTyped(step)
  PROVE  /\ StepAccepted(CleanStep(step)) /\ StepTyped(CleanStep(step))
         /\ IsNumber(CleanStep(step), "min_count")
         /\ StepSettled(step) => PlainStep(CleanStep(step))
         /\ PlainStep(step) => StepsAlike(StepRead(step), StepRead(CleanStep(step)))
<1>1. CASE "enrich" \in DOMAIN step
  <2> DEFINE clean == CleanEnrich(step.enrich)
             kept == CleanStep(step)
  <2>1. /\ DOMAIN clean = {"providers", "verdicts"}
        /\ \A field \in DOMAIN clean : clean[field] \subseteq Texts
        /\ EnrichRead(clean) = clean
        /\ PlainEnrich(clean) /\ CleanEnrich(clean) = clean
        /\ PlainEnrich(step.enrich) => EnrichRead(step.enrich) = clean
        /\ clean.providers \subseteq ENRICH_PROVIDERS /\ clean.verdicts \subseteq ENRICH_VERDICTS
    BY <1>1, CleanEnrichIsRead DEF StepAccepted, StepTyped
  <2>2. kept = [enrich |-> clean]
    BY <1>1 DEF CleanStep
  <2> HIDE DEF clean, kept
  <2>3. DOMAIN kept = {"enrich"} /\ kept.enrich = clean
    BY <2>2
  <2>4. StepAccepted(kept) /\ StepTyped(kept) /\ PlainStep(kept) /\ IsNumber(kept, "min_count")
    BY <2>1, <2>3 DEF StepAccepted, StepTyped, PlainStep, IsNumber
  <2>5. StepRead(kept) = [enrich |-> clean]
    BY <2>1, <2>3 DEF StepRead
  <2>6. PlainStep(step) => StepRead(step) = [enrich |-> clean]
    BY <1>1, <2>1 DEF StepRead, PlainStep, PlainEnrich
  <2> QED
    BY <2>4, <2>5, <2>6 DEF kept, StepsAlike
<1>2. CASE "enrich" \notin DOMAIN step
  <2> DEFINE clean == CleanStep(step)
             count == Number(step, "min_count", 1)
             filters == CleanMatch(MatchOf(step))
  <2>1. clean = [match |-> filters, min_count |-> count]
    BY <1>2 DEF CleanStep
  <2>2. count \in 1..MAX_THRESHOLD /\ count \in Nat /\ count # 0 /\ MatchAccepted(MatchOf(step))
    BY <1>2, WindowsAssumption DEF StepAccepted
  <2>3. /\ MatchAccepted(filters)
        /\ \A col \in DOMAIN filters : filters[col] \subseteq Values
        /\ StepSettled(step) => AsStored(filters)
        /\ AsStored(MatchOf(step)) => Alike(MatchOf(step), filters)
    BY <1>2, <2>2, CleanIsClean DEF StepTyped, StepSettled
  <2> HIDE DEF clean, count, filters
  <2>4. "enrich" \notin DOMAIN clean /\ MatchOf(clean) = filters
        /\ clean.min_count = count /\ "min_count" \in DOMAIN clean
    BY <2>1 DEF MatchOf
  <2>5. Number(clean, "min_count", 1) = count
    BY <2>2, <2>4, Readings
  <2>6. StepAccepted(clean) /\ StepTyped(clean) /\ IsNumber(clean, "min_count")
        /\ (StepSettled(step) => PlainStep(clean))
    BY <2>2, <2>3, <2>4, <2>5 DEF StepAccepted, StepTyped, PlainStep, IsNumber
  <2>7. /\ StepRead(step) = [match |-> MatchOf(step), min_count |-> count]
        /\ StepRead(clean) = [match |-> filters, min_count |-> count]
    BY <1>2, <2>4, <2>5 DEF StepRead, count
  <2>8. PlainStep(step) => StepsAlike(StepRead(step), StepRead(clean))
    BY <1>2, <2>3, <2>7 DEF StepsAlike, PlainStep
  <2> QED
    BY <2>6, <2>8 DEF clean
<1> QED
  BY <1>1, <1>2

(* What validation returns, by the type of the rule.                       *)
LEMMA ValidatedFields ==
  ASSUME NEW d, d.type \in TYPES, NEW v, v = Validated(d)
  PROVE  /\ {"type", "severity", "enabled", "window_minutes", "cooldown_minutes", "match"}
                \subseteq DOMAIN v
         /\ v.type = d.type /\ v.severity = Lowered[Text(d, "severity", "medium")]
         /\ v.enabled = ("enabled" \in DOMAIN d => d.enabled)
         /\ v.window_minutes = Clamped(Number(d, "window_minutes", FormWindow))
         /\ v.cooldown_minutes = Clamped(Number(d, "cooldown_minutes", FormCooldown))
         /\ d.type \in {"match", "threshold"} => v.match = CleanMatch(MatchOf(d))
         /\ d.type = "threshold" => /\ {"threshold", "group_by"} \subseteq DOMAIN v
                                    /\ v.threshold = d.threshold
                                    /\ v.group_by = Text(d, "group_by", "user")
         /\ d.type = "correlation" =>
                /\ {"join_on", "steps"} \subseteq DOMAIN v
                /\ v.join_on = Text(d, "join_on", "src_ip")
                /\ v.steps = [n \in DOMAIN d.steps |-> CleanStep(d.steps[n])]
<1>1. CASE d.type = "match"
  BY <1>1 DEF Validated, Updated
<1>2. CASE d.type = "threshold"
  BY <1>2 DEF Validated, Updated
<1>3. CASE d.type = "correlation"
  BY <1>3 DEF Validated, Updated
<1> QED
  BY <1>1, <1>2, <1>3 DEF TYPES

(* Switching a rule stores what validation makes of its file.              *)
LEMMA SwitchedFields ==
  ASSUME NEW d, WellFormed(d), Accepted(d), NEW b \in BOOLEAN, NEW v, v = Switched(d, b)
  PROVE  /\ {"type", "severity", "enabled", "window_minutes", "cooldown_minutes", "match"}
                \subseteq DOMAIN v
         /\ v.type = d.type /\ v.severity = Lowered[Text(d, "severity", "medium")] /\ v.enabled = b
         /\ v.window_minutes = Clamped(Number(d, "window_minutes", FormWindow))
         /\ v.cooldown_minutes = Clamped(Number(d, "cooldown_minutes", FormCooldown))
         /\ d.type \in {"match", "threshold"} => v.match = CleanMatch(MatchOf(d))
         /\ d.type = "threshold" => /\ {"threshold", "group_by"} \subseteq DOMAIN v
                                    /\ v.threshold = d.threshold
                                    /\ v.group_by = Text(d, "group_by", "user")
         /\ d.type = "correlation" =>
                /\ {"join_on", "steps"} \subseteq DOMAIN v
                /\ v.join_on = Text(d, "join_on", "src_ip")
                /\ v.steps = [n \in DOMAIN d.steps |-> CleanStep(d.steps[n])]
<1> DEFINE on == Updated(d, [enabled |-> b])
<1>1. "enabled" \in DOMAIN on /\ on.enabled = b
  BY DEF Updated
<1>2. ASSUME NEW field, field # "enabled"
      PROVE  (field \in DOMAIN on <=> field \in DOMAIN d) /\ (field \in DOMAIN d => on[field] = d[field])
  BY <1>2 DEF Updated
<1> HIDE DEF on
<1>3. d.type \in TYPES /\ on.type = d.type
  BY <1>2 DEF WellFormed
<1>4. ASSUME NEW field, field # "enabled", NEW default
      PROVE  Text(on, field, default) = Text(d, field, default)
             /\ Number(on, field, default) = Number(d, field, default)
  BY <1>2, <1>4 DEF Text, Number
<1>5. MatchOf(on) = MatchOf(d)
  BY <1>2 DEF MatchOf
<1>6. d.type = "correlation" => on.steps = d.steps
  BY <1>2 DEF WellFormed
<1>7. d.type = "threshold" => on.threshold = d.threshold
  <2> SUFFICES ASSUME d.type = "threshold" PROVE "threshold" \in DOMAIN d
    BY <1>2
  <2> QED
    BY DEF Accepted, Number
<1>8. v = Validated(on)
  BY DEF Switched, on
<1>9. /\ {"type", "severity", "enabled", "window_minutes", "cooldown_minutes", "match"}
             \subseteq DOMAIN v
      /\ v.type = on.type /\ v.severity = Lowered[Text(on, "severity", "medium")]
      /\ v.enabled = ("enabled" \in DOMAIN on => on.enabled)
      /\ v.window_minutes = Clamped(Number(on, "window_minutes", FormWindow))
      /\ v.cooldown_minutes = Clamped(Number(on, "cooldown_minutes", FormCooldown))
      /\ on.type \in {"match", "threshold"} => v.match = CleanMatch(MatchOf(on))
      /\ on.type = "threshold" => /\ {"threshold", "group_by"} \subseteq DOMAIN v
                                  /\ v.threshold = on.threshold
                                  /\ v.group_by = Text(on, "group_by", "user")
      /\ on.type = "correlation" =>
            /\ {"join_on", "steps"} \subseteq DOMAIN v
            /\ v.join_on = Text(on, "join_on", "src_ip")
            /\ v.steps = [n \in DOMAIN on.steps |-> CleanStep(on.steps[n])]
  BY <1>3, <1>8, ValidatedFields
<1>10. v.enabled = b
  BY <1>1, <1>9
<1>11. d.type = "correlation" => v.steps = [n \in DOMAIN d.steps |-> CleanStep(d.steps[n])]
  BY <1>3, <1>6, <1>9
<1>12. d.type = "threshold" => v.threshold = d.threshold
  BY <1>3, <1>7, <1>9
<1>13. \A default : /\ Text(on, "severity", default) = Text(d, "severity", default)
                    /\ Text(on, "group_by", default) = Text(d, "group_by", default)
                    /\ Text(on, "join_on", default) = Text(d, "join_on", default)
                    /\ Number(on, "window_minutes", default) = Number(d, "window_minutes", default)
                    /\ Number(on, "cooldown_minutes", default) = Number(d, "cooldown_minutes", default)
  BY <1>4
<1> QED
  BY <1>3, <1>5, <1>9, <1>10, <1>11, <1>12, <1>13

(* So a file that was switched is accepted again, and is spelled as        *)
(* validation would if its values are settled.                             *)
LEMMA SwitchedIsSpelled ==
  ASSUME NEW d, WellFormed(d), Accepted(d), NEW b \in BOOLEAN, NEW v, v = Switched(d, b)
  PROVE  WellFormed(v) /\ Accepted(v) /\ v.enabled = b /\ (Settled(d) => Spelled(v))
<1>1. /\ {"type", "severity", "enabled", "window_minutes", "cooldown_minutes", "match"}
             \subseteq DOMAIN v
      /\ v.type = d.type /\ v.severity = Lowered[Text(d, "severity", "medium")] /\ v.enabled = b
      /\ v.window_minutes = Clamped(Number(d, "window_minutes", FormWindow))
      /\ v.cooldown_minutes = Clamped(Number(d, "cooldown_minutes", FormCooldown))
  BY SwitchedFields
<1>2. d.type \in TYPES
  BY DEF WellFormed
<1>3. /\ v.severity # Blank /\ v.severity \in SEVERITIES /\ v.severity \in Texts
      /\ Lowered[v.severity] = v.severity
  <2>1. v.severity \in SEVERITIES
    BY <1>1 DEF Accepted
  <2> QED
    BY <2>1, TextsAssumption DEF SEVERITIES, Blank
<1>4. v.window_minutes \in 1..MAX_WINDOW_MINUTES /\ v.cooldown_minutes \in 1..MAX_WINDOW_MINUTES
  <2>1. {FormWindow, FormCooldown} \subseteq Nat \ {0}
    BY WindowsAssumption
  <2>2. /\ Number(d, "window_minutes", FormWindow) \in Nat \ {0}
        /\ Number(d, "cooldown_minutes", FormCooldown) \in Nat \ {0}
    BY <2>1, Readings DEF WellFormed
  <2> QED
    BY <1>1, <2>2, Clamp
<1>5. IsNumber(v, "window_minutes") /\ IsNumber(v, "cooldown_minutes")
  BY <1>4, WindowsAssumption DEF IsNumber
<1>6. Lowered[Text(v, "severity", "medium")] \in SEVERITIES
  BY <1>1, <1>3, Readings
<1>7. CASE d.type \in {"match", "threshold"}
  <2>1. MatchOf(v) = CleanMatch(MatchOf(d))
    BY <1>1, <1>7, SwitchedFields DEF MatchOf
  <2>2. /\ FiltersOf(d) = {MatchOf(d)} /\ FiltersOf(v) = {MatchOf(v)}
        /\ EnrichesOf(v) = {}
    BY <1>1, <1>7 DEF FiltersOf, EnrichesOf
  <2>9. MatchAccepted(MatchOf(v)) /\ (Settled(d) => AsStored(MatchOf(v)))
        /\ \A col \in DOMAIN MatchOf(v) : MatchOf(v)[col] \subseteq Values
    <3>1. \A col \in DOMAIN MatchOf(d) : MatchOf(d)[col] \subseteq Values
      BY <2>2 DEF WellFormed
    <3>2. Settled(d) => \A col \in DOMAIN MatchOf(d) : \A x \in MatchOf(d)[col] :
                            Stored[Stored[x]] = Stored[x]
      BY <2>2 DEF Settled
    <3>3. MatchAccepted(MatchOf(d))
      BY <1>7 DEF Accepted
    <3> QED
      BY <2>1, <3>1, <3>2, <3>3, CleanIsClean
  <2>3. Settled(d) => Spelled(v)
    BY <1>1, <1>3, <1>4, <2>2, <2>9 DEF Spelled
  <2>4. CASE d.type = "match"
    BY <1>1, <1>3, <1>5, <1>6, <2>2, <2>3, <2>4, <2>9 DEF WellFormed, Accepted, TYPES
  <2>5. CASE d.type = "threshold"
    <3>1. Number(d, "threshold", 0) \in 1..MAX_THRESHOLD
      BY <2>5 DEF Accepted
    <3>2. "threshold" \in DOMAIN d /\ d.threshold \in 1..MAX_THRESHOLD /\ d.threshold # 0
      BY <3>1, WindowsAssumption DEF Number
    <3>3. "threshold" \in DOMAIN v /\ v.threshold = d.threshold
          /\ "group_by" \in DOMAIN v /\ v.group_by = Text(d, "group_by", "user")
      BY <2>5, SwitchedFields
    <3>4. Number(v, "threshold", 0) \in 1..MAX_THRESHOLD /\ IsNumber(v, "threshold")
      BY <3>2, <3>3, WindowsAssumption, Readings DEF IsNumber
    <3>5. v.group_by # Blank /\ v.group_by \in ALLOWED_GROUP_BY
      BY <2>5, <3>3, Readings DEF WellFormed, Blank
    <3>6. Text(v, "group_by", "user") \in ALLOWED_GROUP_BY
      BY <3>3, <3>5, Readings
    <3>7. WellFormed(v)
      BY <1>1, <1>3, <1>5, <2>2, <2>5, <2>9, <3>4, <3>6 DEF WellFormed, TYPES
    <3>8. Accepted(v)
      BY <1>1, <1>6, <2>5, <2>9, <3>4, <3>6 DEF Accepted
    <3> QED
      BY <1>1, <2>3, <3>7, <3>8
  <2> QED
    BY <1>7, <2>4, <2>5
<1>8. CASE d.type = "correlation"
  <2>1. /\ {"join_on", "steps"} \subseteq DOMAIN v
        /\ v.join_on = Text(d, "join_on", "src_ip")
        /\ v.steps = [n \in DOMAIN d.steps |-> CleanStep(d.steps[n])]
    BY <1>8, SwitchedFields
  <2>2. d.steps \in Seq(Range(d.steps)) /\ Len(d.steps) \in 2..MAX_CORRELATION_STEPS
        /\ \A n \in DOMAIN d.steps : StepAccepted(d.steps[n]) /\ IsNumber(d.steps[n], "min_count")
                                      /\ StepTyped(d.steps[n])
    <3>1. \A n \in DOMAIN d.steps : StepTyped(d.steps[n])
      BY <1>8 DEF WellFormed, FiltersOf, EnrichesOf, StepTyped
    <3> QED
      BY <1>8, <3>1 DEF WellFormed, Accepted
  <2>3. DOMAIN d.steps = 1..Len(d.steps) /\ Len(d.steps) \in Nat
    BY <2>2
  <2>4. v.steps \in Seq(Range(v.steps)) /\ Len(v.steps) = Len(d.steps) /\ DOMAIN v.steps = DOMAIN d.steps
    BY <2>1, <2>3 DEF Range
  <2>5. \A n \in DOMAIN v.steps :
            /\ StepAccepted(v.steps[n]) /\ StepTyped(v.steps[n]) /\ IsNumber(v.steps[n], "min_count")
            /\ Settled(d) => PlainStep(v.steps[n])
    <3>1. Settled(d) => \A n \in DOMAIN d.steps : StepSettled(d.steps[n])
      BY <1>8 DEF Settled, FiltersOf, StepSettled
    <3> QED
      BY <2>1, <2>2, <2>4, <3>1, CleanStepIsStep
  <2>6. v.join_on # Blank /\ v.join_on \in ALLOWED_GROUP_BY
    <3>1. Text(d, "join_on", "src_ip") # Blank
      BY Readings DEF Blank
    <3>2. Text(d, "join_on", "src_ip") \in ALLOWED_GROUP_BY
      BY <1>8 DEF WellFormed
    <3> QED
      BY <2>1, <3>1, <3>2
  <2>7. Text(v, "join_on", "src_ip") \in ALLOWED_GROUP_BY
    BY <2>1, <2>6, Readings
  <2>11. /\ \A filters \in FiltersOf(v) : \A col \in DOMAIN filters : filters[col] \subseteq Values
         /\ \A enrich \in EnrichesOf(v) : \A field \in DOMAIN enrich : enrich[field] \subseteq Texts
    BY <1>1, <1>8, <2>5 DEF FiltersOf, EnrichesOf, StepTyped
  <2>8. WellFormed(v)
    BY <1>1, <1>3, <1>5, <1>8, <2>1, <2>4, <2>5, <2>7, <2>11 DEF WellFormed, TYPES
  <2>9. Accepted(v)
    BY <1>1, <1>6, <1>8, <2>2, <2>4, <2>5, <2>7 DEF Accepted
  <2>12. Settled(d) => /\ \A filters \in FiltersOf(v) : AsStored(filters)
                       /\ \A enrich \in EnrichesOf(v) : PlainEnrich(enrich)
    BY <1>1, <1>8, <2>5 DEF FiltersOf, EnrichesOf, PlainStep
  <2>10. Settled(d) => Spelled(v)
    BY <1>1, <1>3, <1>4, <2>12 DEF Spelled, PlainEnrich
  <2> QED
    BY <1>1, <2>8, <2>9, <2>10
<1> QED
  BY <1>2, <1>7, <1>8 DEF TYPES

(* And a file that is spelled out is read the same once switched.          *)
LEMMA SpelledIsKept ==
  ASSUME NEW d, WellFormed(d), Accepted(d), Spelled(d)
  PROVE  SameHits(d, Switched(d, TRUE)) /\ Switched(d, TRUE).enabled
<1> DEFINE v == Switched(d, TRUE)
           r == Evaluated(d)
           q == Evaluated(v)
<1>1. /\ {"type", "severity", "enabled", "window_minutes", "cooldown_minutes", "match"}
             \subseteq DOMAIN v
      /\ v.type = d.type /\ v.severity = Lowered[Text(d, "severity", "medium")] /\ v.enabled = TRUE
      /\ v.window_minutes = Clamped(Number(d, "window_minutes", FormWindow))
      /\ v.cooldown_minutes = Clamped(Number(d, "cooldown_minutes", FormCooldown))
      /\ d.type \in {"match", "threshold"} => v.match = CleanMatch(MatchOf(d))
      /\ d.type = "threshold" => /\ {"threshold", "group_by"} \subseteq DOMAIN v
                                 /\ v.threshold = d.threshold
                                 /\ v.group_by = Text(d, "group_by", "user")
      /\ d.type = "correlation" =>
            /\ {"join_on", "steps"} \subseteq DOMAIN v
            /\ v.join_on = Text(d, "join_on", "src_ip")
            /\ v.steps = [n \in DOMAIN d.steps |-> CleanStep(d.steps[n])]
  BY SwitchedFields
<1>2. /\ {"severity", "window_minutes", "cooldown_minutes"} \subseteq DOMAIN d
      /\ d.severity # Blank
      /\ d.window_minutes \in Nat \ {0} /\ d.cooldown_minutes \in Nat \ {0}
      /\ d.window_minutes \in 1..MAX_WINDOW_MINUTES /\ d.cooldown_minutes \in 1..MAX_WINDOW_MINUTES
  <2>1. d.severity # Blank
    BY DEF Spelled, SEVERITIES, Blank
  <2> QED
    BY <2>1, WindowsAssumption DEF Spelled
<1>3. v.window_minutes = d.window_minutes /\ v.cooldown_minutes = d.cooldown_minutes
  <2>1. /\ Number(d, "window_minutes", FormWindow) = d.window_minutes
        /\ Number(d, "cooldown_minutes", FormCooldown) = d.cooldown_minutes
    BY <1>2, Readings
  <2>2. Clamped(d.window_minutes) = d.window_minutes /\ Clamped(d.cooldown_minutes) = d.cooldown_minutes
    BY <1>2, Clamp
  <2> HIDE DEF v
  <2> QED
    BY <1>1, <2>1, <2>2
<1>4. v.severity = d.severity
  <2>1. Text(d, "severity", "medium") = d.severity
    BY <1>2, Readings
  <2>2. Lowered[d.severity] = d.severity
    BY TextsAssumption DEF Spelled
  <2> HIDE DEF v
  <2> QED
    BY <1>1, <2>1, <2>2
<1>5. /\ r.type = d.type /\ q.type = d.type
      /\ r.window = d.window_minutes /\ q.window = d.window_minutes
      /\ r.severity = d.severity /\ q.severity = d.severity
      /\ r.cooldown = d.cooldown_minutes /\ q.cooldown = d.cooldown_minutes
  <2> HIDE DEF v
  <2>3. {"severity", "window_minutes", "cooldown_minutes"} \subseteq DOMAIN v
    BY <1>1
  <2>1. \A def : Text(d, "severity", def) = d.severity /\ Text(v, "severity", def) = d.severity
    BY <1>2, <1>4, <2>3, Readings
  <2>2. \A def : /\ Number(d, "window_minutes", def) = d.window_minutes
                 /\ Number(v, "window_minutes", def) = d.window_minutes
                 /\ Number(d, "cooldown_minutes", def) = d.cooldown_minutes
                 /\ Number(v, "cooldown_minutes", def) = d.cooldown_minutes
    BY <1>2, <1>3, <2>3, Readings
  <2> QED
    BY <1>1, <2>1, <2>2 DEF Evaluated
<1>6. /\ r.match = MatchOf(d) /\ q.match = MatchOf(v)
      /\ r.threshold = Number(d, "threshold", 5) /\ q.threshold = Number(v, "threshold", 5)
      /\ r.group_by = Text(d, "group_by", "user") /\ q.group_by = Text(v, "group_by", "user")
      /\ r.join_on = Text(d, "join_on", "src_ip") /\ q.join_on = Text(v, "join_on", "src_ip")
  <2> HIDE DEF v
  <2> QED
    BY DEF Evaluated
<1>7. RulesAlike(r, q)
  <2>1. ASSUME d.type \in {"match", "threshold"} PROVE Alike(r.match, q.match)
    <3>1. AsStored(MatchOf(d)) /\ \A col \in DOMAIN MatchOf(d) : MatchOf(d)[col] \subseteq Values
      BY <2>1 DEF Spelled, WellFormed, FiltersOf
    <3>2. MatchOf(v) = CleanMatch(MatchOf(d))
      BY <1>1, <2>1 DEF MatchOf
    <3> HIDE DEF r, q, v
    <3> QED
      BY <1>6, <3>1, <3>2, CleanIsClean
  <2>2. ASSUME d.type = "threshold" PROVE r.threshold = q.threshold /\ r.group_by = q.group_by
    <3>1. Number(d, "threshold", 0) \in 1..MAX_THRESHOLD
      BY <2>2 DEF Accepted
    <3>2. "threshold" \in DOMAIN d /\ d.threshold # 0
      BY <3>1, WindowsAssumption DEF Number
    <3>3. {"threshold", "group_by"} \subseteq DOMAIN v /\ v.threshold = d.threshold
          /\ v.group_by = Text(d, "group_by", "user")
      BY <1>1, <2>2
    <3>4. Number(v, "threshold", 5) = d.threshold /\ Number(d, "threshold", 5) = d.threshold
      BY <3>2, <3>3, Readings
    <3>5. v.group_by # Blank
      BY <3>3, Readings DEF Blank
    <3>6. Text(v, "group_by", "user") = v.group_by
      BY <3>3, <3>5, Readings
    <3> HIDE DEF r, q, v
    <3> QED
      BY <1>6, <3>3, <3>4, <3>6
  <2>3. ASSUME d.type = "correlation"
        PROVE  /\ r.join_on = q.join_on
               /\ DOMAIN r.steps = 1..Len(r.steps) /\ Len(r.steps) \in Nat
               /\ DOMAIN q.steps = 1..Len(q.steps) /\ Len(q.steps) = Len(r.steps)
               /\ \A n \in DOMAIN r.steps : StepsAlike(r.steps[n], q.steps[n])
    <3>1. /\ {"join_on", "steps"} \subseteq DOMAIN v
          /\ v.join_on = Text(d, "join_on", "src_ip")
          /\ v.steps = [n \in DOMAIN d.steps |-> CleanStep(d.steps[n])]
      BY <1>1, <2>3
    <3>2. "steps" \in DOMAIN d /\ DOMAIN d.steps = 1..Len(d.steps) /\ Len(d.steps) \in Nat
          /\ \A n \in DOMAIN d.steps : /\ StepAccepted(d.steps[n]) /\ PlainStep(d.steps[n])
                                        /\ StepTyped(d.steps[n])
                                        /\ IsNumber(d.steps[n], "min_count")
      <4>1. \A n \in DOMAIN d.steps : StepTyped(d.steps[n]) /\ PlainStep(d.steps[n])
        BY <2>3 DEF WellFormed, Spelled, FiltersOf, EnrichesOf, StepTyped, PlainStep, PlainEnrich
      <4> QED
        BY <2>3, <4>1 DEF WellFormed, Accepted
    <3> HIDE DEF v
    <3>3. /\ r.steps = [n \in DOMAIN d.steps |-> StepRead(d.steps[n])]
          /\ q.steps = [n \in DOMAIN v.steps |-> StepRead(v.steps[n])]
      BY <3>1, <3>2 DEF Evaluated
    <3>4. \A n \in DOMAIN d.steps : StepsAlike(r.steps[n], q.steps[n])
      BY <3>1, <3>2, <3>3, CleanStepIsStep
    <3>5. DOMAIN r.steps = DOMAIN d.steps /\ DOMAIN q.steps = DOMAIN d.steps
      BY <3>1, <3>3
    <3>6. Len(r.steps) = Len(d.steps) /\ Len(q.steps) = Len(d.steps)
      BY <3>2, <3>5
    <3>7. v.join_on # Blank
      <4>1. "src_ip" # Blank
        BY DEF Blank
      <4>2. Text(d, "join_on", "src_ip") # Blank
        BY <4>1, Readings
      <4> QED
        BY <3>1, <4>2
    <3>8. Text(v, "join_on", "src_ip") = v.join_on
      BY <3>1, <3>7, Readings
    <3>9. r.join_on = q.join_on
      BY <1>6, <3>1, <3>8
    <3> QED
      BY <3>2, <3>4, <3>5, <3>6, <3>9
  <2> HIDE DEF r, q, v
  <2> QED
    BY <1>5, <2>1, <2>2, <2>3 DEF RulesAlike
<1>8. r.type \in TYPES
  BY <1>5 DEF WellFormed
<1>9. \A t, bad : Live(r, t, events, bad) = Live(q, t, events, bad)
  <2> HIDE DEF r, q, v
  <2> QED
    BY <1>7, <1>8, LiveAlike
<1>10. r.type = "correlation" => Asked(q) = Asked(r)
  <2> HIDE DEF r, q, v
  <2> SUFFICES ASSUME r.type = "correlation" PROVE Asked(q) = Asked(r)
    OBVIOUS
  <2>1. DOMAIN q.steps = DOMAIN r.steps /\ \A n \in DOMAIN r.steps : StepsAlike(r.steps[n], q.steps[n])
    BY <1>7 DEF RulesAlike
  <2> QED
    BY <2>1 DEF Asked, StepsAlike
<1> QED
  BY <1>1, <1>5, <1>9, <1>10 DEF SameHits

(* An operator who disables a rule and enables it again gets the same      *)
(* rule: set_rule_enabled stores what validation makes of the file, which  *)
(* is accepted again and evaluated alike for every table of events. So is  *)
(* a file written by hand that spells out what validation would fill in    *)
(* (rule_store.py:71-77, rule_validate.py:92-222).                         *)
THEOREM SwitchingIsHarmless == Spec => []SwitchKeepsHits
<1>1. SwitchKeepsHits
  <2> SUFFICES ASSUME NEW f \in Files, Accepted(f)
               PROVE  LET off == Switched(f, FALSE)
                          on == Switched(off, TRUE)
                      IN  /\ ~off.enabled /\ on.enabled
                          /\ Settled(f) => SameHits(off, on)
                          /\ Spelled(f) => SameHits(f, Switched(f, TRUE))
    BY DEF SwitchKeepsHits
  <2>1. WellFormed(f)
    BY FilesAssumption
  <2> DEFINE off == Switched(f, FALSE)
  <2>2. WellFormed(off) /\ Accepted(off) /\ off.enabled = FALSE /\ (Settled(f) => Spelled(off))
    BY <2>1, SwitchedIsSpelled
  <2>3. Switched(off, TRUE).enabled = TRUE
    <3> HIDE DEF off
    <3> QED
      BY <2>2, SwitchedFields
  <2> QED
    BY <2>1, <2>2, <2>3, SpelledIsKept
<1> QED
  BY <1>1, PTL
=============================================================================
