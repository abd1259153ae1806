--------------------------- MODULE RuleStore_proofs ---------------------------
(***************************************************************************)
(* What the rules directory keeps, for any number of requests, ids, files  *)
(* and crashes. Requests only ever write <id>.yml, so no id comes to have  *)
(* two files however they race. A file that is left empty was left by a    *)
(* crash, and without two requests at a time none is garbled either: the   *)
(* invariant says whose file an empty one is. A rule switched off stays    *)
(* off until it is switched on, and the directory implements the map from  *)
(* ids to rules of RuleDirectory.                                          *)
(***************************************************************************)
EXTENDS RuleStore, FiniteSetTheorems, TLAPS

Rule == [kind : {"rule"}, id : Ids, enabled : BOOLEAN, def : Defs \cup {MatchAll}]

Writing(c) == op[c].pc \in {"save", "write"}

OpType(p) ==
    /\ op[p].pc \in {"idle", "scan", "save", "write", "unlink"}
    /\ op[p].pc = "idle" => op[p] = Idle
    /\ op[p].pc = "scan" => /\ {"pc", "todo", "loaded"} \subseteq DOMAIN op[p]
                            /\ op[p].todo \subseteq DOMAIN Files
                            /\ \A x \in op[p].loaded : x[2] \in Rule
                            /\ p \in Clients => op[p].enabled \in BOOLEAN
    /\ Writing(p) => /\ {"pc", "file", "rule", "request"} \subseteq DOMAIN op[p]
                     /\ op[p].file \in FileSet /\ op[p].rule \in ValidRules
    /\ op[p].pc = "write" => op[p].linked \in BOOLEAN /\ "linked" \in DOMAIN op[p]
    /\ op[p].pc = "unlink" => op[p].file \in FileSet

Types ==
    /\ files \in [FileSet -> Contents]
    /\ DOMAIN op = Procs
    /\ \A p \in Procs : OpType(p)
    /\ clash \in BOOLEAN
    /\ evaluated \subseteq Rule
    /\ \A r \in evaluated : r.enabled

(* The hypothesis of OneFileAlways: the directory at start has <id>.yml.   *)
ShippedByName == \A f \in DOMAIN Shipped : f = Yml[Shipped[f].id]

LEMMA ValidRulesAre ==
  /\ ValidRules = [kind : {"rule"}, id : Ids, enabled : BOOLEAN, def : Defs]
  /\ \A r \in ValidRules : r \in Rule /\ r.kind = "rule"
<1>1. ASSUME NEW r \in ValidRules
      PROVE  r \in [kind : {"rule"}, id : Ids, enabled : BOOLEAN, def : Defs]
  BY DEF ValidRules, RuleOf
<1>2. ASSUME NEW r \in [kind : {"rule"}, id : Ids, enabled : BOOLEAN, def : Defs]
      PROVE  r \in ValidRules
  <2>1. r = RuleOf(r.id, r.enabled, r.def)
    BY DEF RuleOf
  <2> QED
    BY <2>1 DEF ValidRules
<1> QED
  BY <1>1, <1>2 DEF Rule

LEMMA TypesInit == Init => Types
<1> HAVE Init
<1>1. files \in [FileSet -> Contents]
  BY ShippedAssumption DEF Init, Contents
<1>2. \A p \in Procs : op[p] = Idle
  BY DEF Init
<1>3. ASSUME NEW p \in Procs PROVE OpType(p)
  BY <1>2 DEF OpType, Writing, Idle
<1> QED
  BY <1>1, <1>3 DEF Types, Init

(* A request or a pass begins in an idle process and concerns no other.    *)
LEMMA BeginOutcome ==
  ASSUME Types, NEW p \in Procs, NEW state, Begin(p, state)
  PROVE  /\ op[p] = Idle /\ op'[p] = state /\ DOMAIN op' = Procs
         /\ \A q \in Procs \ {p} : op'[q] = op[q]
         /\ clash' \in BOOLEAN
BY DEF Begin, Types

(* The type of an operation depends on its own record only.                *)
LEMMA OpTypeStays ==
  ASSUME Types, NEW p \in Procs, op'[p] = op[p]
  PROVE  OpType(p)'
BY DEF Types, OpType, Writing

LEMMA IdleTyped ==
  ASSUME NEW p \in Procs, op'[p] = Idle
  PROVE  OpType(p)'
BY DEF OpType, Writing, Idle

(* Whose turn it is.                                                       *)
Acts(p) ==
    \/ p \in Clients /\ Request(p)
    \/ p = Engine /\ (StartPass \/ EndPass)
    \/ Crash(p) \/ \E n \in DOMAIN Files : ReadFile(p, n) \/ ReadFails(p, n)

LEMMA WhoActs == [Next]_vars => UNCHANGED vars \/ \E p \in Procs : Acts(p)
BY DEF Next, Acts, Procs

LEMMA SaveType ==
  ASSUME Types, NEW c \in Clients, NEW rule \in ValidRules, NEW request,
         op'[c] = Saving(rule, request)
  PROVE  OpType(c)'
<1>1. Yml[rule.id] \in FileSet
  BY ValidRulesAre, FilesAssumption
<1> QED
  BY <1>1 DEF OpType, Writing, Saving

(* A step of a process keeps its own operation well-typed, and changes that*)
(* of another only by unlinking the file under it.                         *)
LEMMA OwnStep ==
  ASSUME Types, NEW p \in Procs, Acts(p)
  PROVE  OpType(p)' /\ DOMAIN op' = Procs
<1> USE DEF Procs
<1>1. ASSUME p \in Clients, NEW rule \in ValidRules, NEW overwrite \in BOOLEAN,
             SaveRule(p, rule, overwrite)
      PROVE  OpType(p)' /\ DOMAIN op' = Procs
  <2>1. PICK request : Begin(p, Saving(rule, request))
    BY <1>1 DEF SaveRule
  <2> QED
    BY <1>1, <2>1, BeginOutcome, SaveType
<1>2. ASSUME p \in Clients, OpenFile(p) PROVE OpType(p)' /\ DOMAIN op' = Procs
  BY <1>2 DEF OpenFile, Types, OpType, Writing
<1>3. ASSUME p \in Clients, CloseFile(p) PROVE OpType(p)' /\ DOMAIN op' = Procs
  <2>1. op' = [op EXCEPT ![p] = Idle]
    BY <1>3 DEF CloseFile
  <2> QED
    BY <2>1, IdleTyped DEF Types
<1>4. ASSUME p \in Clients, NEW id \in Ids, StartDelete(p, id)
      PROVE  OpType(p)' /\ DOMAIN op' = Procs
  <2>1. PICK f \in {Yml[id], Yaml[id]} : Begin(p, [pc |-> "unlink", file |-> f, id |-> id])
    BY <1>4 DEF StartDelete
  <2>2. f \in FileSet
    BY FilesAssumption
  <2> QED
    BY <2>1, <2>2, BeginOutcome DEF OpType, Writing
<1>5. ASSUME p \in Clients, Unlink(p) PROVE OpType(p)' /\ DOMAIN op' = Procs
  <2>1. op'[p] = Idle /\ DOMAIN op' = Procs
    BY <1>5 DEF Unlink
  <2> QED
    BY <2>1, IdleTyped
<1>6. ASSUME p \in Clients, NEW id \in Ids, NEW enabled \in BOOLEAN,
             StartToggle(p, id, enabled)
      PROVE  OpType(p)' /\ DOMAIN op' = Procs
  BY <1>6, BeginOutcome DEF StartToggle, Listing, OpType, Writing
<1>7. ASSUME p \in Clients, EndToggle(p) PROVE OpType(p)' /\ DOMAIN op' = Procs
  <2>1. CASE op' = [op EXCEPT ![p] = Idle]
    BY <2>1, IdleTyped DEF Types
  <2>2. ASSUME NEW r \in Found(p), r.def # MatchAll,
               op' = [op EXCEPT ![p] = Saving(RuleOf(r.id, op[p].enabled, r.def), "toggle")]
        PROVE  OpType(p)' /\ DOMAIN op' = Procs
    <3>1. r \in Rule /\ op[p].enabled \in BOOLEAN
      BY <1>7 DEF Found, EndToggle, Types, OpType
    <3>2. RuleOf(r.id, op[p].enabled, r.def) \in ValidRules
      BY <2>2, <3>1 DEF Rule, ValidRules
    <3> QED
      BY <1>7, <2>2, <3>2, SaveType DEF Types
  <2> QED
    BY <1>7, <2>1, <2>2 DEF EndToggle
<1>8. CASE p = Engine /\ StartPass
  BY <1>8, BeginOutcome, EngineAssumption DEF StartPass, Listing, OpType, Writing
<1>9. CASE p = Engine /\ EndPass
  BY <1>9, IdleTyped DEF EndPass, Types
<1>10. ASSUME NEW n \in DOMAIN Files, ReadFile(p, n)
       PROVE  OpType(p)' /\ DOMAIN op' = Procs
  <2>1. /\ op[p].pc = "scan" /\ op'[p].pc = "scan" /\ DOMAIN op' = Procs
        /\ op'[p].todo = op[p].todo \ {n}
        /\ op'[p].loaded = op[p].loaded \cup {<<n, Parsed(Files[n])>>}
        /\ DOMAIN op'[p] = DOMAIN op[p]
        /\ p \in Clients => op'[p].enabled = op[p].enabled
    BY <1>10 DEF ReadFile, Upcoming, Types, OpType
  <2>2. Parsed(Files[n]) \in Rule
    <3>1. Files[n] \in FileSet /\ files[Files[n]] \in ValidRules \cup {Empty}
      BY <1>10 DEF FileSet, ReadFile, Types, Contents
    <3> QED
      BY <3>1, ValidRulesAre, FilesAssumption DEF Parsed, RuleOf, Rule, Empty
  <2> QED
    BY <2>1, <2>2 DEF Types, OpType, Writing
<1>11. ASSUME NEW n \in DOMAIN Files, ReadFails(p, n)
       PROVE  OpType(p)' /\ DOMAIN op' = Procs
  BY <1>11, IdleTyped DEF ReadFails, Types
<1>12. CASE Crash(p)
  BY <1>12, IdleTyped DEF Crash, Types
<1> QED
  BY <1>1, <1>2, <1>3, <1>4, <1>5, <1>6, <1>7, <1>8, <1>9, <1>10, <1>11, <1>12
     DEF Acts, Request

(* What a step does to the operations of others.                           *)
Unlinked(q, f) ==
    op[q].pc = "write" /\ op[q].file = f /\ op'[q] = [op[q] EXCEPT !.linked = FALSE]

LEMMA OthersStep ==
  ASSUME Types, NEW p \in Procs, Acts(p), NEW q \in Procs \ {p}
  PROVE  \/ op'[q] = op[q]
         \/ p \in Clients /\ Unlink(p) /\ Unlinked(q, op[p].file)
<1> USE DEF Procs
<1>1. ASSUME NEW state, Begin(p, state) PROVE op'[q] = op[q]
  BY <1>1, BeginOutcome
<1>2. ASSUME p \in Clients, Unlink(p)
      PROVE  op'[q] = op[q] \/ Unlinked(q, op[p].file)
  BY <1>2 DEF Unlink, Unlinked
<1>3. ASSUME p \in Clients, OpenFile(p) \/ CloseFile(p) PROVE op'[q] = op[q]
  BY <1>3 DEF OpenFile, CloseFile, Types
<1>4. ASSUME p \in Clients, EndToggle(p) PROVE op'[q] = op[q]
  BY <1>4 DEF EndToggle, Types
<1>5. CASE p = Engine /\ EndPass
  BY <1>5 DEF EndPass, Types
<1>6. ASSUME NEW n \in DOMAIN Files, ReadFile(p, n) \/ ReadFails(p, n)
      PROVE  op'[q] = op[q]
  BY <1>6 DEF ReadFile, ReadFails, Types
<1>7. CASE Crash(p)
  BY <1>7 DEF Crash, Types
<1>8. ASSUME p \in Clients, NEW rule \in ValidRules, NEW overwrite \in BOOLEAN,
             SaveRule(p, rule, overwrite)
      PROVE  op'[q] = op[q]
  BY <1>1, <1>8 DEF SaveRule
<1>9. ASSUME p \in Clients, NEW id \in Ids, StartDelete(p, id) PROVE op'[q] = op[q]
  BY <1>1, <1>9 DEF StartDelete
<1>10. ASSUME p \in Clients, NEW id \in Ids, NEW enabled \in BOOLEAN, StartToggle(p, id, enabled)
       PROVE  op'[q] = op[q]
  BY <1>1, <1>10 DEF StartToggle
<1>11. CASE p = Engine /\ StartPass
  BY <1>1, <1>11 DEF StartPass
<1> QED
  BY <1>2, <1>3, <1>4, <1>5, <1>6, <1>7, <1>8, <1>9, <1>10, <1>11 DEF Acts, Request

LEMMA UnlinkedTyped ==
  ASSUME Types, NEW q \in Procs, NEW f, Unlinked(q, f)
  PROVE  OpType(q)'
<1>1. /\ op[q].pc = "write"
      /\ {"pc", "file", "rule", "request", "linked"} \subseteq DOMAIN op[q]
      /\ op[q].file \in FileSet /\ op[q].rule \in ValidRules
  BY DEF Types, OpType, Writing, Unlinked
<1>2. op'[q] = [op[q] EXCEPT !.linked = FALSE]
  BY DEF Unlinked
<1>3. /\ op'[q].pc = "write" /\ op'[q].file = op[q].file /\ op'[q].rule = op[q].rule
      /\ op'[q].linked = FALSE /\ DOMAIN op'[q] = DOMAIN op[q]
  BY <1>1, <1>2
<1> QED
  BY <1>1, <1>3 DEF OpType, Writing

(* What a step does to the files: requests open, close and unlink them.    *)
LEMMA FilesStep ==
  ASSUME Types, NEW p \in Procs, Acts(p)
  PROVE  \/ files' = files
         \/ p \in Clients /\ OpenFile(p) /\ files' = [files EXCEPT ![op[p].file] = Empty]
         \/ /\ p \in Clients /\ CloseFile(p) /\ op[p].linked
            /\ \/ files' = [files EXCEPT ![op[p].file] = op[p].rule]
               \/ files[op[p].file] # Empty /\ files' = [files EXCEPT ![op[p].file] = Garbled]
         \/ p \in Clients /\ Unlink(p) /\ files' = [files EXCEPT ![op[p].file] = Absent]
<1>1. ASSUME p \in Clients, CloseFile(p)
      PROVE  \/ files' = files
             \/ /\ op[p].linked
                /\ \/ files' = [files EXCEPT ![op[p].file] = op[p].rule]
                   \/ files[op[p].file] # Empty /\ files' = [files EXCEPT ![op[p].file] = Garbled]
  BY <1>1 DEF CloseFile
<1>2. ASSUME p \in Clients, OpenFile(p) PROVE files' = [files EXCEPT ![op[p].file] = Empty]
  BY <1>2 DEF OpenFile
<1>3. ASSUME p \in Clients, Unlink(p) PROVE files' = [files EXCEPT ![op[p].file] = Absent]
  BY <1>3 DEF Unlink
<1>4. ASSUME p \in Clients, EndToggle(p) PROVE files' = files
  BY <1>4 DEF EndToggle
<1>5. CASE p = Engine /\ (StartPass \/ EndPass)
  BY <1>5 DEF StartPass, EndPass
<1>6. ASSUME NEW n \in DOMAIN Files, ReadFile(p, n) \/ ReadFails(p, n) PROVE files' = files
  BY <1>6 DEF ReadFile, ReadFails
<1>7. CASE Crash(p)
  BY <1>7 DEF Crash
<1>8. ASSUME p \in Clients, NEW rule \in ValidRules, NEW overwrite \in BOOLEAN,
             SaveRule(p, rule, overwrite)
      PROVE  files' = files
  BY <1>8 DEF SaveRule
<1>9. ASSUME p \in Clients, NEW id \in Ids, StartDelete(p, id) PROVE files' = files
  BY <1>9 DEF StartDelete
<1>10. ASSUME p \in Clients, NEW id \in Ids, NEW enabled \in BOOLEAN, StartToggle(p, id, enabled)
       PROVE  files' = files
  BY <1>10 DEF StartToggle
<1> QED
  BY <1>1, <1>2, <1>3, <1>4, <1>5, <1>6, <1>7, <1>8, <1>9, <1>10 DEF Acts, Request

LEMMA RestOfTypes ==
  ASSUME Types, NEW p \in Procs, Acts(p)
  PROVE  clash' \in BOOLEAN /\ evaluated' \subseteq Rule /\ \A r \in evaluated' : r.enabled
<1> USE DEF Types
<1>1. ASSUME NEW state, Begin(p, state), evaluated' = evaluated
      PROVE  clash' \in BOOLEAN /\ evaluated' \subseteq Rule /\ \A r \in evaluated' : r.enabled
  BY <1>1, BeginOutcome
<1>2. ASSUME p \in Clients, OpenFile(p) \/ CloseFile(p) \/ Unlink(p) \/ EndToggle(p)
      PROVE  clash' = clash /\ evaluated' = evaluated
  BY <1>2 DEF OpenFile, CloseFile, Unlink, EndToggle
<1>3. CASE p = Engine /\ EndPass
  <2>1. clash' = clash /\ evaluated' = { r \in { x[2] : x \in op[Engine].loaded } : r.enabled }
    BY <1>3 DEF EndPass
  <2>2. \A x \in op[Engine].loaded : x[2] \in Rule
    BY <1>3 DEF EndPass, OpType, Procs
  <2> QED
    BY <2>1, <2>2
<1>4. ASSUME NEW n \in DOMAIN Files, ReadFile(p, n) \/ ReadFails(p, n)
      PROVE  clash' = clash /\ evaluated' = evaluated
  BY <1>4 DEF ReadFile, ReadFails
<1>5. CASE Crash(p)
  BY <1>5 DEF Crash
<1>6. ASSUME p \in Clients, NEW rule \in ValidRules, NEW overwrite \in BOOLEAN,
             SaveRule(p, rule, overwrite)
      PROVE  evaluated' = evaluated /\ \E state : Begin(p, state)
  BY <1>6 DEF SaveRule
<1>7. ASSUME p \in Clients, NEW id \in Ids, StartDelete(p, id)
      PROVE  evaluated' = evaluated /\ \E state : Begin(p, state)
  BY <1>7 DEF StartDelete
<1>8. ASSUME p \in Clients, NEW id \in Ids, NEW enabled \in BOOLEAN, StartToggle(p, id, enabled)
      PROVE  evaluated' = evaluated /\ \E state : Begin(p, state)
  BY <1>8 DEF StartToggle
<1>9. CASE p = Engine /\ StartPass
  BY <1>1, <1>9 DEF StartPass
<1> QED
  BY <1>1, <1>2, <1>3, <1>4, <1>5, <1>6, <1>7, <1>8, <1>9 DEF Acts, Request

LEMMA TypesStep ==
  ASSUME Types, [Next]_vars
  PROVE  Types'
<1>1. CASE UNCHANGED vars
  <2>1. \A p \in Procs : OpType(p)'
    BY <1>1, OpTypeStays DEF vars
  <2> QED
    BY <1>1, <2>1 DEF Types, vars
<1>2. ASSUME NEW p \in Procs, Acts(p) PROVE Types'
  <2>1. files' \in [FileSet -> Contents]
    <3>1. \A q \in Procs : Writing(q) \/ op[q].pc = "unlink" => op[q].file \in FileSet
      BY DEF Types, OpType
    <3>2. ASSUME p \in Clients, OpenFile(p) \/ CloseFile(p)
          PROVE  op[p].file \in FileSet /\ op[p].rule \in ValidRules
      BY <3>2 DEF OpenFile, CloseFile, Types, OpType, Writing
    <3>3. ASSUME p \in Clients, Unlink(p) PROVE op[p].file \in FileSet
      BY <3>1, <3>3 DEF Unlink
    <3> QED
      BY <1>2, <3>2, <3>3, FilesStep DEF Types, Contents
  <2>2. ASSUME NEW q \in Procs PROVE OpType(q)'
    BY <1>2, OwnStep, OthersStep, OpTypeStays, UnlinkedTyped
  <2> QED
    BY <1>2, <2>1, <2>2, OwnStep, RestOfTypes DEF Types
<1> QED
  BY <1>1, <1>2, WhoActs

(* Every request and every file stay of their types, the parts of a request*)
(* that TypeOK leaves out included (rule_store.py:14-77).                  *)
THEOREM InvariantTypes == Spec => []Types
  BY TypesInit, TypesStep, PTL DEF Spec

(* The declared types hold of every reachable directory.                   *)
THEOREM TypeCorrect == Spec => []TypeOK
<1>1. Types => TypeOK
  BY DEF Types, TypeOK, OpType, Rule
<1> QED
  BY InvariantTypes, <1>1, PTL

-----------------------------------------------------------------------------
(* Where the rules go.                                                     *)
ByName ==
    /\ \A f \in FileSet : files[f].kind = "rule" => f = Yml[files[f].id]
    /\ \A c \in Clients : Writing(c) => op[c].file = Yml[op[c].rule.id]

LEMMA WriterIsByName ==
  ASSUME Types, ByName, NEW c \in Clients, Acts(c), Writing(c)'
  PROVE  op'[c].file = Yml[op'[c].rule.id]
<1>0. c # Engine /\ c \in Procs
  BY EngineAssumption DEF Procs
<1>1. ASSUME NEW rule \in ValidRules, NEW overwrite \in BOOLEAN, SaveRule(c, rule, overwrite)
      PROVE  op'[c].file = Yml[op'[c].rule.id]
  BY <1>0, <1>1 DEF SaveRule, Begin, Saving, Types
<1>2. ASSUME OpenFile(c) PROVE op'[c].file = Yml[op'[c].rule.id]
  BY <1>0, <1>2 DEF OpenFile, ByName, Writing, Types
<1>3. ASSUME op'[c] = Idle PROVE FALSE
  BY <1>3 DEF Writing, Idle
<1>4. ASSUME CloseFile(c) PROVE op'[c] = Idle
  BY <1>0, <1>4 DEF CloseFile, Types
<1>5. ASSUME NEW id \in Ids, StartDelete(c, id) PROVE FALSE
  BY <1>0, <1>5 DEF StartDelete, Begin, Types, Writing
<1>6. ASSUME Unlink(c) PROVE op'[c] = Idle
  BY <1>0, <1>6 DEF Unlink
<1>7. ASSUME NEW id \in Ids, NEW enabled \in BOOLEAN, StartToggle(c, id, enabled) PROVE FALSE
  BY <1>0, <1>7 DEF StartToggle, Begin, Types, Writing
<1>8. ASSUME EndToggle(c) PROVE op'[c] = Idle \/ op'[c].file = Yml[op'[c].rule.id]
  BY <1>0, <1>8 DEF EndToggle, Saving, Types
<1>9. ASSUME NEW n \in DOMAIN Files, ReadFile(c, n) PROVE FALSE
  BY <1>0, <1>9 DEF ReadFile, Upcoming, Types, OpType, Writing
<1>10. ASSUME NEW n \in DOMAIN Files, ReadFails(c, n) PROVE op'[c] = Idle
  BY <1>0, <1>10 DEF ReadFails, Types
<1>11. CASE Crash(c)
  BY <1>0, <1>11, <1>3 DEF Crash, Types
<1> QED
  BY <1>0, <1>1, <1>2, <1>3, <1>4, <1>5, <1>6, <1>7, <1>8, <1>9, <1>10, <1>11
     DEF Acts, Request

LEMMA ByNameStep ==
  ASSUME Types, ByName, [Next]_vars
  PROVE  ByName'
<1>1. CASE UNCHANGED vars
  BY <1>1 DEF vars, ByName, Writing
<1>2. ASSUME NEW p \in Procs, Acts(p) PROVE ByName'
  <2>1. ASSUME NEW c \in Clients, Writing(c)' PROVE op'[c].file = Yml[op'[c].rule.id]
    <3>1. CASE c = p
      BY <1>2, <2>1, <3>1, WriterIsByName
    <3>2. CASE op'[c] = op[c]
      BY <2>1, <3>2 DEF ByName, Writing
    <3>3. ASSUME Unlinked(c, op[p].file)
          PROVE  /\ Writing(c) /\ op'[c].file = op[c].file /\ op'[c].rule = op[c].rule
      <4>1. op[c].pc = "write" /\ {"pc", "file", "rule", "request", "linked"} \subseteq DOMAIN op[c]
        BY <3>3 DEF Unlinked, Types, OpType, Writing, Procs
      <4> QED
        BY <3>3, <4>1 DEF Unlinked, Writing
    <3> QED
      BY <1>2, <3>1, <3>2, <3>3, OthersStep DEF ByName, Procs
  <2>2. ASSUME NEW f \in FileSet, files'[f].kind = "rule" PROVE f = Yml[files'[f].id]
    <3>1. CASE files'[f] = files[f]
      BY <2>2, <3>1 DEF ByName
    <3>2. CASE files'[f] # files[f]
      <4>1. \/ files'[f] \in {Empty, Absent, Garbled}
            \/ p \in Clients /\ CloseFile(p) /\ f = op[p].file /\ files'[f] = op[p].rule
        BY <1>2, <3>2, FilesStep DEF Types
      <4>2. p \in Clients /\ Writing(p) /\ f = op[p].file /\ files'[f] = op[p].rule
        BY <2>2, <4>1 DEF Empty, Absent, Garbled, CloseFile, Writing
      <4> QED
        BY <4>2 DEF ByName
    <3> QED
      BY <3>1, <3>2
  <2> QED
    BY <2>1, <2>2 DEF ByName
<1> QED
  BY <1>1, <1>2, WhoActs

(* No id comes to be declared by two files, whatever requests race, if the *)
(* directory starts with files named after their ids (rule_store.py:49).   *)
THEOREM OneFileAlways ==
  ASSUME ShippedByName
  PROVE  Spec => []OneFilePerId
<1>1. Init => Types /\ ByName
  BY TypesInit, ShippedByName DEF Init, ByName, ShippedByName, Writing, Idle, Absent, Procs
<1>2. Types /\ ByName /\ [Next]_vars => (Types /\ ByName)'
  BY TypesStep, ByNameStep
<1>3. Types /\ ByName => OneFilePerId
  BY DEF ByName, OneFilePerId
<1> QED
  BY <1>1, <1>2, <1>3, PTL DEF Spec

-----------------------------------------------------------------------------
(* Empty files.                                                            *)
Mine(c, f) == op[c].pc = "write" /\ op[c].file = f /\ op[c].linked

LEMMA StrandedIs ==
  Stranded = { f \in FileSet : files[f] = Empty /\ \A c \in Clients : ~Mine(c, f) }
BY DEF Stranded, Mine

(* Once it has truncated its file, a request completes it or is cut.       *)
LEMMA WriterActs ==
  ASSUME Types, NEW c \in Clients, op[c].pc = "write", Acts(c)
  PROVE  CloseFile(c) \/ Crash(c)
BY EngineAssumption
   DEF Acts, Request, SaveRule, Begin, Idle, OpenFile, StartDelete, Unlink, StartToggle,
       EndToggle, ReadFile, ReadFails, Upcoming

LEMMA WriteCompletes ==
  ASSUME Types, NEW c \in Clients, NEW f \in FileSet, Mine(c, f), CloseFile(c)
  PROVE  files'[f] # Empty
<1>1. /\ op[c].rule # Empty /\ files' \in [FileSet -> Contents]
      /\ op[c].rule \in ValidRules
  BY ValidRulesAre DEF Types, OpType, Writing, Mine, Empty, CloseFile, Procs, Contents
<1> QED
  BY <1>1 DEF CloseFile, Mine, Types, Garbled, Empty

(* A step strands a file only by cutting the request that was writing it.  *)
LEMMA StrandedStep ==
  ASSUME Types, NEW p \in Procs, Acts(p), NEW f \in FileSet, f \in Stranded', f \notin Stranded
  PROVE  Crash(p) /\ f = op[p].file
<1>1. files'[f] = Empty /\ \A c \in Clients : ~Mine(c, f)'
  BY DEF Stranded, Mine
<1>2. CASE files[f] # Empty
  <2>1. p \in Clients /\ OpenFile(p) /\ f = op[p].file
    BY <1>1, <1>2, FilesStep, ValidRulesAre
       DEF Types, OpType, Writing, CloseFile, Absent, Garbled, Empty
  <2>2. Mine(p, f)'
    BY <2>1 DEF OpenFile, Mine, Types
  <2> QED
    BY <1>1, <2>1, <2>2
<1>3. CASE files[f] = Empty
  <2>1. PICK c \in Clients : Mine(c, f)
    BY <1>3, StrandedIs
  <2>2. CASE c = p
    BY <1>1, <2>1, <2>2, WriterActs, WriteCompletes DEF Mine
  <2>3. CASE c # p
    <3>1. op'[c] # op[c]
      BY <1>1, <2>1 DEF Mine
    <3>2. p \in Clients /\ Unlink(p) /\ f = op[p].file
      BY <2>1, <2>3, <3>1, OthersStep DEF Unlinked, Mine, Procs
    <3>3. files'[f] = Absent
      BY <3>2 DEF Unlink, Types
    <3> QED
      BY <1>1, <3>3 DEF Absent, Empty
  <2> QED
    BY <2>2, <2>3
<1> QED
  BY <1>2, <1>3

LEMMA CrashesCounted ==
  ASSUME [Next]_vars
  PROVE  \/ crashes' = crashes
         \/ \E p \in Procs : Crash(p) /\ crashes' = crashes + 1
<1>1. ASSUME NEW p \in Procs, Acts(p), ~Crash(p) PROVE crashes' = crashes
  <2>1. ASSUME p \in Clients, Request(p) PROVE crashes' = crashes
    BY <2>1 DEF Request, SaveRule, OpenFile, CloseFile, StartDelete, Unlink, StartToggle, EndToggle
  <2>2. ASSUME NEW n \in DOMAIN Files, ReadFile(p, n) \/ ReadFails(p, n)
        PROVE  crashes' = crashes
    BY <2>2 DEF ReadFile, ReadFails
  <2>3. CASE StartPass \/ EndPass
    BY <2>3 DEF StartPass, EndPass
  <2> QED
    BY <1>1, <2>1, <2>2, <2>3 DEF Acts
<1>2. ASSUME NEW p \in Procs, Crash(p) PROVE crashes' = crashes + 1
  BY <1>2 DEF Crash
<1> QED
  BY <1>1, <1>2, WhoActs DEF vars

FewStranded == crashes \in Nat /\ IsFiniteSet(Stranded) /\ Cardinality(Stranded) <= crashes

LEMMA FewStrandedStep ==
  ASSUME Types, FewStranded, [Next]_vars
  PROVE  FewStranded'
<1>0. Stranded' \subseteq FileSet /\ Stranded \subseteq FileSet
  BY DEF Stranded
<1>1. ASSUME Stranded' \subseteq Stranded PROVE FewStranded'
  <2>1. IsFiniteSet(Stranded') /\ Cardinality(Stranded') <= Cardinality(Stranded)
    BY <1>1, FS_Subset DEF FewStranded
  <2>2. Cardinality(Stranded) \in Nat /\ Cardinality(Stranded') \in Nat
    BY <2>1, FS_CardinalityType DEF FewStranded
  <2> QED
    BY <2>1, <2>2, CrashesCounted DEF FewStranded
<1>2. ASSUME NEW p \in Procs, Crash(p) PROVE FewStranded'
  <2> DEFINE S == Stranded \cup {op[p].file}
  <2>1. Acts(p) /\ crashes' = crashes + 1
    BY <1>2 DEF Acts, Crash
  <2>2. Stranded' \subseteq S
    BY <1>0, <2>1, StrandedStep
  <2>3. IsFiniteSet(S) /\ Cardinality(S) <= Cardinality(Stranded) + 1
    <3>1. IsFiniteSet(Stranded) /\ Cardinality(Stranded) \in Nat
      BY FS_CardinalityType DEF FewStranded
    <3>2. /\ IsFiniteSet(S)
          /\ Cardinality(S) = IF op[p].file \in Stranded THEN Cardinality(Stranded)
                              ELSE Cardinality(Stranded) + 1
      BY <3>1, FS_AddElement
    <3> QED
      BY <3>1, <3>2
  <2>4. IsFiniteSet(Stranded') /\ Cardinality(Stranded') <= Cardinality(S)
    BY <2>2, <2>3, FS_Subset
  <2>5. /\ Cardinality(S) \in Nat /\ Cardinality(Stranded') \in Nat
        /\ Cardinality(Stranded) \in Nat
    BY <2>3, <2>4, FS_CardinalityType DEF FewStranded
  <2> QED
    BY <2>1, <2>3, <2>4, <2>5 DEF FewStranded
<1>3. CASE UNCHANGED vars
  BY <1>1, <1>3 DEF Stranded, vars
<1>4. ASSUME NEW p \in Procs, Acts(p), ~Crash(p) PROVE Stranded' \subseteq Stranded
  BY <1>0, <1>4, StrandedStep
<1> QED
  BY <1>1, <1>2, <1>3, <1>4, WhoActs

(* While no two requests have overlapped and none was cut: at most one is  *)
(* going on, and what is empty is what it is writing.                      *)
Quiet ==
    ~clash =>
      /\ \A c, d \in Clients : op[c] # Idle /\ op[d] # Idle => c = d
      /\ \A f \in FileSet : files[f] # Garbled /\ (files[f] = Empty => \E c \in Clients : Mine(c, f))
      /\ \A c \in Clients : op[c].pc = "write" => files[op[c].file] = Empty

LEMMA QuietBegin ==
  ASSUME Types, Quiet, ~clash', NEW p \in Procs, NEW state, Begin(p, state), files' = files,
         state.pc # "write"
  PROVE  Quiet'
<1>1. ~clash /\ (p \in Clients => \A c \in Clients : op[c] = Idle)
  BY DEF Begin, Types
<1>2. op'[p] = state /\ \A q \in Procs \ {p} : op'[q] = op[q]
  BY BeginOutcome
<1>3. ASSUME NEW f \in FileSet, files[f] = Empty PROVE \E c \in Clients : Mine(c, f)'
  <2>1. PICK c \in Clients : Mine(c, f)
    BY <1>1, <1>3 DEF Quiet
  <2>2. op[c] # Idle /\ p \notin Clients
    BY <1>1, <2>1 DEF Mine, Idle
  <2> QED
    BY <1>2, <2>1, <2>2 DEF Mine, Procs
<1> QED
  BY <1>1, <1>2, <1>3 DEF Quiet, Procs

(* A step of the one request there is, that ends it or takes it on.        *)
LEMMA QuietOwn ==
  ASSUME Types, Quiet, ~clash', clash' = clash, NEW c \in Clients, op[c] # Idle,
         \A d \in Clients \ {c} : op'[d] = op[d],
         op'[c].pc # "write",
         \/ op[c].pc # "write" /\ files' = files
         \/ \E content \in Contents \ {Empty, Garbled} :
               files' = [files EXCEPT ![op[c].file] = content]
  PROVE  Quiet'
<1>1. \A d \in Clients \ {c} : op[d] = Idle /\ op'[d] = Idle
  BY DEF Quiet
<1>2. \A d \in Clients : op'[d].pc # "write"
  BY <1>1 DEF Idle
<1>3. \A f \in FileSet : files[f] = Empty => op[c].pc = "write" /\ f = op[c].file
  BY <1>1 DEF Quiet, Mine, Idle
<1>4. \A f \in FileSet : files'[f] \notin {Empty, Garbled}
  BY <1>3 DEF Quiet, Types
<1> QED
  BY <1>1, <1>2, <1>4 DEF Quiet

LEMMA QuietStep ==
  ASSUME Types, Quiet, [Next]_vars
  PROVE  Quiet'
<1> SUFFICES ASSUME ~clash' PROVE Quiet'
  BY DEF Quiet
<1>1. CASE UNCHANGED vars
  BY <1>1 DEF vars, Quiet, Mine
<1>2. ASSUME NEW p \in Clients, NEW rule \in ValidRules, NEW overwrite \in BOOLEAN,
             SaveRule(p, rule, overwrite)
      PROVE  Quiet'
  <2>1. PICK request : Begin(p, Saving(rule, request))
    BY <1>2 DEF SaveRule
  <2>2. files' = files /\ Saving(rule, request).pc # "write" /\ p \in Procs
    BY <1>2 DEF SaveRule, Saving, Procs
  <2> QED
    BY <2>1, <2>2, QuietBegin
<1>3. ASSUME NEW p \in Clients, OpenFile(p) PROVE Quiet'
  <2>1. /\ op[p].pc = "save" /\ clash' = clash /\ op[p].file \in FileSet
        /\ files' = [files EXCEPT ![op[p].file] = Empty] /\ Mine(p, op[p].file)'
        /\ \A d \in Clients \ {p} : op'[d] = op[d]
        /\ op'[p].file = op[p].file
    BY <1>3 DEF OpenFile, Mine, Types, OpType, Writing, Procs
  <2>2. \A d \in Clients \ {p} : op[d] = Idle /\ op'[d] = Idle
    BY <2>1 DEF Quiet, Idle
  <2>3. \A f \in FileSet : files[f] \notin {Empty, Garbled}
    BY <2>1, <2>2 DEF Quiet, Mine, Idle
  <2>4. \A f \in FileSet : files'[f] # Garbled /\ (files'[f] = Empty => f = op[p].file)
    BY <2>1, <2>3 DEF Types, Empty, Garbled
  <2>5. files'[op[p].file] = Empty
    BY <2>1 DEF Types
  <2> QED
    BY <2>1, <2>2, <2>4, <2>5 DEF Quiet, Idle
<1>4. ASSUME NEW p \in Clients, CloseFile(p) PROVE Quiet'
  <2>1. /\ op[p].pc = "write" /\ clash' = clash /\ op' = [op EXCEPT ![p] = Idle]
        /\ op[p].file \in FileSet /\ op[p].rule \in ValidRules
    BY <1>4 DEF CloseFile, Types, OpType, Writing, Procs
  <2>2. op[p] # Idle /\ op'[p].pc # "write" /\ \A d \in Clients \ {p} : op'[d] = op[d]
    BY <2>1 DEF Idle, Types, Procs
  <2>3. files[op[p].file] = Empty /\ op[p].linked
    BY <2>1, <2>2 DEF Quiet, Mine, Idle
  <2>4. files' = [files EXCEPT ![op[p].file] = op[p].rule]
    BY <1>4, <2>3 DEF CloseFile
  <2>5. op[p].rule \in Contents \ {Empty, Garbled}
    BY <2>1, ValidRulesAre DEF Contents, Empty, Garbled
  <2> QED
    BY <2>1, <2>2, <2>4, <2>5, QuietOwn
<1>5. ASSUME NEW p \in Clients, NEW id \in Ids, StartDelete(p, id) PROVE Quiet'
  <2>1. PICK f : Begin(p, [pc |-> "unlink", file |-> f, id |-> id])
    BY <1>5 DEF StartDelete
  <2> QED
    BY <1>5, <2>1, QuietBegin DEF StartDelete, Procs
<1>6. ASSUME NEW p \in Clients, Unlink(p) PROVE Quiet'
  <2>1. /\ op[p].pc = "unlink" /\ op[p] # Idle /\ clash' = clash /\ op'[p] = Idle
        /\ files' = [files EXCEPT ![op[p].file] = Absent]
    BY <1>6 DEF Unlink, Procs, Idle
  <2>2. \A d \in Clients \ {p} : op[d] = Idle
    BY <2>1 DEF Quiet
  <2>3. \A d \in Clients \ {p} : op'[d] = op[d]
    BY <1>6, <2>2 DEF Unlink, Procs, Idle
  <2>4. Absent \in Contents \ {Empty, Garbled} /\ op'[p].pc # "write"
    BY <2>1 DEF Contents, Absent, Empty, Garbled, Idle
  <2> QED
    BY <2>1, <2>3, <2>4, QuietOwn
<1>7. ASSUME NEW p \in Clients, NEW id \in Ids, NEW enabled \in BOOLEAN,
             StartToggle(p, id, enabled)
      PROVE  Quiet'
  BY <1>7, QuietBegin DEF StartToggle, Procs
<1>8. ASSUME NEW p \in Clients, EndToggle(p) PROVE Quiet'
  <2>1. /\ op[p].pc = "scan" /\ op[p] # Idle /\ clash' = clash /\ files' = files
        /\ op'[p].pc # "write" /\ \A d \in Clients \ {p} : op'[d] = op[d]
    BY <1>8 DEF EndToggle, Idle, Saving, Types, Procs
  <2> QED
    BY <2>1, QuietOwn
<1>9. CASE StartPass
  BY <1>9, QuietBegin DEF StartPass, Procs
<1>10. CASE EndPass
  BY <1>10, EngineAssumption DEF EndPass, Quiet, Mine, Types
<1>11. ASSUME NEW n \in DOMAIN Files, ReadFile(Engine, n) \/ ReadFails(Engine, n) PROVE Quiet'
  <2>1. /\ clash' = clash /\ files' = files
        /\ \A d \in Clients : op'[d] = op[d]
    BY <1>11, EngineAssumption DEF ReadFile, ReadFails, Types, Procs
  <2> QED
    BY <2>1 DEF Quiet, Mine
<1>12. ASSUME NEW p \in Clients, NEW n \in DOMAIN Files, ReadFile(p, n) \/ ReadFails(p, n)
       PROVE  Quiet'
  <2>1. /\ op[p].pc = "scan" /\ op[p] # Idle /\ clash' = clash /\ files' = files
    BY <1>12 DEF ReadFile, ReadFails, Upcoming, Idle
  <2>2. op'[p].pc # "write" /\ \A d \in Clients \ {p} : op'[d] = op[d]
    BY <1>12, <2>1 DEF ReadFile, ReadFails, Idle, Types, OpType, Procs
  <2> QED
    BY <2>1, <2>2, QuietOwn
<1>13. ASSUME NEW p \in Procs, Crash(p) PROVE Quiet'
  <2>1. p = Engine /\ clash' = clash /\ files' = files /\ op' = [op EXCEPT ![Engine] = Idle]
    BY <1>13 DEF Crash, Procs, Types
  <2> QED
    BY <2>1, EngineAssumption DEF Quiet, Mine, Types
<1> QED
  BY <1>1, <1>2, <1>3, <1>4, <1>5, <1>6, <1>7, <1>8, <1>9, <1>10, <1>11, <1>12, <1>13
     DEF Next, Request, Procs

(* At rest every file is a whole rule unless requests have overlapped or   *)
(* one was cut, and each crash leaves one empty file at most               *)
(* (rule_store.py:18-21, 52-53).                                           *)
THEOREM ReadableAtRest == Spec => []RestIsReadable
<1>1. Init => Types /\ FewStranded /\ Quiet
  <2> HAVE Init
  <2>1. \A f \in FileSet : files[f] \notin {Empty, Garbled}
    BY ShippedAssumption, ValidRulesAre DEF Init, Absent, Empty, Garbled
  <2>2. Stranded = {}
    BY <2>1 DEF Stranded
  <2>3. \A c \in Clients : op[c] = Idle
    BY DEF Init, Procs
  <2> QED
    BY <2>1, <2>2, <2>3, TypesInit, FS_EmptySet DEF FewStranded, Quiet, Init, Idle
<1>2. Types /\ FewStranded /\ Quiet /\ [Next]_vars => (Types /\ FewStranded /\ Quiet)'
  BY TypesStep, FewStrandedStep, QuietStep
<1>3. FewStranded /\ Quiet => RestIsReadable
  BY DEF FewStranded, Quiet, RestIsReadable, AtRest, Mine, Idle
<1> QED
  BY <1>1, <1>2, <1>3, PTL DEF Spec

-----------------------------------------------------------------------------
(* What one request at a time is about to do: until it completes its file, *)
(* that file still counts as what the request found there.                 *)
Before(c) == IF op[c].pc = "write" THEN op[c].old ELSE files[op[c].file]

Intended(c) ==
    /\ Writing(c) =>
         /\ Before(c) \in ValidRules \cup {Absent}
         /\ Before(c).kind = "rule" => Before(c).id = op[c].rule.id
         /\ op[c].request \in {"create", "put", "toggle"}
         /\ op[c].request = "create" => Before(c) = Absent
         /\ op[c].request = "toggle" => /\ Before(c).kind = "rule"
                                        /\ Before(c).def = op[c].rule.def
    /\ op[c].pc = "unlink" => /\ files[op[c].file].kind = "rule"
                              /\ files[op[c].file].id = op[c].id
    /\ op[c].pc = "scan" =>
         \A x \in op[c].loaded : \E f \in FileSet : x[2] = files[f] /\ files[f].kind = "rule"

Intent == ~clash => \A c \in Clients : Intended(c)

Sound == Types /\ ByName /\ Quiet /\ Intent

(* As long as requests come one at a time, the others do nothing while one *)
(* of them takes a step.                                                   *)
LEMMA AloneStep ==
  ASSUME Types, Quiet, NEW p \in Procs, Acts(p), ~clash'
  PROVE  /\ ~clash
         /\ p \in Clients => \A c \in Clients \ {p} : op[c] = Idle /\ op'[c] = Idle
<1>1. ASSUME NEW state, Begin(p, state)
      PROVE  ~clash /\ (p \in Clients => \A c \in Clients \ {p} : op[c] = Idle)
  BY <1>1 DEF Begin, Types
<1>2. ASSUME ~clash, op[p] # Idle
      PROVE  p \in Clients => \A c \in Clients \ {p} : op[c] = Idle
  BY <1>2 DEF Quiet
<1>3. ASSUME p \in Clients, NEW rule \in ValidRules, NEW overwrite \in BOOLEAN,
             SaveRule(p, rule, overwrite)
      PROVE  ~clash /\ \A c \in Clients \ {p} : op[c] = Idle
  BY <1>1, <1>3 DEF SaveRule
<1>4. ASSUME p \in Clients, NEW id \in Ids, StartDelete(p, id)
      PROVE  ~clash /\ \A c \in Clients \ {p} : op[c] = Idle
  BY <1>1, <1>4 DEF StartDelete
<1>5. ASSUME p \in Clients, NEW id \in Ids, NEW enabled \in BOOLEAN, StartToggle(p, id, enabled)
      PROVE  ~clash /\ \A c \in Clients \ {p} : op[c] = Idle
  BY <1>1, <1>5 DEF StartToggle
<1>6. ASSUME p \in Clients, OpenFile(p) \/ CloseFile(p) \/ Unlink(p) \/ EndToggle(p)
      PROVE  ~clash /\ op[p] # Idle
  BY <1>6 DEF OpenFile, CloseFile, Unlink, EndToggle, Idle
<1>7. CASE p = Engine /\ (StartPass \/ EndPass)
  BY <1>1, <1>7, EngineAssumption DEF StartPass, EndPass
<1>8. ASSUME NEW n \in DOMAIN Files, ReadFile(p, n) \/ ReadFails(p, n)
      PROVE  ~clash /\ op[p] # Idle
  BY <1>8 DEF ReadFile, ReadFails, Upcoming, Idle
<1>9. CASE Crash(p)
  BY <1>9 DEF Crash
<1>10. ~clash /\ (p \in Clients => \A c \in Clients \ {p} : op[c] = Idle)
  BY <1>2, <1>3, <1>4, <1>5, <1>6, <1>7, <1>8, <1>9, EngineAssumption DEF Acts, Request
<1> QED
  BY <1>10, OthersStep DEF Unlinked, Idle, Procs

LEMMA EngineStep ==
  ASSUME Types, Acts(Engine)
  PROVE  /\ files' = files /\ last' = last
         /\ \A c \in Clients : op'[c] = op[c]
<1>1. files' = files /\ \A c \in Clients : op'[c] = op[c]
  BY EngineAssumption, FilesStep, OthersStep DEF Procs
<1>2. last' = last
  BY EngineAssumption DEF Acts, StartPass, EndPass, Crash, ReadFile, ReadFails
<1> QED
  BY <1>1, <1>2

(* Only the completion of a write or of a delete answers a request.        *)
LEMMA LastStep ==
  ASSUME NEW p \in Procs, Acts(p)
  PROVE  \/ last' = last
         \/ p \in Clients /\ (CloseFile(p) \/ Unlink(p))
BY DEF Acts, Request, StartPass, EndPass, Crash, ReadFile, ReadFails, SaveRule, OpenFile,
       StartDelete, StartToggle, EndToggle

LEMMA IdleIntended ==
  ASSUME NEW c, op'[c] = Idle
  PROVE  Intended(c)'
BY DEF Intended, Writing, Idle

(* A save begins: at that moment the file is what it will replace.         *)
LEMMA SaveIntended ==
  ASSUME Types, ByName, Quiet, ~clash, NEW c \in Clients, NEW rule \in ValidRules,
         NEW request \in {"create", "put", "toggle"},
         op'[c] = Saving(rule, request), files' = files,
         \A d \in Clients : ~Mine(d, Yml[rule.id]),
         request = "create" => files[Yml[rule.id]] = Absent,
         request = "toggle" => /\ files[Yml[rule.id]].kind = "rule"
                               /\ files[Yml[rule.id]].def = rule.def
  PROVE  Intended(c)'
<1>1. rule.id \in Ids /\ Yml[rule.id] \in FileSet
  BY ValidRulesAre, FilesAssumption
<1>2. files[Yml[rule.id]] \in ValidRules \cup {Absent}
  BY <1>1 DEF Quiet, Types, Contents
<1>3. ASSUME files[Yml[rule.id]].kind = "rule" PROVE files[Yml[rule.id]].id = rule.id
  <2>1. files[Yml[rule.id]] \in ValidRules /\ Yml[rule.id] = Yml[files[Yml[rule.id]].id]
    BY <1>1, <1>2, <1>3 DEF ByName, Absent
  <2>2. files[Yml[rule.id]].id \in Ids
    BY <2>1, ValidRulesAre
  <2> QED
    BY <1>1, <2>1, <2>2, FilesAssumption
<1>4. /\ op'[c].pc = "save" /\ op'[c].file = Yml[rule.id] /\ op'[c].rule = rule
      /\ op'[c].request = request
  BY DEF Saving
<1> QED
  BY <1>2, <1>3, <1>4 DEF Intended, Before, Writing

LEMMA OwnIntent ==
  ASSUME Types, ByName, Quiet, Intent, NEW c \in Clients, Acts(c), ~clash'
  PROVE  Intended(c)'
<1>0. ~clash /\ \A d \in Clients \ {c} : op[d] = Idle
  BY AloneStep DEF Procs
<1>1. c \in Procs /\ c # Engine /\ OpType(c) /\ Intended(c)
  BY <1>0, EngineAssumption DEF Procs, Types, Intent
<1>2. ASSUME op[c].pc # "write" PROVE \A d \in Clients, f \in FileSet : ~Mine(d, f) /\ files[f] # Empty
  BY <1>0, <1>2 DEF Mine, Idle, Quiet
<1>3. ASSUME NEW rule \in ValidRules, NEW overwrite \in BOOLEAN, SaveRule(c, rule, overwrite)
      PROVE  Intended(c)'
  <2> DEFINE request == IF overwrite THEN "put" ELSE "create"
  <2>1. /\ Begin(c, Saving(rule, request)) /\ files' = files
        /\ request = "create" => files[Yml[rule.id]] = Absent
    BY <1>3 DEF SaveRule
  <2>2. op[c].pc # "write" /\ op'[c] = Saving(rule, request)
    BY <1>1, <2>1, BeginOutcome DEF Idle
  <2>3. Yml[rule.id] \in FileSet
    BY ValidRulesAre, FilesAssumption
  <2> QED
    BY <1>0, <1>2, <2>1, <2>2, <2>3, SaveIntended
<1>4. ASSUME OpenFile(c) PROVE Intended(c)'
  <2>1. /\ op[c].pc = "save" /\ op'[c].pc = "write" /\ op'[c].file = op[c].file
        /\ op'[c].rule = op[c].rule /\ op'[c].request = op[c].request
        /\ op'[c].old = files[op[c].file]
    BY <1>1, <1>4 DEF OpenFile, Types
  <2>2. Writing(c) /\ Before(c)' = Before(c)
    BY <2>1 DEF Before, Writing
  <2> QED
    BY <1>1, <2>1, <2>2 DEF Intended, Writing
<1>5. ASSUME CloseFile(c) PROVE Intended(c)'
  BY <1>1, <1>5, IdleIntended DEF CloseFile, Types
<1>6. ASSUME NEW id \in Ids, StartDelete(c, id) PROVE Intended(c)'
  <2>1. PICK f \in {Yml[id], Yaml[id]} :
            files[f] # Absent /\ Begin(c, [pc |-> "unlink", file |-> f, id |-> id])
    BY <1>6 DEF StartDelete
  <2>2. op[c].pc # "write" /\ op'[c] = [pc |-> "unlink", file |-> f, id |-> id] /\ files' = files
    BY <1>1, <1>6, <2>1, BeginOutcome DEF Idle, StartDelete
  <2>3. f \in FileSet /\ Stem[f] = id
    BY FilesAssumption
  <2>4. files[f] \in ValidRules
    BY <1>0, <1>2, <2>1, <2>2, <2>3 DEF Types, Contents, Quiet
  <2>5. files[f].kind = "rule" /\ files[f].id \in Ids /\ f = Yml[files[f].id]
    BY <2>3, <2>4, ValidRulesAre DEF ByName
  <2>6. files[f].id = id
    BY <2>3, <2>5, FilesAssumption
  <2> QED
    BY <2>2, <2>5, <2>6 DEF Intended, Writing
<1>7. ASSUME Unlink(c) PROVE Intended(c)'
  BY <1>1, <1>7, IdleIntended DEF Unlink
<1>8. ASSUME NEW id \in Ids, NEW enabled \in BOOLEAN, StartToggle(c, id, enabled)
      PROVE  Intended(c)'
  BY <1>1, <1>8, BeginOutcome DEF StartToggle, Intended, Writing
<1>9. ASSUME EndToggle(c) PROVE Intended(c)'
  <2>1. CASE op' = [op EXCEPT ![c] = Idle]
    BY <1>1, <2>1, IdleIntended DEF Types
  <2>2. ASSUME NEW r \in Found(c), r.def # MatchAll,
               op' = [op EXCEPT ![c] = Saving(RuleOf(r.id, op[c].enabled, r.def), "toggle")]
        PROVE  Intended(c)'
    <3> DEFINE rule == RuleOf(r.id, op[c].enabled, r.def)
    <3>1. op[c].pc = "scan" /\ op[c].enabled \in BOOLEAN /\ files' = files
      BY <1>1, <1>9 DEF EndToggle, OpType
    <3>2. PICK f \in FileSet : r = files[f] /\ files[f].kind = "rule"
      BY <1>1, <3>1 DEF Found, Intended
    <3>3. r \in ValidRules
      BY <3>2 DEF Types, Contents, Absent, Empty, Garbled
    <3>4. f = Yml[r.id]
      BY <3>2 DEF ByName
    <3>5. rule \in ValidRules
      BY <3>1, <3>3, ValidRulesAre DEF RuleOf
    <3>6. rule.id = r.id /\ rule.def = r.def
      BY DEF RuleOf
    <3>7. op'[c] = Saving(rule, "toggle")
      BY <1>1, <2>2 DEF Types
    <3> HIDE DEF rule
    <3>8. \A d \in Clients : ~Mine(d, Yml[rule.id])
      BY <1>2, <3>1, <3>4, <3>6
    <3>9. files[Yml[rule.id]].kind = "rule" /\ files[Yml[rule.id]].def = rule.def
      BY <3>2, <3>4, <3>6
    <3> QED
      BY <1>0, <3>1, <3>5, <3>7, <3>8, <3>9, SaveIntended
  <2> QED
    BY <1>9, <2>1, <2>2 DEF EndToggle
<1>10. ASSUME NEW n \in DOMAIN Files, ReadFile(c, n) PROVE Intended(c)'
  <2>1. /\ op[c].pc = "scan" /\ op'[c].pc = "scan" /\ files' = files
        /\ op'[c].loaded = op[c].loaded \cup {<<n, Parsed(Files[n])>>}
        /\ files[Files[n]] \notin {Absent, Garbled}
    BY <1>1, <1>10 DEF ReadFile, Upcoming, Types, OpType
  <2>2. Files[n] \in FileSet
    BY DEF FileSet
  <2>3. Parsed(Files[n]) = files[Files[n]] /\ files[Files[n]].kind = "rule"
    BY <1>2, <2>1, <2>2, ValidRulesAre DEF Parsed, Types, Contents
  <2> QED
    BY <1>1, <2>1, <2>2, <2>3 DEF Intended, Writing
<1>11. ASSUME NEW n \in DOMAIN Files, ReadFails(c, n) PROVE Intended(c)'
  BY <1>1, <1>11, IdleIntended DEF ReadFails, Types
<1>12. CASE Crash(c)
  BY <1>1, <1>12, IdleIntended DEF Crash, Types
<1> QED
  BY <1>1, <1>3, <1>4, <1>5, <1>6, <1>7, <1>8, <1>9, <1>10, <1>11, <1>12 DEF Acts, Request

LEMMA IntentStep ==
  ASSUME Types, ByName, Quiet, Intent, [Next]_vars
  PROVE  Intent'
<1>1. CASE UNCHANGED vars
  BY <1>1 DEF vars, Intent, Intended, Before, Writing
<1>2. ASSUME NEW p \in Procs, Acts(p), ~clash', NEW c \in Clients PROVE Intended(c)'
  <2>1. CASE c = p
    BY <1>2, <2>1, OwnIntent
  <2>2. CASE p \in Clients /\ c # p
    BY <1>2, <2>2, AloneStep, IdleIntended
  <2>3. CASE p = Engine
    <3>1. ~clash /\ op'[c] = op[c] /\ files' = files
      BY <1>2, <2>3, AloneStep, EngineStep
    <3> QED
      BY <3>1 DEF Intent, Intended, Before, Writing
  <2> QED
    BY <2>1, <2>2, <2>3 DEF Procs
<1> QED
  BY <1>1, <1>2, WhoActs DEF Intent

LEMMA SoundInit == ASSUME ShippedByName PROVE Init => Sound
<1> HAVE Init
<1>1. ByName
  BY ShippedByName DEF Init, ByName, ShippedByName, Writing, Idle, Absent, Procs
<1>2. \A f \in FileSet : files[f] \notin {Empty, Garbled}
  BY ShippedAssumption, ValidRulesAre DEF Init, Absent, Empty, Garbled
<1>3. \A c \in Clients : op[c] = Idle
  BY DEF Init, Procs
<1>4. Quiet /\ Intent
  BY <1>2, <1>3 DEF Quiet, Intent, Intended, Writing, Idle
<1> QED
  BY <1>1, <1>4, TypesInit DEF Sound

LEMMA SoundStep ==
  ASSUME Sound, [Next]_vars
  PROVE  Sound'
BY TypesStep, ByNameStep, QuietStep, IntentStep DEF Sound

LEMMA SoundAlways == ASSUME ShippedByName PROVE Spec => []Sound
BY SoundInit, SoundStep, PTL DEF Spec

(* Disabled stays disabled: when a directory of files named after their ids*)
(* answers that a rule is disabled, no file declares it enabled, as long as*)
(* requests come one at a time (rule_store.py:68-77).                      *)
THEOREM DisabledStays ==
  ASSUME ShippedByName
  PROVE  Spec => DisableSticks
<1> DEFINE Answered == last' # last /\ last'.op = "toggle" /\ ~last'.rule.enabled /\ ~clash'
           Disabled == \A f \in FileSet :
                         files'[f].kind = "rule" /\ files'[f].id = last'.rule.id =>
                           ~files'[f].enabled
<1>1. ASSUME Sound, Sound', [Next]_vars, Answered PROVE Disabled
  <2>1. PICK p \in Procs : Acts(p)
    BY <1>1, WhoActs DEF vars
  <2>2. p \in Clients /\ CloseFile(p)
    BY <1>1, <2>1, LastStep DEF Unlink
  <2>3. ~clash /\ op[p].file \in FileSet /\ last'.rule = op[p].rule
    BY <1>1, <2>1, <2>2, AloneStep DEF CloseFile, Sound, Types, OpType, Writing, Procs
  <2>4. files[op[p].file] = Empty /\ Mine(p, op[p].file)
    BY <1>1, <2>2, <2>3, AloneStep, <2>1 DEF CloseFile, Sound, Quiet, Mine, Idle, Procs
  <2>5. files' = [files EXCEPT ![op[p].file] = op[p].rule]
    BY <2>2, <2>4 DEF CloseFile, Mine
  <2>6. op[p].file = Yml[op[p].rule.id]
    BY <1>1, <2>2 DEF Sound, ByName, CloseFile, Writing
  <2>7. ASSUME NEW f \in FileSet, files'[f].kind = "rule", files'[f].id = last'.rule.id
        PROVE  ~files'[f].enabled
    <3>1. f = op[p].file
      BY <1>1, <2>3, <2>6, <2>7 DEF Sound, ByName
    <3>2. files'[f] = op[p].rule
      BY <1>1, <2>5, <3>1 DEF Sound, Types
    <3> QED
      BY <1>1, <2>3, <3>2
  <2> QED
    BY <2>7
<1>2. Sound /\ Sound' /\ [Next]_vars => (Answered => Disabled)
  BY <1>1
<1> QED
  BY <1>2, SoundAlways, PTL DEF Spec, DisableSticks

-----------------------------------------------------------------------------
(* The directory implements the map of rules.                              *)
Shown(content) ==
    IF content.kind = "rule" THEN Directory!Rule(content.enabled, content.def) ELSE Directory!None

StoredIsRead ==
  Quiet /\ ~clash =>
    \A f \in FileSet :
      /\ (\A c \in Clients : ~Mine(c, f)) => Stored(f) = files[f]
      /\ \A c \in Clients : Mine(c, f) => Stored(f) = op[c].old

RuleAtIsStored ==
  Sound /\ ~clash => \A id \in Ids : RuleAt(id) = Shown(Stored(Yml[id]))

LEMMA StoredIs == StoredIsRead
<1> SUFFICES ASSUME Quiet, ~clash, NEW f \in FileSet
             PROVE  /\ (\A c \in Clients : ~Mine(c, f)) => Stored(f) = files[f]
                    /\ \A c \in Clients : Mine(c, f) => Stored(f) = op[c].old
  BY DEF StoredIsRead
<1> DEFINE W(c) == op[c].pc = "write" /\ op[c].file = f /\ op[c].linked
<1>1. Stored(f) = IF \E c \in Clients : W(c) THEN op[CHOOSE c \in Clients : W(c)].old
                  ELSE files[f]
  BY DEF Stored
<1>2. \A c \in Clients : W(c) <=> Mine(c, f)
  BY DEF Mine
<1>3. \A c, d \in Clients : W(c) /\ W(d) => c = d
  BY DEF Quiet, Idle
<1> HIDE DEF W
<1>4. ASSUME NEW c \in Clients, W(c) PROVE (CHOOSE d \in Clients : W(d)) = c
  BY <1>3, <1>4
<1> QED
  BY <1>1, <1>2, <1>4

(* No rule is looked for elsewhere than under the name of its id.          *)
LEMMA RuleAtIs == RuleAtIsStored
<1> SUFFICES ASSUME Sound, ~clash, NEW id \in Ids PROVE RuleAt(id) = Shown(Stored(Yml[id]))
  BY DEF RuleAtIsStored
<1> DEFINE D(f) == Stored(f).kind = "rule" /\ Stored(f).id = id
<1>1. ASSUME NEW f \in FileSet, Stored(f).kind = "rule"
      PROVE  Stored(f).id \in Ids /\ f = Yml[Stored(f).id]
  <2>1. CASE \E c \in Clients : Mine(c, f)
    <3>1. PICK c \in Clients : Mine(c, f)
      BY <2>1
    <3>2. /\ Stored(f) = op[c].old /\ Before(c) = op[c].old /\ Writing(c) /\ f = op[c].file
          /\ op[c].rule \in ValidRules
      BY <3>1, StoredIs DEF StoredIsRead, Sound, Before, Mine, Writing, Types, OpType, Procs
    <3>3. Stored(f).id = op[c].rule.id /\ f = Yml[op[c].rule.id]
      BY <1>1, <3>2 DEF Sound, Intent, Intended, ByName
    <3> QED
      BY <3>2, <3>3, ValidRulesAre
  <2>2. CASE \A c \in Clients : ~Mine(c, f)
    <3>1. Stored(f) = files[f]
      BY <2>2, StoredIs DEF StoredIsRead, Sound
    <3>2. files[f] \in ValidRules
      BY <1>1, <3>1 DEF Sound, Types, Contents, Absent, Empty, Garbled
    <3> QED
      BY <1>1, <3>1, <3>2, ValidRulesAre DEF Sound, ByName
  <2> QED
    BY <2>1, <2>2
<1>2. RuleAt(id) = IF \E f \in FileSet : D(f)
                   THEN Directory!Rule(Stored(CHOOSE f \in FileSet : D(f)).enabled,
                                       Stored(CHOOSE f \in FileSet : D(f)).def)
                   ELSE Directory!None
  BY DEF RuleAt, Directory!Rule, Directory!None
<1>3. \A f \in FileSet : D(f) => f = Yml[id]
  BY <1>1
<1>4. Yml[id] \in FileSet /\ (Stored(Yml[id]).kind = "rule" => D(Yml[id]))
  BY <1>1, FilesAssumption
<1>5. D(Yml[id]) => Stored(Yml[id]).kind = "rule"
  OBVIOUS
<1> HIDE DEF D
<1>6. CASE D(Yml[id])
  <2>1. (CHOOSE f \in FileSet : D(f)) = Yml[id]
    BY <1>3, <1>4, <1>6
  <2> QED
    BY <1>2, <1>4, <1>5, <1>6, <2>1 DEF Shown
<1>7. CASE ~D(Yml[id])
  BY <1>2, <1>3, <1>4, <1>7 DEF Shown
<1> QED
  BY <1>6, <1>7

(* Both hold after a step as well as before it.                            *)
LEMMA StoredIsNext == StoredIsRead' /\ RuleAtIsStored'
BY StoredIs, RuleAtIs, PTL

LEMMA OpensFirst ==
  ASSUME Types, NEW c \in Clients, Acts(c), op'[c].pc = "write"
  PROVE  OpenFile(c)
<1>0. c # Engine /\ c \in Procs
  BY EngineAssumption DEF Procs
<1>1. ASSUME NEW state, Begin(c, state) PROVE state.pc = "write"
  BY <1>0, <1>1, BeginOutcome
<1>2. ASSUME op'[c] = Idle PROVE FALSE
  BY <1>2 DEF Idle
<1>3. ASSUME NEW rule \in ValidRules, NEW overwrite \in BOOLEAN, SaveRule(c, rule, overwrite)
      PROVE  FALSE
  BY <1>1, <1>3 DEF SaveRule, Saving
<1>4. ASSUME NEW id \in Ids, StartDelete(c, id) PROVE FALSE
  BY <1>1, <1>4 DEF StartDelete
<1>5. ASSUME NEW id \in Ids, NEW enabled \in BOOLEAN, StartToggle(c, id, enabled) PROVE FALSE
  BY <1>1, <1>5 DEF StartToggle
<1>6. CASE CloseFile(c) \/ Unlink(c)
  BY <1>0, <1>2, <1>6 DEF CloseFile, Unlink, Types
<1>7. CASE EndToggle(c)
  BY <1>0, <1>2, <1>7 DEF EndToggle, Saving, Types
<1>8. ASSUME NEW n \in DOMAIN Files, ReadFile(c, n) \/ ReadFails(c, n) PROVE FALSE
  BY <1>0, <1>2, <1>8 DEF ReadFile, ReadFails, Upcoming, Types, OpType
<1>9. CASE Crash(c)
  BY <1>0, <1>2, <1>9 DEF Crash, Types
<1> QED
  BY <1>0, <1>3, <1>4, <1>5, <1>6, <1>7, <1>8, <1>9 DEF Acts, Request

(* Completing a write, or a delete, is what changes what a file counts as. *)
LEMMA StoredStep ==
  ASSUME Sound, Sound', NEW p \in Procs, Acts(p), ~clash', NEW f \in FileSet
  PROVE  \/ Stored(f)' = Stored(f) /\ ~(p \in Clients /\ (CloseFile(p) \/ Unlink(p)))
         \/ /\ p \in Clients /\ CloseFile(p)
            /\ IF f = op[p].file THEN Stored(f) = Before(p) /\ Stored(f)' = op[p].rule
               ELSE Stored(f)' = Stored(f)
         \/ /\ p \in Clients /\ Unlink(p)
            /\ IF f = op[p].file THEN Stored(f) = files[f] /\ Stored(f)' = Absent
               ELSE Stored(f)' = Stored(f)
<1>0. Types /\ Quiet /\ ~clash
  BY AloneStep DEF Sound
<1>1. /\ (\A c \in Clients : ~Mine(c, f)) => Stored(f) = files[f]
      /\ \A c \in Clients : Mine(c, f) => Stored(f) = op[c].old
  BY <1>0, StoredIs DEF StoredIsRead
<1>2. /\ (\A c \in Clients : ~Mine(c, f)') => Stored(f)' = files'[f]
      /\ \A c \in Clients : Mine(c, f)' => Stored(f)' = op'[c].old
  BY StoredIsNext DEF StoredIsRead, Sound
<1>3. CASE p = Engine
  <2>1. files' = files /\ \A c \in Clients : op'[c] = op[c]
    BY <1>0, <1>3, EngineStep
  <2>2. \A c \in Clients : Mine(c, f)' <=> Mine(c, f)
    BY <2>1 DEF Mine
  <2> QED
    BY <1>1, <1>2, <1>3, <2>1, <2>2, EngineAssumption
<1>4. CASE p \in Clients
  <2>0. \A c \in Clients \ {p} : ~Mine(c, f) /\ ~Mine(c, f)'
    BY <1>0, <1>4, AloneStep DEF Mine, Idle
  <2>1. ASSUME OpenFile(p) PROVE Stored(f)' = Stored(f)
    <3>1. /\ op[p].pc = "save" /\ op'[p].pc = "write" /\ op'[p].file = op[p].file
          /\ op'[p].linked /\ op'[p].old = files[op[p].file]
          /\ files' = [files EXCEPT ![op[p].file] = Empty]
      BY <1>0, <2>1 DEF OpenFile, Types
    <3>2. ~Mine(p, f) /\ (Mine(p, f)' <=> f = op[p].file)
      BY <3>1 DEF Mine
    <3>3. Stored(f) = files[f]
      BY <1>1, <2>0, <3>2
    <3>4. f # op[p].file => Stored(f)' = files[f]
      BY <1>0, <1>2, <2>0, <3>1, <3>2 DEF Types
    <3> QED
      BY <1>2, <1>4, <3>1, <3>2, <3>3, <3>4
  <2>2. ASSUME CloseFile(p)
        PROVE  IF f = op[p].file THEN Stored(f) = Before(p) /\ Stored(f)' = op[p].rule
               ELSE Stored(f)' = Stored(f)
    <3>1. op[p].pc = "write" /\ op'[p] = Idle /\ op[p].file \in FileSet
      BY <1>0, <2>2 DEF CloseFile, Types, OpType, Writing
    <3>2. files[op[p].file] = Empty /\ op[p].linked
      <4>1. files[op[p].file] = Empty
        BY <1>0, <1>4, <3>1 DEF Quiet
      <4>2. PICK c \in Clients : Mine(c, op[p].file)
        BY <1>0, <3>1, <4>1 DEF Quiet
      <4>3. c = p
        BY <1>0, <1>4, <4>2, AloneStep DEF Mine, Idle
      <4> QED
        BY <4>1, <4>2, <4>3 DEF Mine
    <3>3. files' = [files EXCEPT ![op[p].file] = op[p].rule]
      BY <2>2, <3>2 DEF CloseFile
    <3>4. ~Mine(p, f)' /\ (Mine(p, f) <=> f = op[p].file)
      BY <3>1, <3>2 DEF Mine, Idle
    <3>5. Stored(f)' = files'[f]
      BY <1>2, <2>0, <3>4
    <3>6. f # op[p].file => Stored(f) = files[f] /\ files'[f] = files[f]
      BY <1>0, <1>1, <2>0, <3>3, <3>4 DEF Types
    <3>7. f = op[p].file => Stored(f) = Before(p) /\ files'[f] = op[p].rule
      BY <1>0, <1>1, <1>4, <3>1, <3>3, <3>4 DEF Types, Before
    <3> QED
      BY <3>5, <3>6, <3>7
  <2>3. ASSUME Unlink(p)
        PROVE  IF f = op[p].file THEN Stored(f) = files[f] /\ Stored(f)' = Absent
               ELSE Stored(f)' = Stored(f)
    <3>1. /\ op[p].pc = "unlink" /\ op'[p] = Idle
          /\ files' = [files EXCEPT ![op[p].file] = Absent]
      BY <2>3 DEF Unlink
    <3>2. ~Mine(p, f) /\ ~Mine(p, f)'
      BY <3>1 DEF Mine, Idle
    <3>3. Stored(f) = files[f] /\ Stored(f)' = files'[f]
      BY <1>1, <1>2, <2>0, <3>2
    <3> QED
      BY <1>0, <3>1, <3>3 DEF Types
  <2>4. ASSUME ~OpenFile(p), ~CloseFile(p), ~Unlink(p) PROVE Stored(f)' = Stored(f)
    <3>1. files' = files
      BY <1>0, <2>4, FilesStep
    <3>2. ~Mine(p, f)
      BY <1>0, <1>4, <2>4, WriterActs DEF Mine, Crash
    <3>3. ~Mine(p, f)'
      BY <1>0, <1>4, <2>4, OpensFirst DEF Mine
    <3> QED
      BY <1>1, <1>2, <2>0, <3>1, <3>2, <3>3
  <2> QED
    BY <1>4, <2>1, <2>2, <2>3, <2>4 DEF OpenFile, CloseFile, Unlink
<1> QED
  BY <1>3, <1>4 DEF Procs

Map == [id \in Ids |-> RuleAt(id)]

LEMMA MapStep ==
  ASSUME Sound, Sound', NEW p \in Procs, Acts(p), ~clash'
  PROVE  \/ last' = last /\ Map' = Map
         \/ \E id \in Ids :
              /\ p \in Clients /\ CloseFile(p) /\ id = op[p].rule.id
              /\ RuleAt(id) = Shown(Before(p))
              /\ Map' = [Map EXCEPT ![id] = Shown(op[p].rule)]
         \/ \E id \in Ids :
              /\ p \in Clients /\ Unlink(p) /\ id = op[p].id
              /\ files[op[p].file].kind = "rule"
              /\ RuleAt(id) = Shown(files[op[p].file])
              /\ Map' = [Map EXCEPT ![id] = Directory!None]
<1>0. Types /\ Quiet /\ ~clash /\ ByName /\ Intent
  BY AloneStep DEF Sound
<1>1. ASSUME NEW id \in Ids
      PROVE  /\ Yml[id] \in FileSet /\ Stem[Yml[id]] = id
             /\ RuleAt(id) = Shown(Stored(Yml[id]))
             /\ RuleAt(id)' = Shown(Stored(Yml[id])')
  <2>1. RuleAt(id) = Shown(Stored(Yml[id]))
    BY <1>0, RuleAtIs DEF RuleAtIsStored, Sound
  <2>2. RuleAt(id)' = Shown(Stored(Yml[id]))'
    BY StoredIsNext DEF RuleAtIsStored
  <2> QED
    BY <2>1, <2>2, FilesAssumption DEF Shown
<1>2. Map = [id \in Ids |-> RuleAt(id)] /\ Map' = [id \in Ids |-> RuleAt(id)']
  BY DEF Map
<1>3. ASSUME NEW id \in Ids, \A i \in Ids \ {id} : Stored(Yml[i])' = Stored(Yml[i])
      PROVE  Map' = [Map EXCEPT ![id] = Shown(Stored(Yml[id])')]
  BY <1>1, <1>2, <1>3
<1>4. ASSUME NEW id \in Ids PROVE \A i \in Ids \ {id} : Yml[i] # Yml[id]
  BY <1>1
<1>5. CASE p \in Clients /\ CloseFile(p)
  <2>1. PICK id \in Ids : id = op[p].rule.id /\ op[p].file = Yml[id]
    BY <1>0, <1>5, ValidRulesAre DEF Types, OpType, Writing, CloseFile, ByName, Procs
  <2>2. \A f \in FileSet :
            IF f = Yml[id] THEN Stored(f) = Before(p) /\ Stored(f)' = op[p].rule
            ELSE Stored(f)' = Stored(f)
    BY <1>5, <2>1, StoredStep DEF CloseFile, Unlink
  <2> QED
    BY <1>1, <1>3, <1>4, <1>5, <2>1, <2>2
<1>6. CASE p \in Clients /\ Unlink(p)
  <2>1. PICK f \in FileSet : f = op[p].file
    BY <1>0, <1>6 DEF Types, OpType, Unlink, Procs
  <2>2. files[f].kind = "rule" /\ files[f].id = op[p].id
    BY <1>0, <1>6, <2>1 DEF Intent, Intended, Unlink
  <2>3. files[f] \in ValidRules
    BY <1>0, <2>2 DEF Types, Contents, Absent, Empty, Garbled
  <2>4. PICK id \in Ids : id = op[p].id /\ f = Yml[id]
    BY <1>0, <2>2, <2>3, ValidRulesAre DEF ByName
  <2>5. \A g \in FileSet :
            IF g = Yml[id] THEN Stored(g) = files[g] /\ Stored(g)' = Absent
            ELSE Stored(g)' = Stored(g)
    <3>1. ~CloseFile(p)
      BY <1>6 DEF CloseFile, Unlink
    <3> QED
      BY <1>6, <2>1, <2>4, <3>1, StoredStep
  <2>6. Shown(Absent) = Directory!None
    BY DEF Shown, Absent
  <2> QED
    BY <1>1, <1>3, <1>4, <1>6, <2>1, <2>2, <2>4, <2>5, <2>6
<1>7. CASE ~(p \in Clients /\ (CloseFile(p) \/ Unlink(p)))
  <2>1. \A f \in FileSet : Stored(f)' = Stored(f)
    BY <1>7, StoredStep
  <2> QED
    BY <1>1, <1>2, <1>7, <2>1, LastStep
<1> QED
  BY <1>5, <1>6, <1>7

(* A rule that is there is not None, and a toggle changes one field.       *)
LEMMA ShownIs ==
  ASSUME NEW r \in ValidRules
  PROVE  Shown(r) = Directory!Rule(r.enabled, r.def) /\ Shown(r) # Directory!None
BY ValidRulesAre DEF Shown, Directory!Rule, Directory!None

LEMMA DirectoryStep ==
  ASSUME Sound, Sound', [Next]_vars
  PROVE  [clash' \/ Directory!Next]_<<Map, last, clash>>
<1>1. CASE UNCHANGED vars
  <2>1. \A f \in FileSet : Stored(f)' = Stored(f)
    BY <1>1 DEF vars, Stored
  <2> QED
    BY <1>1, <2>1 DEF vars, Map, RuleAt, Stored
<1>2. ASSUME ~clash', NEW p \in Procs, Acts(p) PROVE UNCHANGED <<Map, last, clash>> \/ Directory!Next
  <2>0. ~clash /\ Types /\ Types' /\ Intent /\ UNCHANGED clash
    BY <1>2, AloneStep DEF Sound, Types
  <2>1. ASSUME NEW id \in Ids, p \in Clients, CloseFile(p), id = op[p].rule.id,
               RuleAt(id) = Shown(Before(p)), Map' = [Map EXCEPT ![id] = Shown(op[p].rule)]
        PROVE  Directory!Next
    <3>1. /\ last'.op = op[p].request /\ last'.rule = op[p].rule
          /\ op[p].rule \in ValidRules /\ Writing(p) /\ Map[id] = Shown(Before(p))
      BY <2>0, <2>1 DEF CloseFile, Types, OpType, Writing, Map
    <3>2. /\ op[p].request \in {"create", "put", "toggle"}
          /\ Before(p) \in ValidRules \cup {Absent}
          /\ op[p].request = "create" => Before(p) = Absent
          /\ op[p].request = "toggle" => /\ Before(p).kind = "rule"
                                         /\ Before(p).def = op[p].rule.def
      BY <2>0, <2>1, <3>1 DEF Intent, Intended
    <3>3. Shown(op[p].rule) = Directory!Rule(last'.rule.enabled, last'.rule.def)
      BY <3>1, ShownIs
    <3>4. CASE op[p].request = "create"
      <4>1. Map[id] = Directory!None
        BY <3>1, <3>2, <3>4 DEF Shown, Absent
      <4> QED
        BY <2>1, <3>1, <3>3, <3>4, <4>1 DEF Directory!Next, Directory!Create, Map
    <3>5. CASE op[p].request = "put"
      BY <2>1, <3>1, <3>3, <3>5 DEF Directory!Next, Directory!Replace, Map
    <3>6. CASE op[p].request = "toggle"
      <4>1. Before(p) \in ValidRules /\ Before(p).def = op[p].rule.def
        BY <3>2, <3>6 DEF Absent
      <4>2. Map[id] # Directory!None /\ Map[id] = Directory!Rule(Before(p).enabled, Before(p).def)
        BY <3>1, <4>1, ShownIs
      <4>3. Map[id].def = last'.rule.def
        BY <3>1, <4>1, <4>2 DEF Directory!Rule
      <4>4. Shown(op[p].rule) = Directory!Rule(last'.rule.enabled, Map[id].def)
        BY <3>3, <4>3
      <4>5. /\ last'.op = "toggle" /\ Map[last'.rule.id] # Directory!None
            /\ Map' = [Map EXCEPT ![last'.rule.id] =
                         Directory!Rule(last'.rule.enabled, Map[last'.rule.id].def)]
        BY <2>1, <3>1, <3>6, <4>2, <4>4
      <4> QED
        BY <4>5, Zenon DEF Directory!Next, Directory!Toggle, Map
    <3> QED
      BY <3>2, <3>4, <3>5, <3>6
  <2>2. ASSUME NEW id \in Ids, p \in Clients, Unlink(p), id = op[p].id,
               files[op[p].file].kind = "rule", RuleAt(id) = Shown(files[op[p].file]),
               Map' = [Map EXCEPT ![id] = Directory!None]
        PROVE  Directory!Next
    <3>1. files[op[p].file] \in ValidRules
      BY <2>0, <2>2 DEF Unlink, Types, OpType, Contents, Absent, Empty, Garbled
    <3>2. last' = [op |-> "delete", id |-> id]
      BY <2>2 DEF Unlink, Absent
    <3>3. Map[id] # Directory!None
      BY <2>2, <3>1, ShownIs DEF Map
    <3> QED
      BY <2>2, <3>2, <3>3 DEF Directory!Next, Directory!Delete, Map
  <2> QED
    BY <1>2, <2>0, <2>1, <2>2, MapStep
<1> QED
  BY <1>1, <1>2, WhoActs

(* Requests one at a time, over files named after their ids, are the       *)
(* operations of a map from ids to rules, truncated files and scans in     *)
(* between included (rule_store.py:38-77).                                 *)
THEOREM DirectoryIsImplemented ==
  ASSUME ShippedByName
  PROVE  Spec => ImplementsDirectory
<1>1. Init => Directory!Init
  BY DEF Init, Directory!Init
<1>2. Sound /\ Sound' /\ [Next]_vars => [clash' \/ Directory!Next]_<<Map, last, clash>>
  BY DirectoryStep
<1>3. Sound /\ Sound' /\ [Next]_vars =>
        [clash' \/ Directory!Next]_<<[id \in Ids |-> RuleAt(id)], last, clash>>
  BY <1>2 DEF Map
<1> QED
  BY <1>1, <1>3, SoundAlways, PTL DEF Spec, ImplementsDirectory, Directory!Spec
===============================================================================
