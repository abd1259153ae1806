------------------------------ MODULE RuleStore ------------------------------
(***************************************************************************)
(* rule_store.py and the rule endpoints of main.py: detection rules are    *)
(* YAML files in one directory, read by every detection pass and rewritten *)
(* in place by API requests. Requests run in threads; nothing locks the    *)
(* directory, so a step here is one file-system operation.                 *)
(*                                                                         *)
(* A rule file is smaller than the stream buffer: open("w") leaves it      *)
(* empty and the content arrives when the file is closed. An unlinked file *)
(* stays writable through the descriptor of whoever had it open.           *)
(***************************************************************************)
EXTENDS Integers, Sequences, FiniteSets

CONSTANTS
    Ids,            \* rule ids
    Defs,           \* what a valid rule matches on
    Files,          \* file names, in the order load_rules sorts them
    Stem,           \* the id a file name stands for
    Yml, Yaml,      \* the names <id>.yml and <id>.yaml of an id
    Shipped,        \* the rules directory at start
    Clients,        \* concurrent API requests
    Engine,         \* the detection pass
    MaxOps,         \* bound: requests and passes started
    MaxCrashes      \* bound: requests cut by a crash

FileSet == { Files[n] : n \in DOMAIN Files }

ASSUME FilesAssumption == /\ Stem \in [FileSet -> Ids]
                          /\ Yml \in [Ids -> FileSet] /\ Yaml \in [Ids -> FileSet]
                          /\ \A id \in Ids : Stem[Yml[id]] = id /\ Stem[Yaml[id]] = id
ASSUME EngineAssumption == Engine \notin Clients

VARIABLES
    files,          \* content of each file name
    op,             \* what each request, and the pass, is in the middle of
    evaluated,      \* enabled rules of the last complete pass
    last,           \* history: the last request answered 200
    clash,          \* history: two requests have overlapped, or one was cut by a crash
    ops, crashes

vars == <<files, op, evaluated, last, clash, ops, crashes>>

Procs == Clients \cup {Engine}

MatchAll == "match_all"         \* no filters: _match_filters is true of every event
RuleOf(id, enabled, def) == [kind |-> "rule", id |-> id, enabled |-> enabled, def |-> def]
ValidRules == { RuleOf(id, b, d) : id \in Ids, b \in BOOLEAN, d \in Defs }

ASSUME ShippedAssumption == \A f \in DOMAIN Shipped : Shipped[f] \in ValidRules

Absent  == [kind |-> "absent"]
Empty   == [kind |-> "empty"]
Garbled == [kind |-> "garbled"] \* two writes overlaid; not YAML
Contents == ValidRules \cup {Absent, Empty, Garbled}

Idle == [pc |-> "idle"]

(* What load_rules makes of a file: an empty one is an empty mapping, whose*)
(* id defaults to the stem, enabled to true and filters to none.           *)
Parsed(f) == IF files[f] = Empty THEN RuleOf(Stem[f], TRUE, MatchAll) ELSE files[f]

Init ==
    /\ files = [f \in FileSet |-> IF f \in DOMAIN Shipped THEN Shipped[f] ELSE Absent]
    /\ op = [p \in Procs |-> Idle]
    /\ evaluated = {}
    /\ last = [op |-> "none"]
    /\ clash = FALSE
    /\ ops = 0 /\ crashes = 0

Begin(p, state) ==
    /\ op[p] = Idle /\ ops < MaxOps
    /\ ops' = ops + 1
    /\ op' = [op EXCEPT ![p] = state]
    /\ clash' = (clash \/ (p \in Clients /\ \E c \in Clients : op[c] # Idle))

-----------------------------------------------------------------------------
(* load_rules: the names are listed first, then each file is opened and    *)
(* parsed in turn. Names are given by their place in the listing order.    *)
Listing == { n \in DOMAIN Files : files[Files[n]] # Absent }

Upcoming(p, n) == op[p].pc = "scan" /\ n \in op[p].todo /\ \A m \in op[p].todo : n <= m

ReadFile(p, n) ==
    /\ Upcoming(p, n)
    /\ files[Files[n]] \notin {Absent, Garbled}
    /\ op' = [op EXCEPT ![p].todo = @ \ {n}, ![p].loaded = @ \cup {<<n, Parsed(Files[n])>>}]
    /\ UNCHANGED <<files, evaluated, last, clash, ops, crashes>>

(* The file is gone since it was listed, or is not YAML: the exception     *)
(* ends the pass, or the request (404 and 500).                            *)
ReadFails(p, n) ==
    /\ Upcoming(p, n)
    /\ files[Files[n]] \in {Absent, Garbled}
    /\ op' = [op EXCEPT ![p] = Idle]
    /\ UNCHANGED <<files, evaluated, last, clash, ops, crashes>>

StartPass ==
    /\ Begin(Engine, [pc |-> "scan", todo |-> Listing, loaded |-> {}])
    /\ UNCHANGED <<files, evaluated, last, crashes>>

EndPass ==
    /\ op[Engine].pc = "scan" /\ op[Engine].todo = {}
    /\ evaluated' = { r \in { x[2] : x \in op[Engine].loaded } : r.enabled }
    /\ op' = [op EXCEPT ![Engine] = Idle]
    /\ UNCHANGED <<files, last, clash, ops, crashes>>

-----------------------------------------------------------------------------
(* Mutant: a new rule's file is not named after its id.                    *)
SavingByName(rule, request) ==
    [pc |-> "save", file |-> IF request = "create" THEN Files[1] ELSE Yml[rule.id],
     rule |-> rule, request |-> request]

(* save_rule, for POST (overwrite or not) and PUT: the existence check,    *)
(* answered 409, then the write.                                           *)
Saving(rule, request) ==
    [pc |-> "save", file |-> Yml[rule.id], rule |-> rule, request |-> request]

(* Mutant: overwrite is taken for granted.                                 *)
SaveRuleUnchecked(c, rule, overwrite) ==
    /\ Begin(c, Saving(rule, IF overwrite THEN "put" ELSE "create"))
    /\ UNCHANGED <<files, evaluated, last, crashes>>

SaveRule(c, rule, overwrite) ==
    /\ ~overwrite => files[Yml[rule.id]] = Absent
    /\ Begin(c, Saving(rule, IF overwrite THEN "put" ELSE "create"))
    /\ UNCHANGED <<files, evaluated, last, crashes>>

(* open("w") creates the file or truncates it. old is history.             *)
OpenFile(c) ==
    LET f == op[c].file
    IN  /\ op[c].pc = "save"
        /\ files' = [files EXCEPT ![f] = Empty]
        /\ op' = [op EXCEPT ![c] = [pc |-> "write", file |-> f, rule |-> op[c].rule,
                                    request |-> op[c].request, linked |-> TRUE,
                                    old |-> files[f]]]
        /\ UNCHANGED <<evaluated, last, clash, ops, crashes>>

(* Mutant: dumping raises after the file was opened.                       *)
CloseFileEmpty(c) ==
    /\ op[c].pc = "write"
    /\ op' = [op EXCEPT ![c] = Idle]
    /\ UNCHANGED <<files, last, evaluated, clash, ops, crashes>>

(* The content goes to the start of the file. If another request has       *)
(* written there since the file was truncated, a longer text leaves its    *)
(* tail behind.                                                            *)
CloseFile(c) ==
    LET f == op[c].file
    IN  /\ op[c].pc = "write"
        /\ \/ /\ op[c].linked
              /\ \E content \in {op[c].rule} \cup (IF files[f] = Empty THEN {} ELSE {Garbled}) :
                    files' = [files EXCEPT ![f] = content]
           \/ ~op[c].linked /\ files' = files
        /\ last' = [op |-> op[c].request, rule |-> op[c].rule]
        /\ op' = [op EXCEPT ![c] = Idle]
        /\ UNCHANGED <<evaluated, clash, ops, crashes>>

-----------------------------------------------------------------------------
(* delete_rule: the existence check picks the file, answering 404 when     *)
(* there is none, then the file is unlinked.                               *)
StartDelete(c, id) ==
    /\ \E f \in {Yml[id], Yaml[id]} :
          /\ files[f] # Absent
          /\ f = Yml[id] \/ files[Yml[id]] = Absent
          /\ Begin(c, [pc |-> "unlink", file |-> f, id |-> id])
    /\ UNCHANGED <<files, evaluated, last, crashes>>

Unlink(c) ==
    LET f == op[c].file
        WritesTo(p) == op[p].pc = "write" /\ op[p].file = f
    IN  /\ op[c].pc = "unlink"
        /\ files' = [files EXCEPT ![f] = Absent]
        /\ last' = IF files[f] = Absent THEN last ELSE [op |-> "delete", id |-> op[c].id]
        /\ op' = [p \in Procs |-> CASE p = c -> Idle
                                    [] WritesTo(p) -> [op[p] EXCEPT !.linked = FALSE]
                                    [] OTHER -> op[p]]
        /\ UNCHANGED <<evaluated, clash, ops, crashes>>

-----------------------------------------------------------------------------
(* set_rule_enabled: get_rule loads the directory and takes the first rule *)
(* of that id; it is written back, whole, to <id>.yml.                     *)
StartToggle(c, id, enabled) ==
    /\ Begin(c, [pc |-> "scan", todo |-> Listing, loaded |-> {},
                 id |-> id, enabled |-> enabled])
    /\ UNCHANGED <<files, evaluated, last, crashes>>

Found(c) ==
    LET named == { x \in op[c].loaded : x[2].id = op[c].id }
    IN  { x[2] : x \in { x \in named : \A y \in named : x[1] <= y[1] } }

(* Unknown id: 404. Read while the file was empty: it has no name, 400.    *)
EndToggle(c) ==
    /\ c \in Clients /\ op[c].pc = "scan" /\ op[c].todo = {}
    /\ \/ /\ \A r \in Found(c) : r.def = MatchAll
          /\ op' = [op EXCEPT ![c] = Idle]
       \/ \E r \in Found(c) :
             /\ r.def # MatchAll
             /\ op' = [op EXCEPT ![c] =
                         Saving(RuleOf(r.id, op[c].enabled, r.def), "toggle")]
    /\ UNCHANGED <<files, evaluated, last, clash, ops, crashes>>

-----------------------------------------------------------------------------
(* The API process dies in the middle of a request: buffered text is lost. *)
Crash(p) ==
    /\ op[p] # Idle /\ crashes < MaxCrashes
    /\ crashes' = crashes + 1
    /\ clash' = (clash \/ p \in Clients)
    /\ op' = [op EXCEPT ![p] = Idle]
    /\ UNCHANGED <<files, evaluated, last, ops>>

Request(c) ==
    \/ \E rule \in ValidRules, overwrite \in BOOLEAN : SaveRule(c, rule, overwrite)
    \/ OpenFile(c) \/ CloseFile(c)
    \/ \E id \in Ids : StartDelete(c, id)
    \/ Unlink(c)
    \/ \E id \in Ids, enabled \in BOOLEAN : StartToggle(c, id, enabled)
    \/ EndToggle(c)

Next ==
    \/ \E c \in Clients : Request(c)
    \/ StartPass \/ EndPass
    \/ \E p \in Procs :
          Crash(p) \/ \E n \in DOMAIN Files : ReadFile(p, n) \/ ReadFails(p, n)

Spec == Init /\ [][Next]_vars

-----------------------------------------------------------------------------
TypeOK ==
    /\ files \in [FileSet -> Contents]
    /\ DOMAIN op = Procs
    /\ \A p \in Procs : op[p].pc \in {"idle", "scan", "save", "write", "unlink"}
    /\ clash \in BOOLEAN
    /\ \A r \in evaluated : r.id \in Ids /\ r.enabled /\ r.def \in Defs \cup {MatchAll}

AtRest == \A c \in Clients : op[c] = Idle

(* With no request in progress every file is a whole rule, so that passes  *)
(* run: one bad file makes load_rules raise and stops all detection. So it *)
(* is until requests overlap or crash; and even when they race on a file,  *)
(* a write leaves no empty file behind it: only a crash does, one at most  *)
(* (rule_store.py:18-21, 52-53).                                           *)
Stranded ==
    { f \in FileSet : files[f] = Empty /\ ~ \E c \in Clients :
        op[c].pc = "write" /\ op[c].file = f /\ op[c].linked }

RestIsReadable ==
    /\ AtRest /\ ~clash => \A f \in FileSet : files[f] \notin {Empty, Garbled}
    /\ Cardinality(Stranded) <= crashes

(* No id is declared by two files, whatever requests race: deduplication   *)
(* and get_rule take the id for the rule. Holds when the files the         *)
(* directory starts with are named after their ids (rule_store.py:49).     *)
OneFilePerId ==
    \A f, g \in FileSet :
        /\ files[f].kind = "rule" /\ files[g].kind = "rule" /\ files[f].id = files[g].id
        => f = g

(* rule_validate.py:66 and test_rule_create.py:77-79: match filters are    *)
(* required. No pass evaluates a rule that has none.                       *)
NoMatchAllRule == \A r \in evaluated : r.def # MatchAll

(* test_rule_create.py:111-114: after a rule is disabled it loads as       *)
(* disabled. Once the request has been answered no file declares the rule  *)
(* enabled, unless requests have overlapped.                               *)
DisableSticks ==
    [][(last' # last /\ last'.op = "toggle" /\ ~last'.rule.enabled /\ ~clash') =>
         \A f \in FileSet : files'[f].kind = "rule" /\ files'[f].id = last'.rule.id =>
            ~files'[f].enabled]_vars

(* rule_store.py:50-51: a save without overwrite refuses an existing rule. *)
CreateNeverOverwrites ==
    \A c \in Clients :
        op[c].pc = "write" /\ op[c].request = "create" => op[c].old = Absent

-----------------------------------------------------------------------------
(* The rules the directory defines, as a map from ids. A file counts as    *)
(* what it was until the write in progress on it is complete.              *)
Stored(f) ==
    LET writing(c) == op[c].pc = "write" /\ op[c].file = f /\ op[c].linked
    IN  IF \E c \in Clients : writing(c) THEN op[CHOOSE c \in Clients : writing(c)].old
        ELSE files[f]

RuleAt(id) ==
    LET declares(f) == Stored(f).kind = "rule" /\ Stored(f).id = id
    IN  IF \E f \in FileSet : declares(f)
        THEN LET f == CHOOSE f \in FileSet : declares(f)
             IN  [enabled |-> Stored(f).enabled, def |-> Stored(f).def]
        ELSE [def |-> "none"]

Directory == INSTANCE RuleDirectory WITH rules <- [id \in Ids |-> RuleAt(id)], off <- clash

(* Requests one at a time, over files named after their ids, are the       *)
(* operations of a map from ids to rules: a save replaces one rule and no  *)
(* other, a toggle keeps what the rule matches, a delete removes it        *)
(* (rule_store.py:38-77).                                                  *)
ImplementsDirectory == Directory!Spec
=============================================================================
