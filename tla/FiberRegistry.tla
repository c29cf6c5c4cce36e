---------------------------- MODULE FiberRegistry -----------------------------
(***************************************************************************)
(* The tables of the optical network, nms/fiber_routes.py: a directory of  *)
(* ODPs or of OLTs, and the ONTs that refer to its rows by name, in        *)
(* whatever case. The two directories have the same handlers, and no       *)
(* statement relates an ONT's column odp_name to its olt_name: the module  *)
(* follows one column at a time, and kind says which.                      *)
(*                                                                         *)
(* A handler of a single row reads, and writes in a transaction of its own *)
(* without db_lock. The import of a CSV file and the discovery of an OLT   *)
(* hold db_lock; SQLite's write lock is theirs from their first write to   *)
(* their commit, so what they read before it may be old.                   *)
(***************************************************************************)
EXTENDS Integers, Sequences

CONSTANTS
    MaxDir,        \* bound on the ids of odps or olts
    MaxOnt,        \* bound on the ids of fiber_onts
    Names,         \* names of ODPs or OLTs
    NoName,        \* the empty name
    Key,           \* a name in lower case
    Sns,           \* ONT serial numbers
    NoSn,
    Indices,       \* index of an ONT at its OLT
    NoIndex,
    DiscoveredSn,  \* _discover_sn: the serial number made of a name and an index
    Forms,         \* rows that users type
    Files,         \* CSV files that users import
    Threads,       \* request threads
    NoThread,
    MaxRequests,   \* bound on the number of requests
    Faults         \* may SQLite refuse a statement or a commit as locked?

DirIds == 1..MaxDir
OntIds == 1..MaxOnt

\* Rx is kept as where it comes from: typed, or read from the device.
Ont == [sn : Sns, at : Names \cup {NoName}, idx : Indices \cup {NoIndex},
        src : {"manual", "snmp"}, rx : {"user", "device"}]
NoOnt == [sn |-> NoSn, at |-> NoName, idx |-> NoIndex, src |-> "none", rx |-> "none"]

\* A line of a file: an empty cell is NoName, NoIndex or "empty".
Line == [sn : Sns, at : Names \cup {NoName}, idx : Indices \cup {NoIndex},
         src : {"manual", "snmp", "empty"}, rx : {"user", "empty"}]

ASSUME BoundAssumption == MaxDir \in Nat \ {0} /\ MaxOnt \in Nat \ {0}
ASSUME NameAssumption ==
    /\ NoName \notin Names
    /\ Key \in [Names \cup {NoName} -> Names \cup {NoName}]
    /\ \A n \in Names : Key[n] # NoName
ASSUME SnAssumption ==
    /\ NoSn \notin Sns
    /\ DiscoveredSn \in [Names -> [Indices -> Sns]]
ASSUME FormAssumption == Forms \subseteq {o \in Ont : o.rx = "user"}
ASSUME FileAssumption == Files \subseteq Seq(Line)
ASSUME ThreadAssumption ==
    NoThread \notin Threads /\ MaxRequests \in Nat /\ Faults \in BOOLEAN

VARIABLES
    kind,    \* which directory: it never changes
    dir,     \* odps or olts: the name of a row
    onts,    \* fiber_onts
    last,    \* AUTOINCREMENT: the last id of each table
    mem,     \* fiber_alarm_memory: the ids it has an entry for
    lock,    \* the thread that holds db_lock
    tx,      \* the open transaction of the holder of db_lock
    req,     \* local state of the requests
    targets, \* poll_fiber_snmp: the ONTs it has new values of
    ghosts,  \* history: ids that were seeded and rolled back
    begun    \* history: number of requests

vars == <<kind, dir, onts, last, mem, lock, tx, req, targets, ghosts, begun>>

NoTx == [open |-> FALSE, onts |-> [i \in OntIds |-> NoOnt], last |-> 0]
Idle == [pc |-> "idle", id |-> 0, name |-> NoName, old |-> NoName, cur |-> NoOnt,
         file |-> <<>>, upsert |-> FALSE, n |-> 0, found |-> {},
         listed |-> [x \in Indices |-> 0], manual |-> {}, update |-> FALSE]

Phases == {"idle", "create", "named", "rename", "delete",    \* ODP or OLT
           "written", "loaded", "forget",                    \* one ONT
           "lines", "line", "found",                         \* import
           "walked", "listed"}                               \* discovery
Request == [pc : Phases, id : Nat, name : Names \cup {NoName},
            old : Names \cup {NoName}, cur : Ont \cup {NoOnt},
            file : Files \cup {<<>>}, upsert : BOOLEAN, n : Nat, found : SUBSET Indices,
            listed : [Indices -> {0} \cup OntIds], manual : SUBSET Indices,
            update : BOOLEAN]

TypeOK ==
    /\ kind \in {"odp", "olt"}
    /\ dir \in [DirIds -> Names \cup {NoName}]
    /\ onts \in [OntIds -> Ont \cup {NoOnt}]
    /\ last \in [dir : 0..MaxDir, ont : 0..MaxOnt]
    /\ mem \subseteq OntIds
    /\ lock \in Threads \cup {NoThread}
    /\ tx \in [open : BOOLEAN, onts : [OntIds -> Ont \cup {NoOnt}], last : 0..MaxOnt]
    /\ req \in [Threads -> Request]
    /\ targets \subseteq OntIds
    /\ ghosts \subseteq OntIds
    /\ begun \in 0..MaxRequests

\* A directory with one row and no ONT yet.
Init ==
    /\ kind \in {"odp", "olt"}
    /\ \E name \in Names : dir = [d \in DirIds |-> IF d = 1 THEN name ELSE NoName]
    /\ onts = [i \in OntIds |-> NoOnt]
    /\ last = [dir |-> 1, ont |-> 0]
    /\ mem = {}
    /\ lock = NoThread
    /\ tx = NoTx
    /\ req = [t \in Threads |-> Idle]
    /\ targets = {}
    /\ ghosts = {}
    /\ begun = 0

-----------------------------------------------------------------------------
(* Names and rows                                                           *)

\* COLLATE NOCASE
Same(m, n) == Key[m] = Key[n]

Rows        == {i \in OntIds : onts[i] # NoOnt}
Referring(n) == {i \in Rows : Same(onts[i].at, n)}
NameTaken(n, d) == \E e \in DirIds \ {d} : dir[e] # NoName /\ Same(dir[e], n)
KnownTo(names, n) == \E d \in DirIds : names[d] # NoName /\ Same(names[d], n)

\* Mutant: no writer waits for another.
WritableAlways == TRUE

\* SQLite lets one transaction write at a time; the others wait for it.
Writable == ~tx.open

Goto(t, phase) == req' = [req EXCEPT ![t].pc = phase]
Answer(t)      == req' = [req EXCEPT ![t] = Idle]

\* A free thread takes a request; r is its state after the first step.
Begin(t, r) ==
    /\ req[t].pc = "idle"
    /\ begun < MaxRequests
    /\ begun' = begun + 1
    /\ req' = [req EXCEPT ![t] = r]

-----------------------------------------------------------------------------
(* The handlers of the directory                                            *)

\* api_odp_create, api_olt_create: the name is looked up in any case.
CheckNewName(t, name) ==
    /\ ~NameTaken(name, 0)
    /\ Begin(t, [Idle EXCEPT !.pc = "create", !.name = name])
    /\ UNCHANGED <<kind, dir, onts, last, mem, lock, tx, targets, ghosts>>

\* The column is UNIQUE in exactly this case only.
InsertRow(t) ==
    /\ req[t].pc = "create"
    /\ Writable
    /\ IF \E d \in DirIds : dir[d] = req[t].name
       THEN UNCHANGED <<dir, last>>
       ELSE /\ last.dir < MaxDir
            /\ dir' = [dir EXCEPT ![last.dir + 1] = req[t].name]
            /\ last' = [last EXCEPT !.dir = @ + 1]
    /\ Answer(t)
    /\ UNCHANGED <<kind, onts, mem, lock, tx, targets, ghosts, begun>>

\* api_odp_update, api_olt_update: the old name is read, then the new one is
\* looked up.
ReadOldName(t, d, name) ==
    /\ dir[d] # NoName
    /\ Begin(t, [Idle EXCEPT !.pc = "named", !.id = d,
                                              !.name = name, !.old = dir[d]])
    /\ UNCHANGED <<kind, dir, onts, last, mem, lock, tx, targets, ghosts>>

CheckName(t) ==
    /\ req[t].pc = "named"
    /\ IF NameTaken(req[t].name, req[t].id) THEN Answer(t) ELSE Goto(t, "rename")
    /\ UNCHANGED <<kind, dir, onts, last, mem, lock, tx, targets, ghosts, begun>>

\* Mutant: the ONTs are matched in the exact case.
MovedExactly(old, new) ==
    [i \in OntIds |-> IF i \in Rows /\ onts[i].at = old
                      THEN [onts[i] EXCEPT !.at = new] ELSE onts[i]]

\* The ONTs follow their ODP or OLT to its new name.
Moved(old, new) ==
    [i \in OntIds |-> IF i \in Referring(old)
                      THEN [onts[i] EXCEPT !.at = new] ELSE onts[i]]

\* A row deleted meanwhile is not updated, but its ONTs are.
Rename(t) ==
    /\ req[t].pc = "rename"
    /\ Writable
    /\ LET d == req[t].id  old == req[t].old  new == req[t].name
       IN  IF dir[d] # NoName /\ \E e \in DirIds \ {d} : dir[e] = new
           THEN UNCHANGED <<dir, onts>>
           ELSE /\ dir' = [dir EXCEPT ![d] = IF @ = NoName THEN @ ELSE new]
                /\ onts' = IF Same(old, new) THEN onts ELSE Moved(old, new)
    /\ Answer(t)
    /\ UNCHANGED <<kind, last, mem, lock, tx, targets, ghosts, begun>>

\* api_odp_delete, api_olt_delete.
ReadName(t, d) ==
    /\ dir[d] # NoName
    /\ Begin(t, [Idle EXCEPT !.pc = "delete", !.id = d, !.old = dir[d]])
    /\ UNCHANGED <<kind, dir, onts, last, mem, lock, tx, targets, ghosts>>

\* Mutant: the ONTs of an ODP keep its name as well.
DeleteRowOnly(t) ==
    /\ req[t].pc = "delete"
    /\ Writable
    /\ dir' = [dir EXCEPT ![req[t].id] = NoName]
    /\ Answer(t)
    /\ UNCHANGED <<kind, onts, last, mem, lock, tx, targets, ghosts, begun>>

\* The ONTs of a deleted ODP lose its name, those of a deleted OLT keep it.
DeleteRow(t) ==
    /\ req[t].pc = "delete"
    /\ Writable
    /\ dir' = [dir EXCEPT ![req[t].id] = NoName]
    /\ onts' = IF kind = "odp" THEN Moved(req[t].old, NoName) ELSE onts
    /\ Answer(t)
    /\ UNCHANGED <<kind, last, mem, lock, tx, targets, ghosts, begun>>

-----------------------------------------------------------------------------
(* The handlers of one ONT                                                  *)

SnOwner(table, sn) == {i \in OntIds : table[i] # NoOnt /\ table[i].sn = sn}

\* Mutant: an id freed by a deletion is given to the next row.
CreateOntReusing(t, form) ==
    /\ Writable
    /\ SnOwner(onts, form.sn) = {}
    /\ \E i \in OntIds \ Rows :
          /\ \A j \in OntIds \ Rows : i <= j
          /\ onts' = [onts EXCEPT ![i] = form]
          /\ last' = [last EXCEPT !.ont = IF i > @ THEN i ELSE @]
          /\ Begin(t, [Idle EXCEPT !.pc = "written", !.id = i])
    /\ UNCHANGED <<kind, dir, mem, lock, tx, targets, ghosts>>

\* api_fiber_create, up to its commit.
CreateOnt(t, form) ==
    /\ Writable
    /\ SnOwner(onts, form.sn) = {}
    /\ last.ont < MaxOnt
    /\ onts' = [onts EXCEPT ![last.ont + 1] = form]
    /\ last' = [last EXCEPT !.ont = @ + 1]
    /\ Begin(t, [Idle EXCEPT !.pc = "written", !.id = last.ont + 1])
    /\ UNCHANGED <<kind, dir, mem, lock, tx, targets, ghosts>>

\* api_fiber_update, up to its commit: the form replaces the whole row.
UpdateOnt(t, i, form) ==
    /\ Writable
    /\ i \in Rows
    /\ SnOwner(onts, form.sn) \subseteq {i}
    /\ onts' = [onts EXCEPT ![i] = form]
    /\ Begin(t, [Idle EXCEPT !.pc = "written", !.id = i])
    /\ UNCHANGED <<kind, dir, last, mem, lock, tx, targets, ghosts>>

\* _fiber_single_check reads the row again, and later writes the memory. Its
\* decision and its messages are in FiberAlarm.
LoadRow(t) ==
    /\ req[t].pc = "written"
    /\ IF req[t].id \in Rows THEN Goto(t, "loaded") ELSE Answer(t)
    /\ UNCHANGED <<kind, dir, onts, last, mem, lock, tx, targets, ghosts, begun>>

Remember(t) ==
    /\ req[t].pc = "loaded"
    /\ mem' = mem \cup {req[t].id}
    /\ Answer(t)
    /\ UNCHANGED <<kind, dir, onts, last, lock, tx, targets, ghosts, begun>>

\* api_fiber_delete: the memory is struck after the commit.
DeleteOnt(t, i) ==
    /\ Writable
    /\ i \in Rows
    /\ onts' = [onts EXCEPT ![i] = NoOnt]
    /\ Begin(t, [Idle EXCEPT !.pc = "forget", !.id = i])
    /\ UNCHANGED <<kind, dir, last, mem, lock, tx, targets, ghosts>>

Forget(t) ==
    /\ req[t].pc = "forget"
    /\ mem' = mem \ {req[t].id}
    /\ Answer(t)
    /\ UNCHANGED <<kind, dir, onts, last, lock, tx, targets, ghosts, begun>>

-----------------------------------------------------------------------------
(* The transaction of the holder of db_lock                                 *)

Begun == IF tx.open THEN tx ELSE [open |-> TRUE, onts |-> onts, last |-> last.ont]

\* It sees its own writes.
View == IF tx.open THEN tx.onts ELSE onts

\* A row that is gone stays so.
WriteOnt(i, o) ==
    tx' = [Begun EXCEPT !.onts[i] = IF @ = NoOnt THEN @ ELSE o]

AddOnt(o) ==
    /\ Begun.last < MaxOnt
    /\ tx' = [Begun EXCEPT !.onts[Begun.last + 1] = o, !.last = @ + 1]
    /\ mem' = mem \cup {Begun.last + 1}

Commit(t) ==
    /\ onts' = View
    /\ last' = IF tx.open THEN [last EXCEPT !.ont = tx.last] ELSE last
    /\ tx' = NoTx
    /\ lock' = NoThread
    /\ Answer(t)
    /\ UNCHANGED <<kind, dir, mem, targets, ghosts, begun>>

-----------------------------------------------------------------------------
(* api_fiber_import                                                         *)

CurrentLine(t) == req[t].file[req[t].n]
NextLine(t) == req' = [req EXCEPT ![t].pc = "lines", ![t].n = @ + 1]

TakeFile(t, file, upsert) ==
    /\ lock = NoThread
    /\ lock' = t
    /\ Begin(t, [Idle EXCEPT !.pc = "lines", !.file = file,
                                              !.upsert = upsert, !.n = 1])
    /\ UNCHANGED <<kind, dir, onts, last, mem, tx, targets, ghosts>>

\* Mode skip: a line whose serial number has a row is passed over.
SkipLine(t) ==
    /\ req[t].pc = "lines"
    /\ ~req[t].upsert
    /\ req[t].n <= Len(req[t].file)
    /\ SnOwner(View, CurrentLine(t).sn) # {}
    /\ NextLine(t)
    /\ UNCHANGED <<kind, dir, onts, last, mem, lock, tx, targets, ghosts, begun>>

\* Outside the transaction the id and the row are two reads; a row deleted
\* between them makes the line an error.
FindRow(t) ==
    /\ req[t].pc = "lines"
    /\ req[t].n <= Len(req[t].file)
    /\ ~tx.open
    /\ LET owner == SnOwner(onts, CurrentLine(t).sn)
       IN  IF owner = {}
           THEN req' = [req EXCEPT ![t].pc = "line", ![t].id = 0]
           ELSE /\ req[t].upsert
                /\ \E i \in owner : req' = [req EXCEPT ![t].pc = "found", ![t].id = i]
    /\ UNCHANGED <<kind, dir, onts, last, mem, lock, tx, targets, ghosts, begun>>

ReadRow(t) ==
    /\ req[t].pc = "found"
    /\ IF req[t].id \in Rows
       THEN req' = [req EXCEPT ![t].pc = "line", ![t].cur = onts[req[t].id]]
       ELSE NextLine(t)
    /\ UNCHANGED <<kind, dir, onts, last, mem, lock, tx, targets, ghosts, begun>>

\* Mutant: empty cells are written.
CellAsRead(value, empty, old) == value

\* What a cell of a file makes of a column.
Cell(value, empty, old) == IF value = empty THEN old ELSE value

\* A row of the file over the row it updates: empty cells keep what is there.
Merged(line, cur) ==
    [cur EXCEPT !.at  = Cell(line.at, NoName, @),
                !.idx = Cell(line.idx, NoIndex, @),
                !.src = Cell(line.src, "empty", @),
                !.rx  = Cell(line.rx, "empty", @)]

New(line) == [sn |-> line.sn, at |-> line.at, idx |-> line.idx,
              src |-> Cell(line.src, "empty", "manual"), rx |-> "user"]

\* The serial number is not among the columns written.
Update(t, i, cur) ==
    /\ WriteOnt(i, [Merged(CurrentLine(t), cur) EXCEPT !.sn = View[i].sn])
    /\ mem' = mem \cup {i}

\* A serial number that was taken since it was looked up: the line is skipped,
\* but the transaction is open.
Insert(t) ==
    IF SnOwner(View, CurrentLine(t).sn) # {}
    THEN tx' = Begun /\ UNCHANGED mem
    ELSE AddOnt(New(CurrentLine(t)))

\* The first line written opens the transaction with what was read before it.
WriteFirstLine(t) ==
    /\ req[t].pc = "line"
    /\ IF req[t].id # 0 THEN Update(t, req[t].id, req[t].cur) ELSE Insert(t)
    /\ NextLine(t)
    /\ UNCHANGED <<kind, dir, onts, last, lock, targets, ghosts, begun>>

\* The others read what they update inside the transaction.
WriteLine(t) ==
    /\ req[t].pc = "lines"
    /\ req[t].n <= Len(req[t].file)
    /\ tx.open
    /\ LET owner == SnOwner(View, CurrentLine(t).sn)
       IN  IF owner = {} THEN Insert(t)
                         ELSE /\ req[t].upsert
                              /\ \E i \in owner : Update(t, i, View[i])
    /\ NextLine(t)
    /\ UNCHANGED <<kind, dir, onts, last, lock, targets, ghosts, begun>>

\* A refused statement is noted as an error of its line.
RefuseLine(t) ==
    /\ Faults
    /\ req[t].pc = "line"
    /\ NextLine(t)
    /\ UNCHANGED <<kind, dir, onts, last, mem, lock, tx, targets, ghosts, begun>>

CommitFile(t) ==
    /\ req[t].pc = "lines"
    /\ req[t].n > Len(req[t].file)
    /\ Commit(t)

Import(t) ==
    \/ \E file \in Files, upsert \in BOOLEAN : TakeFile(t, file, upsert)
    \/ SkipLine(t) \/ FindRow(t) \/ ReadRow(t) \/ WriteFirstLine(t) \/ WriteLine(t)
    \/ RefuseLine(t) \/ CommitFile(t)

-----------------------------------------------------------------------------
(* api_olt_discover                                                         *)

\* The OLT is read, and walked without a lock: these indices answer.
Walk(t, d, found) ==
    /\ kind = "olt"
    /\ dir[d] # NoName
    /\ Begin(t, [Idle EXCEPT !.pc = "walked", !.old = dir[d],
                                              !.found = found])
    /\ UNCHANGED <<kind, dir, onts, last, mem, lock, tx, targets, ghosts>>

Holds(i, name, x) == i \in Referring(name) /\ onts[i].idx = x

\* The rows of an OLT by index: of two with one index the later.
Lists(table, name) ==
    \A x \in Indices :
       IF \E i \in OntIds : Holds(i, name, x)
       THEN /\ table[x] # 0
            /\ Holds(table[x], name, x)
            /\ \A i \in OntIds : Holds(i, name, x) => i <= table[x]
       ELSE table[x] = 0

\* The request in state r has read the table under db_lock.
Listed(r, table, update) ==
    [r EXCEPT !.pc = "listed", !.listed = table, !.update = update,
              !.manual = {x \in Indices : table[x] # 0 /\ onts[table[x]].src # "snmp"}]

List(t) ==
    /\ req[t].pc = "walked"
    /\ lock = NoThread
    /\ lock' = t
    /\ \E table \in [Indices -> {0} \cup OntIds], update \in BOOLEAN :
          /\ Lists(table, req[t].old)
          /\ req' = [req EXCEPT ![t] = Listed(@, table, update)]
    /\ UNCHANGED <<kind, dir, onts, last, mem, tx, targets, ghosts, begun>>

Discovered(name, x) == [sn |-> DiscoveredSn[name][x], at |-> name, idx |-> x,
                        src |-> "snmp", rx |-> "device"]

\* Mutant: rows typed by hand are updated as well.
SkipsUnlessUpdate(r, x) == r.listed[x] # 0 /\ ~r.update

\* Rows typed by hand are left alone, and with update=0 all rows are.
Skips(r, x) == r.listed[x] # 0 /\ (x \in r.manual \/ ~r.update)

\* One index of the walk: its row is updated or made.
TakeIndex(t, x) ==
    /\ req[t].pc = "listed"
    /\ x \in req[t].found
    /\ LET i == req[t].listed[x]
           new == Discovered(req[t].old, x)
       IN  IF Skips(req[t], x) THEN UNCHANGED <<tx, mem>>
           ELSE IF i # 0
                THEN /\ WriteOnt(i, [View[i] EXCEPT !.rx = "device"])
                     /\ mem' = mem \cup {i}
           ELSE IF SnOwner(View, new.sn) # {}
                THEN tx' = Begun /\ UNCHANGED mem
                ELSE AddOnt(new)
    /\ req' = [req EXCEPT ![t].found = @ \ {x}]
    /\ UNCHANGED <<kind, dir, onts, last, lock, targets, ghosts, begun>>

CommitRows(t) ==
    /\ req[t].pc = "listed"
    /\ req[t].found = {}
    /\ Commit(t)

Discover(t) ==
    \/ \E d \in DirIds, found \in SUBSET Indices : Walk(t, d, found)
    \/ List(t)
    \/ \E x \in Indices : TakeIndex(t, x)
    \/ CommitRows(t)

-----------------------------------------------------------------------------
(* Refusals, poll_fiber_snmp, the specification                             *)

\* The write of a request is refused: it is answered with an error.
Refuse(t) ==
    /\ Faults
    /\ req[t].pc \in {"create", "rename", "delete"}
    /\ Answer(t)
    /\ UNCHANGED <<kind, dir, onts, last, mem, lock, tx, targets, ghosts, begun>>

\* The first write of a discovery, or the commit of either, is refused: the
\* rows are rolled back, the memory is not.
RollBack(t) ==
    /\ Faults
    /\ lock = t
    /\ \/ req[t].pc = "listed" /\ (tx.open => req[t].found = {})
       \/ req[t].pc = "lines" /\ req[t].n > Len(req[t].file)
    /\ tx' = NoTx
    /\ lock' = NoThread
    /\ ghosts' = IF tx.open THEN ghosts \cup (last.ont + 1)..tx.last ELSE ghosts
    /\ Answer(t)
    /\ UNCHANGED <<kind, dir, onts, last, mem, targets, begun>>

\* poll_fiber_snmp asks for the ONTs whose OLT it finds by its exact name.
Ask(answered) ==
    /\ kind = "olt"
    /\ targets = {}
    /\ answered \subseteq {i \in Rows : /\ onts[i].src = "snmp"
                                        /\ onts[i].idx # NoIndex
                                        /\ onts[i].at # NoName
                                        /\ \E d \in DirIds : dir[d] = onts[i].at}
    /\ targets' = answered
    /\ UNCHANGED <<kind, dir, onts, last, mem, lock, tx, req, ghosts, begun>>

\* Under db_lock, by id alone.
WriteValues ==
    /\ targets # {}
    /\ lock = NoThread
    /\ onts' = [i \in OntIds |-> IF i \in targets \cap Rows
                                 THEN [onts[i] EXCEPT !.rx = "device"] ELSE onts[i]]
    /\ targets' = {}
    /\ UNCHANGED <<kind, dir, last, mem, lock, tx, req, ghosts, begun>>

RefuseValues ==
    /\ Faults
    /\ targets # {}
    /\ targets' = {}
    /\ UNCHANGED <<kind, dir, onts, last, mem, lock, tx, req, ghosts, begun>>

\* All requests that the bound allows are answered.
Rest ==
    /\ begun = MaxRequests
    /\ targets = {}
    /\ \A t \in Threads : req[t].pc = "idle"
    /\ UNCHANGED vars

Directory(t) ==
    \/ \E name \in Names : CheckNewName(t, name)
    \/ InsertRow(t)
    \/ \E d \in DirIds, name \in Names : ReadOldName(t, d, name)
    \/ CheckName(t) \/ Rename(t)
    \/ \E d \in DirIds : ReadName(t, d)
    \/ DeleteRow(t)

OneOnt(t) ==
    \/ \E form \in Forms : CreateOnt(t, form)
    \/ \E i \in OntIds, form \in Forms : UpdateOnt(t, i, form)
    \/ LoadRow(t) \/ Remember(t)
    \/ \E i \in OntIds : DeleteOnt(t, i)
    \/ Forget(t)

Poll == (\E answered \in SUBSET OntIds : Ask(answered)) \/ WriteValues \/ RefuseValues

Next ==
    \/ \E t \in Threads :
          \/ Directory(t) \/ OneOnt(t) \/ Import(t) \/ Discover(t)
          \/ Refuse(t) \/ RollBack(t)
    \/ Poll
    \/ Rest

Spec == Init /\ [][Next]_vars

-----------------------------------------------------------------------------
(* Properties                                                               *)

\* The write of a rename or a deletion (or its refusal).
Ends(t) == req[t].pc \in {"rename", "delete"} /\ req'[t].pc = "idle"

\* A rename or a deletion leaves no ONT behind with a name that is gone, in
\* whatever case the ONT has it, unless the name it had read is no longer the
\* row's: then another handler of the same row was faster. Only the deletion
\* of an OLT leaves the names of its ONTs.
NoneLeftBehind ==
    [][\A t \in Threads :
          Ends(t) /\ dir[req[t].id] = req[t].old
          => \/ kind = "olt" /\ req[t].pc = "delete"
             \/ \A i \in Rows : KnownTo(dir, onts[i].at)
                               => onts'[i].at = NoName \/ KnownTo(dir', onts'[i].at)]_vars

\* Renames and deletions treat the ONTs of one ODP or OLT alike, whatever else
\* is under way: those that shared a name still do.
GroupsStay ==
    [][\A t \in Threads :
          Ends(t) => \A i, j \in Rows :
                        Same(onts[i].at, onts[j].at) => Same(onts'[i].at, onts'[j].at)]_vars

\* ONTs go with the name of their ODP or OLT, all of them and the same way.
NamesAreFollowed == NoneLeftBehind /\ GroupsStay

\* An import changes the name in a row only if the file has a cell for it, or in
\* the one row it read before its transaction began: what others wrote meanwhile
\* is kept, though they do not take db_lock.
ImportKeepsNames ==
    [][\A t \in Threads :
          req[t].file # <<>> /\ req'[t].pc = "idle"
          => \A i \in Rows :
                \/ onts'[i].at = onts[i].at
                \/ i = req[t].id
                \/ \E n \in DOMAIN req[t].file :
                      req[t].file[n].sn = onts[i].sn /\ req[t].file[n].at # NoName]_vars

\* A typed measurement of a manual row is replaced by a device's only if the
\* row was not manual yet when the discovery or the poll that does so read it.
\* Neither changes what the row refers to. An import puts a device's measurement
\* over a typed one in the row it read before its transaction began, if it was
\* the device's then.
TypedValuesKept ==
    [][\A i \in Rows :
          onts[i].rx = "user" /\ onts'[i].rx = "device"
          => \/ /\ onts'[i] = [onts[i] EXCEPT !.rx = "device"]
                /\ onts[i].src = "manual"
                   => \/ i \in targets
                      \/ \E x \in Indices, t \in Threads :
                            req[t].listed[x] = i /\ x \notin req[t].manual
             \/ \E t \in Threads : /\ req[t].pc = "lines" /\ req'[t].pc = "idle"
                                   /\ req[t].id = i /\ req[t].cur.rx = "device"]_vars

\* Who writes rows it has read before writes over nothing that others have
\* written since, with the two exceptions named above.
OthersAreKept == ImportKeepsNames /\ TypedValuesKept

\* An ONT created by hand gets an id the alarm memory knows nothing of, although
\* the memory is seeded before the commit and struck after it; only ids that
\* were seeded and rolled back come again.
NewRowHasNoMemory ==
    [][\A t \in Threads, i \in OntIds \ Rows :
          onts'[i] # NoOnt /\ req'[t].pc = "written" /\ req'[t].id = i
          => i \notin mem \ ghosts]_vars
=============================================================================
