------------------------- MODULE FiberRegistryProofs --------------------------
(***************************************************************************)
(* Theorems about FiberRegistry for any names, forms, files, number of     *)
(* rows, threads and requests.                                             *)
(***************************************************************************)
EXTENDS FiberRegistry, SequenceTheorems, TLAPS

USE BoundAssumption, NameAssumption, SnAssumption, FormAssumption, FileAssumption,
    ThreadAssumption

-----------------------------------------------------------------------------
(* Type correctness                                                         *)

\* What a request knows in the phase it is in.
Local(r) ==
    /\ r.pc \in {"create", "named", "rename"} => r.name \in Names
    /\ r.pc \in {"named", "rename", "delete", "walked", "listed"} => r.old \in Names
    /\ r.pc \in {"named", "rename", "delete"} => r.id \in DirIds
    /\ r.pc \in {"written", "loaded", "found"} => r.id \in OntIds
    /\ r.pc = "line" => r.id \in {0} \cup OntIds /\ (r.id # 0 => r.cur \in Ont)
    /\ r.pc \in {"lines", "found", "line"} => r.file \in Files /\ r.n \in Nat \ {0}
    /\ r.pc \in {"found", "line"} => r.n <= Len(r.file)

TypeInv == TypeOK /\ \A t \in Threads : Local(req[t])

LEMMA IdleType == Idle \in Request /\ Local(Idle)
  BY DEF Idle, Request, Phases, Local, NoOnt, OntIds

LEMMA LineType ==
  ASSUME NEW r \in Request, r.file \in Files, r.n \in Nat \ {0}, r.n <= Len(r.file)
  PROVE  r.file[r.n] \in Line
<1>1. r.file \in Seq(Line)
  OBVIOUS
<1>2. r.n \in 1..Len(r.file)
  BY <1>1, LenProperties
<1>3. QED
  BY <1>1, <1>2, ElementOfSeq

LEMMA MergedType ==
  ASSUME NEW line \in Line, NEW cur \in Ont, NEW sn \in Sns
  PROVE  [Merged(line, cur) EXCEPT !.sn = sn] \in Ont
<1>1. /\ Cell(line.at, NoName, cur.at) \in Names \cup {NoName}
      /\ Cell(line.idx, NoIndex, cur.idx) \in Indices \cup {NoIndex}
      /\ Cell(line.src, "empty", cur.src) \in {"manual", "snmp"}
      /\ Cell(line.rx, "empty", cur.rx) \in {"user", "device"}
  BY DEF Cell, Line, Ont
<1>2. Merged(line, cur) = [cur EXCEPT !.at  = Cell(line.at, NoName, cur.at),
                                      !.idx = Cell(line.idx, NoIndex, cur.idx),
                                      !.src = Cell(line.src, "empty", cur.src),
                                      !.rx  = Cell(line.rx, "empty", cur.rx)]
  BY DEF Merged, Ont
<1>3. Merged(line, cur) \in Ont
  BY <1>1, <1>2 DEF Ont
<1>4. QED
  BY <1>3 DEF Ont

LEMMA NewType ==
  ASSUME NEW line \in Line
  PROVE  New(line) \in Ont
  BY DEF New, Cell, Line, Ont

LEMMA DiscoveredType ==
  ASSUME NEW name \in Names, NEW x \in Indices
  PROVE  Discovered(name, x) \in Ont
  BY DEF Discovered, Ont

LEMMA NoOntIsNone == NoOnt \notin Ont
  BY DEF NoOnt, Ont

Tx == [open : BOOLEAN, onts : [OntIds -> Ont \cup {NoOnt}], last : 0..MaxOnt]

LEMMA BegunType ==
  ASSUME TypeOK
  PROVE  Begun \in Tx /\ Begun.open /\ View = Begun.onts
  BY DEF TypeOK, Begun, View, Tx

LEMMA NoTxType == NoTx \in Tx /\ ~NoTx.open
  BY DEF NoTx, Tx, OntIds

\* Writing a row and adding one keep the transaction's type.
LEMMA WriteOntType ==
  ASSUME TypeOK, NEW i, NEW o, View[i] # NoOnt => o \in Ont, WriteOnt(i, o)
  PROVE  tx' \in Tx
<1>1. Begun \in Tx /\ View = Begun.onts
  BY BegunType
<1> DEFINE table == [Begun.onts EXCEPT ![i] = IF Begun.onts[i] = NoOnt THEN NoOnt ELSE o]
<1>2. tx' = [Begun EXCEPT !.onts = table]
  BY <1>1 DEF WriteOnt, Tx
<1>3. table \in [OntIds -> Ont \cup {NoOnt}]
  <2>1. Begun.onts \in [OntIds -> Ont \cup {NoOnt}]
    BY <1>1 DEF Tx
  <2>2. Begun.onts[i] # NoOnt => o \in Ont
    BY <1>1
  <2>3. QED
    BY <2>1, <2>2
<1> HIDE DEF table
<1>4. QED
  BY <1>1, <1>2, <1>3 DEF Tx

LEMMA AddOntType ==
  ASSUME TypeOK, NEW o \in Ont, AddOnt(o)
  PROVE  /\ tx' \in Tx
         /\ mem' \subseteq OntIds
         /\ tx'.open
         /\ tx'.last = Begun.last + 1
         /\ tx'.onts = [Begun.onts EXCEPT ![Begun.last + 1] = o]
<1>1. Begun \in Tx
  BY BegunType
<1>2. Begun.last \in 0..MaxOnt /\ Begun.last < MaxOnt
  BY <1>1 DEF AddOnt, Tx
<1> DEFINE table == [Begun.onts EXCEPT ![Begun.last + 1] = o]
<1>3. tx' = [Begun EXCEPT !.onts = table, !.last = Begun.last + 1]
  BY <1>1 DEF AddOnt, Tx
<1>4. mem' \subseteq OntIds
  BY <1>2 DEF AddOnt, TypeOK, OntIds
<1>5. Begun.open
  BY BegunType
<1>6. table \in [OntIds -> Ont \cup {NoOnt}]
  BY <1>1 DEF Tx
<1>7. table = [Begun.onts EXCEPT ![Begun.last + 1] = o]
  OBVIOUS
<1> HIDE DEF table
<1>8. tx' = [open |-> Begun.open, onts |-> table, last |-> Begun.last + 1]
  BY <1>1, <1>3 DEF Tx
<1>9. Begun.last + 1 \in 0..MaxOnt
  BY <1>2
<1>10. tx' \in Tx /\ tx'.open /\ tx'.last = Begun.last + 1 /\ tx'.onts = table
  BY <1>1, <1>5, <1>6, <1>8, <1>9 DEF Tx
<1>11. QED
  BY <1>4, <1>7, <1>10

\* A request that only its thread's state changes keeps the type.
LEMMA RequestStep ==
  ASSUME TypeInv, NEW t \in Threads, NEW r \in Request, Local(r),
         req' = [req EXCEPT ![t] = r]
  PROVE  /\ req' \in [Threads -> Request]
         /\ \A u \in Threads : Local(req'[u])
  BY DEF TypeInv, TypeOK

LEMMA BeginStep ==
  ASSUME TypeInv, NEW t \in Threads, NEW r \in Request, Local(r), Begin(t, r)
  PROVE  /\ req' \in [Threads -> Request]
         /\ \A u \in Threads : Local(req'[u])
         /\ begun' \in 0..MaxRequests
  BY RequestStep DEF Begin, TypeInv, TypeOK

LEMMA AnswerStep ==
  ASSUME TypeInv, NEW t \in Threads, Answer(t)
  PROVE  /\ req' \in [Threads -> Request]
         /\ \A u \in Threads : Local(req'[u])
  BY IdleType, RequestStep DEF Answer

LEMMA MovedType ==
  ASSUME TypeOK, NEW old, NEW new \in Names \cup {NoName}
  PROVE  Moved(old, new) \in [OntIds -> Ont \cup {NoOnt}]
<1> SUFFICES ASSUME NEW i \in OntIds
             PROVE  (IF i \in Referring(old) THEN [onts[i] EXCEPT !.at = new]
                                             ELSE onts[i]) \in Ont \cup {NoOnt}
  BY DEF Moved
<1>1. onts[i] \in Ont \cup {NoOnt}
  BY DEF TypeOK
<1>2. CASE i \in Referring(old)
  <2>1. onts[i] \in Ont
    BY <1>1, <1>2 DEF Referring, Rows
  <2>2. [onts[i] EXCEPT !.at = new] \in Ont
    BY <2>1 DEF Ont
  <2>3. QED
    BY <1>2, <2>2
<1>3. QED
  BY <1>1, <1>2

LEMMA TypeDirectory ==
  ASSUME TypeInv, NEW t \in Threads, Directory(t)
  PROVE  TypeInv'
<1> USE DEF Request, Phases, Local
<1>0. req[t] \in Request /\ Local(req[t]) /\ Idle \in Request
  BY IdleType DEF TypeInv, TypeOK
<1>1. ASSUME NEW name \in Names, CheckNewName(t, name) PROVE TypeInv'
  <2>1. [Idle EXCEPT !.pc = "create", !.name = name] \in Request
    BY <1>0
  <2>2. Local([Idle EXCEPT !.pc = "create", !.name = name])
    BY <1>0
  <2> HIDE DEF Request, Phases, Local
  <2>3. QED
    BY <1>1, <2>1, <2>2, BeginStep DEF CheckNewName, TypeInv, TypeOK
<1>2. ASSUME InsertRow(t) PROVE TypeInv'
  <2>1. req[t].name \in Names \cup {NoName}
    BY <1>0
  <2> HIDE DEF Request, Phases, Local
  <2>2. dir' \in [DirIds -> Names \cup {NoName}]
    BY <1>2, <2>1 DEF InsertRow, TypeInv, TypeOK
  <2>3. last' \in [dir : 0..MaxDir, ont : 0..MaxOnt]
    BY <1>2 DEF InsertRow, TypeInv, TypeOK
  <2>4. QED
    BY <1>2, <2>2, <2>3, AnswerStep DEF InsertRow, TypeInv, TypeOK
<1>3. ASSUME NEW d \in DirIds, NEW name \in Names, ReadOldName(t, d, name) PROVE TypeInv'
  <2> DEFINE r == [Idle EXCEPT !.pc = "named", !.id = d, !.name = name, !.old = dir[d]]
  <2>1. dir[d] \in Names /\ d \in Nat
    BY <1>3 DEF ReadOldName, TypeInv, TypeOK, DirIds
  <2>2. r \in Request /\ Local(r)
    <3>1. r \in Request
      BY <1>0, <2>1
    <3>2. Local(r)
      BY <1>0, <2>1
    <3>3. QED
      BY <3>1, <3>2
  <2>3. Begin(t, r)
    BY <1>3 DEF ReadOldName
  <2> HIDE DEF Request, Phases, Local, r
  <2>4. QED
    BY <1>3, <2>2, <2>3, BeginStep DEF ReadOldName, TypeInv, TypeOK
<1>4. ASSUME CheckName(t) PROVE TypeInv'
  <2> DEFINE r == [req[t] EXCEPT !.pc = "rename"]
  <2>1. r \in Request /\ Local(r)
    <3>1. req[t].name \in Names /\ req[t].old \in Names /\ req[t].id \in DirIds
      BY <1>0, <1>4 DEF CheckName
    <3>2. r \in Request
      BY <1>0
    <3>3. /\ r.pc = "rename" /\ r.id = req[t].id
          /\ r.name = req[t].name /\ r.old = req[t].old
      BY <1>0
    <3> HIDE DEF r, Request, Phases
    <3>4. Local(r)
      BY <3>1, <3>3
    <3>5. QED
      BY <3>2, <3>4
  <2>2. req[t].pc # "idle" /\ (Answer(t) \/ req' = [req EXCEPT ![t] = r])
    BY <1>4, <1>0 DEF CheckName, Goto, TypeInv, TypeOK
  <2> HIDE DEF Request, Phases, Local, r
  <2>3. req' \in [Threads -> Request] /\ \A u \in Threads : Local(req'[u])
    BY <2>1, <2>2, AnswerStep, RequestStep
  <2>4. QED
    BY <1>4, <2>3 DEF CheckName, TypeInv, TypeOK
<1>5. ASSUME Rename(t) PROVE TypeInv'
  <2>1. req[t].name \in Names
    BY <1>0, <1>5 DEF Rename
  <2> HIDE DEF Request, Phases, Local
  <2>2. dir' \in [DirIds -> Names \cup {NoName}]
    <3>1. dir \in [DirIds -> Names \cup {NoName}]
      BY DEF TypeInv, TypeOK
    <3>2. \/ UNCHANGED dir
          \/ dir' = [dir EXCEPT ![req[t].id] = IF dir[req[t].id] = NoName
                                              THEN dir[req[t].id] ELSE req[t].name]
      BY <1>5 DEF Rename
    <3>3. QED
      BY <2>1, <3>1, <3>2
  <2>3. onts' \in [OntIds -> Ont \cup {NoOnt}]
    BY <1>5, <2>1, MovedType DEF Rename, TypeInv, TypeOK
  <2>4. QED
    BY <1>5, <2>2, <2>3, AnswerStep DEF Rename, TypeInv, TypeOK
<1>6. ASSUME NEW d \in DirIds, ReadName(t, d) PROVE TypeInv'
  <2> DEFINE r == [Idle EXCEPT !.pc = "delete", !.id = d, !.old = dir[d]]
  <2>1. dir[d] \in Names /\ d \in Nat
    BY <1>6 DEF ReadName, TypeInv, TypeOK, DirIds
  <2>2. r \in Request /\ Local(r)
    <3>1. r \in Request
      BY <1>0, <2>1
    <3>2. Local(r)
      BY <1>0, <2>1
    <3>3. QED
      BY <3>1, <3>2
  <2>3. Begin(t, r)
    BY <1>6 DEF ReadName
  <2> HIDE DEF Request, Phases, Local, r
  <2>4. QED
    BY <1>6, <2>2, <2>3, BeginStep DEF ReadName, TypeInv, TypeOK
<1>7. ASSUME DeleteRow(t) PROVE TypeInv'
  <2> HIDE DEF Request, Phases, Local
  <2>1. onts' \in [OntIds -> Ont \cup {NoOnt}]
    BY <1>7, MovedType DEF DeleteRow, TypeInv, TypeOK
  <2>2. dir' \in [DirIds -> Names \cup {NoName}]
    BY <1>7 DEF DeleteRow, TypeInv, TypeOK
  <2>3. QED
    BY <1>7, <2>1, <2>2, AnswerStep DEF DeleteRow, TypeInv, TypeOK
<1> HIDE DEF Request, Phases, Local
<1>8. QED
  BY <1>1, <1>2, <1>3, <1>4, <1>5, <1>6, <1>7 DEF Directory

LEMMA TypeOneOnt ==
  ASSUME TypeInv, NEW t \in Threads, OneOnt(t)
  PROVE  TypeInv'
<1> USE DEF Request, Phases, Local
<1>0. req[t] \in Request /\ Local(req[t]) /\ Idle \in Request
  BY IdleType DEF TypeInv, TypeOK
<1>1. ASSUME NEW form \in Forms, CreateOnt(t, form) PROVE TypeInv'
  <2> DEFINE r == [Idle EXCEPT !.pc = "written", !.id = last.ont + 1]
  <2>1. last.ont + 1 \in OntIds /\ last.ont + 1 \in Nat
    BY <1>1 DEF CreateOnt, TypeInv, TypeOK, OntIds
  <2>2. r \in Request /\ Local(r)
    <3>1. r \in Request
      BY <1>0, <2>1
    <3>2. Local(r)
      BY <1>0, <2>1
    <3>3. QED
      BY <3>1, <3>2
  <2>3. Begin(t, r)
    BY <1>1 DEF CreateOnt
  <2> HIDE DEF Request, Phases, Local, r
  <2>4. onts' \in [OntIds -> Ont \cup {NoOnt}]
    BY <1>1, <2>1 DEF CreateOnt, TypeInv, TypeOK
  <2>5. last' \in [dir : 0..MaxDir, ont : 0..MaxOnt]
    BY <1>1 DEF CreateOnt, TypeInv, TypeOK
  <2>6. QED
    BY <1>1, <2>2, <2>3, <2>4, <2>5, BeginStep DEF CreateOnt, TypeInv, TypeOK
<1>2. ASSUME NEW i \in OntIds, NEW form \in Forms, UpdateOnt(t, i, form) PROVE TypeInv'
  <2> DEFINE r == [Idle EXCEPT !.pc = "written", !.id = i]
  <2>1. r \in Request /\ Local(r)
    <3>1. i \in Nat /\ i \in OntIds
      BY DEF OntIds
    <3>2. r \in Request
      BY <1>0, <3>1
    <3>3. Local(r)
      BY <1>0, <3>1
    <3>4. QED
      BY <3>2, <3>3
  <2>2. Begin(t, r)
    BY <1>2 DEF UpdateOnt
  <2> HIDE DEF Request, Phases, Local, r
  <2>3. onts' \in [OntIds -> Ont \cup {NoOnt}]
    BY <1>2 DEF UpdateOnt, TypeInv, TypeOK
  <2>4. QED
    BY <1>2, <2>1, <2>2, <2>3, BeginStep DEF UpdateOnt, TypeInv, TypeOK
<1>3. ASSUME LoadRow(t) PROVE TypeInv'
  <2> DEFINE r == [req[t] EXCEPT !.pc = "loaded"]
  <2>1. r \in Request /\ Local(r)
    <3>1. req[t].id \in OntIds
      BY <1>0, <1>3 DEF LoadRow
    <3>2. r \in Request
      BY <1>0
    <3>3. r.pc = "loaded" /\ r.id = req[t].id
      BY <1>0
    <3> HIDE DEF r, Request, Phases
    <3>4. Local(r)
      BY <3>1, <3>3
    <3>5. QED
      BY <3>2, <3>4
  <2>2. Answer(t) \/ req' = [req EXCEPT ![t] = r]
    BY <1>3, <1>0 DEF LoadRow, Goto, TypeInv, TypeOK
  <2> HIDE DEF Request, Phases, Local, r
  <2>3. req' \in [Threads -> Request] /\ \A u \in Threads : Local(req'[u])
    BY <2>1, <2>2, AnswerStep, RequestStep
  <2>4. QED
    BY <1>3, <2>3 DEF LoadRow, TypeInv, TypeOK
<1>4. ASSUME Remember(t) PROVE TypeInv'
  <2>1. req[t].id \in OntIds
    BY <1>0, <1>4 DEF Remember
  <2> HIDE DEF Request, Phases, Local
  <2>2. QED
    BY <1>4, <2>1, AnswerStep DEF Remember, TypeInv, TypeOK
<1>5. ASSUME NEW i \in OntIds, DeleteOnt(t, i) PROVE TypeInv'
  <2> DEFINE r == [Idle EXCEPT !.pc = "forget", !.id = i]
  <2>1. r \in Request /\ Local(r)
    <3>1. i \in Nat /\ i \in OntIds
      BY DEF OntIds
    <3>2. r \in Request
      BY <1>0, <3>1
    <3>3. Local(r)
      BY <1>0, <3>1
    <3>4. QED
      BY <3>2, <3>3
  <2>2. Begin(t, r)
    BY <1>5 DEF DeleteOnt
  <2> HIDE DEF Request, Phases, Local, r
  <2>3. onts' \in [OntIds -> Ont \cup {NoOnt}]
    BY <1>5 DEF DeleteOnt, TypeInv, TypeOK
  <2>4. QED
    BY <1>5, <2>1, <2>2, <2>3, BeginStep DEF DeleteOnt, TypeInv, TypeOK
<1>6. ASSUME Forget(t) PROVE TypeInv'
  <2> HIDE DEF Request, Phases, Local
  <2>1. QED
    BY <1>6, AnswerStep DEF Forget, TypeInv, TypeOK
<1> HIDE DEF Request, Phases, Local
<1>7. QED
  BY <1>1, <1>2, <1>3, <1>4, <1>5, <1>6 DEF OneOnt

LEMMA CommitType ==
  ASSUME TypeInv, NEW t \in Threads, Commit(t)
  PROVE  TypeInv'
<1>1. View \in [OntIds -> Ont \cup {NoOnt}]
  BY BegunType DEF TypeInv, Tx
<1>2. last' \in [dir : 0..MaxDir, ont : 0..MaxOnt]
  BY DEF Commit, TypeInv, TypeOK
<1>3. QED
  BY <1>1, <1>2, NoTxType, AnswerStep DEF Commit, TypeInv, TypeOK, Tx

LEMMA NextLineStep ==
  ASSUME TypeInv, NEW t \in Threads, req[t].pc \in {"lines", "found", "line"}, NextLine(t)
  PROVE  /\ req' \in [Threads -> Request]
         /\ \A u \in Threads : Local(req'[u])
<1> DEFINE r == [req[t] EXCEPT !.pc = "lines", !.n = @ + 1]
<1>1. req[t] \in Request /\ Local(req[t])
  BY DEF TypeInv, TypeOK
<1>2. r \in Request
  <2>1. req[t].n + 1 \in Nat
    BY <1>1 DEF Request
  <2>2. QED
    BY <1>1, <2>1 DEF Request, Phases
<1>3. Local(r)
  BY <1>1 DEF Request, Local
<1>4. req' = [req EXCEPT ![t] = r]
  BY <1>1 DEF NextLine, TypeInv, TypeOK
<1> HIDE DEF r
<1>5. QED
  BY <1>2, <1>3, <1>4, RequestStep

LEMMA UpdateType ==
  ASSUME TypeInv, NEW t \in Threads, NEW i \in OntIds, NEW cur \in Ont,
         CurrentLine(t) \in Line, Update(t, i, cur)
  PROVE  tx' \in Tx /\ mem' \subseteq OntIds
<1>1. View[i] # NoOnt => View[i] \in Ont
  BY BegunType DEF TypeInv, Tx
<1>2. View[i] # NoOnt => View[i].sn \in Sns
  BY <1>1 DEF Ont
<1>3. View[i] # NoOnt => [Merged(CurrentLine(t), cur) EXCEPT !.sn = View[i].sn] \in Ont
  BY <1>2, MergedType
<1>4. tx' \in Tx
  BY <1>3, WriteOntType DEF Update, TypeInv
<1>5. QED
  BY <1>4 DEF Update, TypeInv, TypeOK

LEMMA InsertType ==
  ASSUME TypeInv, NEW t \in Threads, CurrentLine(t) \in Line, Insert(t)
  PROVE  tx' \in Tx /\ mem' \subseteq OntIds
<1>1. New(CurrentLine(t)) \in Ont
  BY NewType
<1>2. QED
  BY <1>1, AddOntType, BegunType DEF Insert, TypeInv, TypeOK

LEMMA CurrentLineType ==
  ASSUME TypeInv, NEW t \in Threads,
         \/ req[t].pc = "lines" /\ req[t].n <= Len(req[t].file)
         \/ req[t].pc \in {"found", "line"}
  PROVE  CurrentLine(t) \in Line
<1>1. req[t] \in Request /\ Local(req[t])
  BY DEF TypeInv, TypeOK
<1>2. req[t].file \in Files /\ req[t].n \in Nat \ {0} /\ req[t].n <= Len(req[t].file)
  BY <1>1 DEF Local
<1>3. QED
  BY <1>1, <1>2, LineType DEF CurrentLine

LEMMA TypeImport ==
  ASSUME TypeInv, NEW t \in Threads, Import(t)
  PROVE  TypeInv'
<1>0. req[t] \in Request /\ Local(req[t]) /\ Idle \in Request
  BY IdleType DEF TypeInv, TypeOK
<1>1. ASSUME NEW file \in Files, NEW upsert \in BOOLEAN, TakeFile(t, file, upsert)
      PROVE  TypeInv'
  <2> DEFINE r == [Idle EXCEPT !.pc = "lines", !.file = file, !.upsert = upsert, !.n = 1]
  <2>1. r \in Request
    BY <1>0 DEF Request, Phases
  <2>2. Local(r)
    BY <1>0 DEF Request, Local
  <2>3. Begin(t, r)
    BY <1>1 DEF TakeFile
  <2> HIDE DEF r
  <2>4. QED
    BY <1>1, <2>1, <2>2, <2>3, BeginStep DEF TakeFile, TypeInv, TypeOK
<1>2. ASSUME SkipLine(t) PROVE TypeInv'
  BY <1>2, NextLineStep DEF SkipLine, TypeInv, TypeOK
<1>3. ASSUME FindRow(t) PROVE TypeInv'
  <2>1. req[t].pc = "lines" /\ req[t].n <= Len(req[t].file)
    BY <1>3 DEF FindRow
  <2>2. PICK r : /\ req' = [req EXCEPT ![t] = r]
                 /\ \/ r = [req[t] EXCEPT !.pc = "line", !.id = 0]
                    \/ \E i \in OntIds : r = [req[t] EXCEPT !.pc = "found", !.id = i]
    <3>0. req \in [Threads -> Request]
      BY DEF TypeInv, TypeOK
    <3>1. CASE req' = [req EXCEPT ![t].pc = "line", ![t].id = 0]
      <4>1. req' = [req EXCEPT ![t] = [req[t] EXCEPT !.pc = "line", !.id = 0]]
        BY <3>0, <3>1
      <4>2. QED
        BY <4>1
    <3>2. ASSUME NEW i \in OntIds, req' = [req EXCEPT ![t].pc = "found", ![t].id = i]
          PROVE  \E r : /\ req' = [req EXCEPT ![t] = r]
                        /\ \E j \in OntIds : r = [req[t] EXCEPT !.pc = "found", !.id = j]
      <4>1. req' = [req EXCEPT ![t] = [req[t] EXCEPT !.pc = "found", !.id = i]]
        BY <3>0, <3>2
      <4>2. QED
        BY <4>1
    <3>3. QED
      BY <3>1, <3>2, <1>3 DEF FindRow, SnOwner
  <2>3. CASE r = [req[t] EXCEPT !.pc = "line", !.id = 0]
    <3>1. r \in Request
      BY <1>0, <2>3 DEF Request, Phases
    <3>2. Local(r)
      BY <1>0, <2>1, <2>3 DEF Request, Local
    <3>3. QED
      BY <1>3, <2>2, <3>1, <3>2, RequestStep DEF FindRow, TypeInv, TypeOK
  <2>4. ASSUME NEW i \in OntIds, r = [req[t] EXCEPT !.pc = "found", !.id = i] PROVE TypeInv'
    <3>0. i \in Nat
      BY DEF OntIds
    <3>1. r \in Request
      BY <1>0, <2>4, <3>0 DEF Request, Phases
    <3>2. Local(r)
      BY <1>0, <2>1, <2>4 DEF Request, Local
    <3>3. QED
      BY <1>3, <2>2, <3>1, <3>2, RequestStep DEF FindRow, TypeInv, TypeOK
  <2>5. QED
    BY <2>2, <2>3, <2>4
<1>4. ASSUME ReadRow(t) PROVE TypeInv'
  <2>1. CASE req[t].id \in Rows
    <3> DEFINE r == [req[t] EXCEPT !.pc = "line", !.cur = onts[req[t].id]]
    <3>1. onts[req[t].id] \in Ont /\ req[t].id \in OntIds
      BY <2>1 DEF Rows, TypeInv, TypeOK
    <3>2. r \in Request
      BY <1>0, <3>1 DEF Request, Phases
    <3>3. Local(r)
      BY <1>0, <1>4, <3>1 DEF ReadRow, Request, Local
    <3>4. req' = [req EXCEPT ![t] = r]
      <4>1. req' = [req EXCEPT ![t].pc = "line", ![t].cur = onts[req[t].id]]
        BY <1>4, <2>1 DEF ReadRow
      <4>2. req \in [Threads -> Request]
        BY DEF TypeInv, TypeOK
      <4>3. QED
        BY <4>1, <4>2
    <3> HIDE DEF r
    <3>5. QED
      BY <1>4, <3>2, <3>3, <3>4, RequestStep DEF ReadRow, TypeInv, TypeOK
  <2>2. CASE req[t].id \notin Rows
    BY <1>4, <2>2, NextLineStep DEF ReadRow, TypeInv, TypeOK
  <2>3. QED
    BY <2>1, <2>2
<1>5. ASSUME WriteFirstLine(t) PROVE TypeInv'
  <2>1. CurrentLine(t) \in Line
    BY <1>5, CurrentLineType DEF WriteFirstLine
  <2>2. req[t].id \in {0} \cup OntIds /\ (req[t].id # 0 => req[t].cur \in Ont)
    BY <1>0, <1>5 DEF WriteFirstLine, Local
  <2>3. tx' \in Tx /\ mem' \subseteq OntIds
    BY <1>5, <2>1, <2>2, UpdateType, InsertType DEF WriteFirstLine
  <2>4. QED
    BY <1>5, <2>3, NextLineStep DEF WriteFirstLine, TypeInv, TypeOK, Tx
<1>6. ASSUME WriteLine(t) PROVE TypeInv'
  <2>1. CurrentLine(t) \in Line
    BY <1>6, CurrentLineType DEF WriteLine
  <2>2. \A i \in SnOwner(View, CurrentLine(t).sn) : i \in OntIds /\ View[i] \in Ont
    BY BegunType DEF SnOwner, TypeInv, Tx
  <2>3. tx' \in Tx /\ mem' \subseteq OntIds
    BY <1>6, <2>1, <2>2, UpdateType, InsertType DEF WriteLine
  <2>4. QED
    BY <1>6, <2>3, NextLineStep DEF WriteLine, TypeInv, TypeOK, Tx
<1>7. ASSUME RefuseLine(t) PROVE TypeInv'
  BY <1>7, NextLineStep DEF RefuseLine, TypeInv, TypeOK
<1>8. ASSUME CommitFile(t) PROVE TypeInv'
  BY <1>8, CommitType DEF CommitFile
<1>9. QED
  BY <1>1, <1>2, <1>3, <1>4, <1>5, <1>6, <1>7, <1>8 DEF Import

LEMMA TypeDiscover ==
  ASSUME TypeInv, NEW t \in Threads, Discover(t)
  PROVE  TypeInv'
<1>0. req[t] \in Request /\ Local(req[t]) /\ Idle \in Request
  BY IdleType DEF TypeInv, TypeOK
<1>1. ASSUME NEW d \in DirIds, NEW found \in SUBSET Indices, Walk(t, d, found)
      PROVE  TypeInv'
  <2> DEFINE r == [Idle EXCEPT !.pc = "walked", !.old = dir[d], !.found = found]
  <2>1. dir[d] \in Names
    BY <1>1 DEF Walk, TypeInv, TypeOK
  <2>2. r \in Request
    BY <1>0, <2>1 DEF Request, Phases
  <2>3. Local(r)
    BY <1>0, <2>1 DEF Request, Local
  <2>4. Begin(t, r)
    BY <1>1 DEF Walk
  <2> HIDE DEF r
  <2>5. QED
    BY <1>1, <2>2, <2>3, <2>4, BeginStep DEF Walk, TypeInv, TypeOK
<1>2. ASSUME List(t) PROVE TypeInv'
  <2>1. PICK table \in [Indices -> {0} \cup OntIds], update \in BOOLEAN :
            req' = [req EXCEPT ![t] = Listed(@, table, update)]
    BY <1>2 DEF List
  <2> DEFINE manual == {x \in Indices : table[x] # 0 /\ onts[table[x]].src # "snmp"}
             r == [req[t] EXCEPT !.pc = "listed", !.listed = table, !.update = update,
                                 !.manual = manual]
  <2>2. req' = [req EXCEPT ![t] = r]
    BY <1>0, <2>1 DEF Listed, TypeInv, TypeOK
  <2>3. manual \in SUBSET Indices
    OBVIOUS
  <2> HIDE DEF manual
  <2>4. r \in Request
    BY <1>0, <2>3 DEF Request, Phases
  <2>5. Local(r)
    BY <1>0, <1>2 DEF List, Request, Local
  <2> HIDE DEF r
  <2>6. QED
    BY <1>2, <2>2, <2>4, <2>5, RequestStep DEF List, TypeInv, TypeOK
<1>3. ASSUME NEW x \in Indices, TakeIndex(t, x) PROVE TypeInv'
  <2> DEFINE r == [req[t] EXCEPT !.found = @ \ {x}]
             i == req[t].listed[x]
             new == Discovered(req[t].old, x)
  <2>1. r \in Request
    BY <1>0 DEF Request
  <2>2. Local(r)
    BY <1>0, <1>3 DEF TakeIndex, Request, Local
  <2>3. req' = [req EXCEPT ![t] = r]
    BY <1>0, <1>3 DEF TakeIndex, TypeInv, TypeOK
  <2>4. new \in Ont
    BY <1>0, <1>3, DiscoveredType DEF TakeIndex, Local
  <2>5. i \in {0} \cup OntIds
    BY <1>0 DEF Request
  <2>6. View[i] # NoOnt /\ i # 0 => [View[i] EXCEPT !.rx = "device"] \in Ont
    <3>1. View \in [OntIds -> Ont \cup {NoOnt}]
      BY BegunType DEF TypeInv, Tx
    <3>2. View[i] # NoOnt /\ i # 0 => View[i] \in Ont
      BY <2>5, <3>1
    <3>3. QED
      BY <3>2 DEF Ont
  <2>7. tx' \in Tx /\ mem' \subseteq OntIds
    <3> HIDE DEF i, new
    <3>1. CASE UNCHANGED <<tx, mem>>
      BY <3>1 DEF TypeInv, TypeOK, Tx
    <3>2. CASE /\ i # 0
               /\ WriteOnt(i, [View[i] EXCEPT !.rx = "device"])
               /\ mem' = mem \cup {i}
      BY <2>5, <2>6, <3>2, WriteOntType DEF TypeInv, TypeOK
    <3>3. CASE tx' = Begun /\ UNCHANGED mem
      BY <3>3, BegunType DEF TypeInv, TypeOK
    <3>4. CASE AddOnt(new)
      BY <2>4, <3>4, AddOntType DEF TypeInv
    <3>5. QED
      BY <1>3, <3>1, <3>2, <3>3, <3>4 DEF TakeIndex, i, new
  <2> HIDE DEF r, i, new
  <2>8. QED
    BY <1>3, <2>1, <2>2, <2>3, <2>7, RequestStep DEF TakeIndex, TypeInv, TypeOK, Tx
<1>4. ASSUME CommitRows(t) PROVE TypeInv'
  BY <1>4, CommitType DEF CommitRows
<1>5. QED
  BY <1>1, <1>2, <1>3, <1>4 DEF Discover

LEMMA TypeNext == TypeInv /\ [Next]_vars => TypeInv'
<1> SUFFICES ASSUME TypeInv, [Next]_vars PROVE TypeInv'
  OBVIOUS
<1>1. ASSUME NEW t \in Threads, Refuse(t) PROVE TypeInv'
  BY <1>1, AnswerStep DEF Refuse, TypeInv, TypeOK
<1>2. ASSUME NEW t \in Threads, RollBack(t) PROVE TypeInv'
  <2>1. tx.open => (last.ont + 1)..tx.last \subseteq OntIds
    BY DEF TypeInv, TypeOK, OntIds
  <2>2. ghosts' \subseteq OntIds
    BY <1>2, <2>1 DEF RollBack, TypeInv, TypeOK
  <2>3. QED
    BY <1>2, <2>2, AnswerStep, NoTxType DEF RollBack, TypeInv, TypeOK, Tx
<1>3. CASE Poll
  <2>1. ASSUME NEW answered \in SUBSET OntIds, Ask(answered) PROVE TypeInv'
    BY <2>1 DEF Ask, TypeInv, TypeOK
  <2>2. CASE WriteValues
    <3>1. ASSUME NEW i \in OntIds, i \in Rows
          PROVE  [onts[i] EXCEPT !.rx = "device"] \in Ont
      <4>1. onts[i] \in Ont
        BY <3>1 DEF Rows, TypeInv, TypeOK
      <4>2. QED
        BY <4>1 DEF Ont
    <3>2. onts' \in [OntIds -> Ont \cup {NoOnt}]
      BY <2>2, <3>1 DEF WriteValues, TypeInv, TypeOK
    <3>3. QED
      BY <2>2, <3>2 DEF WriteValues, TypeInv, TypeOK
  <2>3. CASE RefuseValues
    BY <2>3 DEF RefuseValues, TypeInv, TypeOK
  <2>4. QED
    BY <1>3, <2>1, <2>2, <2>3 DEF Poll
<1>4. CASE Rest \/ UNCHANGED vars
  BY <1>4 DEF Rest, vars, TypeInv, TypeOK
<1>5. QED
  BY <1>1, <1>2, <1>3, <1>4, TypeDirectory, TypeOneOnt, TypeImport, TypeDiscover DEF Next

LEMMA TypeInit == Init => TypeInv
<1> SUFFICES ASSUME Init PROVE TypeInv
  OBVIOUS
<1>1. dir \in [DirIds -> Names \cup {NoName}]
  BY DEF Init
<1>2. tx \in Tx
  BY NoTxType DEF Init
<1>3. last \in [dir : 0..MaxDir, ont : 0..MaxOnt]
  BY DEF Init
<1>4. req \in [Threads -> Request] /\ \A t \in Threads : Local(req[t])
  BY IdleType DEF Init
<1>5. QED
  BY <1>1, <1>2, <1>3, <1>4 DEF Init, TypeInv, TypeOK, Tx

\* Every variable keeps its type in every behaviour.
THEOREM RegistryTypeCorrect == Spec => []TypeOK
<1>1. Spec => []TypeInv
  BY TypeInit, TypeNext, PTL DEF Spec
<1>2. TypeInv => TypeOK
  BY DEF TypeInv
<1>3. QED
  BY <1>1, <1>2, PTL

-----------------------------------------------------------------------------
(* The order of the ids                                                     *)

Holding == {"lines", "found", "line", "listed"}

\* A request in state r holds no id above n.
Old(r, n) ==
    /\ r.pc \in {"written", "loaded", "found", "line"} => r.id <= n
    /\ r.pc = "listed" => \A x \in Indices : r.listed[x] <= n

\* Requests hold committed ids only.
OldInv == \A t \in Threads : Old(req[t], last.ont)

\* db_lock has one holder, and the open transaction is its own.
LockInv ==
    /\ \A t \in Threads : req[t].pc \in Holding => lock = t
    /\ tx.open => lock \in Threads

\* The transaction adds rows behind the committed ones only, and brings none back.
TxInv ==
    /\ last.ont <= Begun.last
    /\ \A i \in OntIds : onts[i] # NoOnt => i <= last.ont
    /\ \A i \in OntIds : View[i] # NoOnt =>
          i <= Begun.last /\ (i <= last.ont => onts[i] # NoOnt)

\* The alarm memory knows committed ids, ids of the open transaction and ghosts.
MemInv == \A i \in mem \ ghosts : i <= Begun.last

OrderInv == OldInv /\ LockInv /\ TxInv /\ MemInv

LEMMA OldStep ==
  ASSUME TypeInv, TypeInv', OldInv, NEW t \in Threads, NEW r \in Request,
         req' = [req EXCEPT ![t] = r], last.ont <= last'.ont, Old(r, last'.ont)
  PROVE  OldInv'
<1> SUFFICES ASSUME NEW u \in Threads PROVE Old(req'[u], last'.ont)
  BY DEF OldInv
<1>1. last.ont \in Nat /\ last'.ont \in Nat
  BY DEF TypeInv, TypeOK
<1>2. CASE u = t
  BY <1>2 DEF TypeInv, TypeOK
<1>3. CASE u # t
  <2>1. req'[u] = req[u] /\ req[u] \in Request /\ Old(req[u], last.ont)
    BY <1>3 DEF OldInv, TypeInv, TypeOK
  <2>2. req[u].id \in Nat /\ \A x \in Indices : req[u].listed[x] \in Nat
    BY <2>1 DEF Request, OntIds
  <2>3. QED
    BY <1>1, <2>1, <2>2 DEF Old
<1>4. QED
  BY <1>2, <1>3

LEMMA LockStep ==
  ASSUME TypeInv, LockInv, NEW t \in Threads, NEW r,
         req' = [req EXCEPT ![t] = r], r.pc \in Holding => lock' = t,
         lock' = lock \/ lock \in {t, NoThread}, tx'.open => lock' \in Threads
  PROVE  LockInv'
<1>1. ASSUME NEW u \in Threads, req'[u].pc \in Holding PROVE lock' = u
  <2>1. CASE u = t
    BY <1>1, <2>1 DEF TypeInv, TypeOK
  <2>2. CASE u # t
    <3>1. req'[u] = req[u]
      BY <2>2 DEF TypeInv, TypeOK
    <3>2. lock = u
      BY <1>1, <3>1 DEF LockInv
    <3>3. QED
      BY <2>2, <3>2
  <2>3. QED
    BY <2>1, <2>2
<1>2. QED
  BY <1>1 DEF LockInv

LEMMA IdleOld == \A n : Old(Idle, n) /\ Idle.pc = "idle"
  BY DEF Old, Idle

\* What writes names and values, and creates or deletes no ONT, keeps the order.
LEMMA QuietStep ==
  ASSUME TypeInv, TypeInv', OrderInv, last'.ont = last.ont,
         \A i \in OntIds : onts'[i] # NoOnt <=> onts[i] # NoOnt,
         tx.open => UNCHANGED onts, UNCHANGED <<mem, tx, ghosts>>
  PROVE  TxInv' /\ MemInv'
<1>1. CASE tx.open
  BY <1>1 DEF OrderInv, TxInv, MemInv, Begun, View
<1>2. CASE ~tx.open
  BY <1>2 DEF OrderInv, TxInv, MemInv, Begun, View
<1>3. QED
  BY <1>1, <1>2

\* A step of a request that touches neither the ONTs, nor the locks.
LEMMA RequestOrder ==
  ASSUME TypeInv, TypeInv', OrderInv, NEW t \in Threads, NEW r \in Request,
         req' = [req EXCEPT ![t] = r], r.pc \in Holding => lock = t,
         Old(r, last.ont), last'.ont = last.ont,
         \A i \in OntIds : onts'[i] # NoOnt <=> onts[i] # NoOnt,
         tx.open => UNCHANGED onts, UNCHANGED <<mem, tx, ghosts, lock>>
  PROVE  OrderInv'
<1>1. TxInv' /\ MemInv'
  BY QuietStep
<1>2. last.ont <= last'.ont
  BY DEF TypeInv, TypeOK
<1>3. OldInv'
  BY <1>2, OldStep DEF OrderInv
<1>4. LockInv'
  BY LockStep DEF OrderInv, LockInv
<1>5. QED
  BY <1>1, <1>3, <1>4 DEF OrderInv

LEMMA MovedRows ==
  ASSUME TypeInv, NEW old, NEW new \in Names \cup {NoName}, NEW i \in OntIds
  PROVE  Moved(old, new)[i] # NoOnt <=> onts[i] # NoOnt
<1>1. CASE i \in Referring(old)
  <2>1. onts[i] \in Ont
    BY <1>1 DEF Referring, Rows, TypeInv, TypeOK
  <2>2. [onts[i] EXCEPT !.at = new] \in Ont
    BY <2>1 DEF Ont
  <2>3. QED
    BY <1>1, <2>1, <2>2, NoOntIsNone DEF Moved
<1>2. CASE i \notin Referring(old)
  BY <1>2 DEF Moved
<1>3. QED
  BY <1>1, <1>2

LEMMA OrderDirectory ==
  ASSUME TypeInv, TypeInv', OrderInv, NEW t \in Threads, Directory(t)
  PROVE  OrderInv'
<1>0. req[t] \in Request /\ Local(req[t]) /\ Idle \in Request
  BY IdleType DEF TypeInv, TypeOK
<1>1. PICK r : /\ req' = [req EXCEPT ![t] = r]
               /\ r.pc \in {"idle", "create", "named", "rename", "delete"}
  <2>1. ASSUME NEW name \in Names, CheckNewName(t, name)
        PROVE  \E r : /\ req' = [req EXCEPT ![t] = r]
                      /\ r.pc \in {"idle", "create", "named", "rename", "delete"}
    <3> DEFINE r == [Idle EXCEPT !.pc = "create", !.name = name]
    <3>1. r.pc = "create" /\ req' = [req EXCEPT ![t] = r]
      BY <1>0, <2>1 DEF CheckNewName, Begin, Request
    <3> HIDE DEF r
    <3>2. QED
      BY <3>1
  <2>2. ASSUME NEW d \in DirIds, NEW name \in Names, ReadOldName(t, d, name)
        PROVE  \E r : /\ req' = [req EXCEPT ![t] = r]
                      /\ r.pc \in {"idle", "create", "named", "rename", "delete"}
    <3> DEFINE r == [Idle EXCEPT !.pc = "named", !.id = d, !.name = name, !.old = dir[d]]
    <3>1. r.pc = "named" /\ req' = [req EXCEPT ![t] = r]
      BY <1>0, <2>2 DEF ReadOldName, Begin, Request
    <3> HIDE DEF r
    <3>2. QED
      BY <3>1
  <2>3. ASSUME NEW d \in DirIds, ReadName(t, d)
        PROVE  \E r : /\ req' = [req EXCEPT ![t] = r]
                      /\ r.pc \in {"idle", "create", "named", "rename", "delete"}
    <3> DEFINE r == [Idle EXCEPT !.pc = "delete", !.id = d, !.old = dir[d]]
    <3>1. r.pc = "delete" /\ req' = [req EXCEPT ![t] = r]
      BY <1>0, <2>3 DEF ReadName, Begin, Request
    <3> HIDE DEF r
    <3>2. QED
      BY <3>1
  <2>4. ASSUME CheckName(t), Goto(t, "rename")
        PROVE  \E r : /\ req' = [req EXCEPT ![t] = r]
                      /\ r.pc \in {"idle", "create", "named", "rename", "delete"}
    <3> DEFINE r == [req[t] EXCEPT !.pc = "rename"]
    <3>1. r.pc = "rename" /\ req' = [req EXCEPT ![t] = r]
      BY <1>0, <2>4 DEF Goto, Request, TypeInv, TypeOK
    <3> HIDE DEF r
    <3>2. QED
      BY <3>1
  <2>5. ASSUME Answer(t)
        PROVE  \E r : /\ req' = [req EXCEPT ![t] = r]
                      /\ r.pc \in {"idle", "create", "named", "rename", "delete"}
    BY <2>5, IdleOld DEF Answer
  <2>6. QED
    BY <2>1, <2>2, <2>3, <2>4, <2>5 DEF Directory, InsertRow, CheckName, Rename, DeleteRow
<1>2. r \in Request
  BY <1>1 DEF TypeInv, TypeOK
<1>3. r.pc \notin Holding /\ Old(r, last.ont)
  BY <1>1 DEF Holding, Old
<1>4. last'.ont = last.ont /\ UNCHANGED <<mem, tx, ghosts, lock>>
  <2>1. UNCHANGED <<mem, tx, ghosts, lock>>
    BY DEF Directory, CheckNewName, InsertRow, ReadOldName, CheckName, Rename, ReadName,
           DeleteRow
  <2>2. \/ UNCHANGED last
        \/ last' = [last EXCEPT !.dir = last.dir + 1]
    BY DEF Directory, CheckNewName, InsertRow, ReadOldName, CheckName, Rename, ReadName,
           DeleteRow
  <2>3. last \in [dir : 0..MaxDir, ont : 0..MaxOnt]
    BY DEF TypeInv, TypeOK
  <2>4. last'.ont = last.ont
    BY <2>2, <2>3
  <2>5. QED
    BY <2>1, <2>4
<1>5. tx.open => UNCHANGED onts
  BY DEF Directory, CheckNewName, InsertRow, ReadOldName, CheckName, Rename, ReadName,
         DeleteRow, Writable
<1>6. \A i \in OntIds : onts'[i] # NoOnt <=> onts[i] # NoOnt
  <2>1. CASE Rename(t)
    BY <1>0, <2>1, MovedRows DEF Rename, Local
  <2>2. CASE DeleteRow(t)
    BY <2>2, MovedRows DEF DeleteRow
  <2>3. CASE ~Rename(t) /\ ~DeleteRow(t)
    BY <2>3 DEF Directory, CheckNewName, InsertRow, ReadOldName, CheckName, ReadName
  <2>4. QED
    BY <2>1, <2>2, <2>3
<1>7. QED
  BY <1>1, <1>2, <1>3, <1>4, <1>5, <1>6, RequestOrder

\* A step without an open transaction, before and after it.
LEMMA ClosedStep ==
  ASSUME TypeInv, TypeInv', OrderInv, ~tx.open, ~tx'.open, last.ont <= last'.ont,
         \A i \in OntIds : onts'[i] # NoOnt => i <= last'.ont,
         \A i \in mem' \ ghosts' : i \in mem \ ghosts \/ i <= last'.ont
  PROVE  TxInv' /\ MemInv'
<1>1. last.ont \in Nat /\ last'.ont \in Nat
  BY DEF TypeInv, TypeOK
<1>2. Begun'.last = last'.ont /\ View' = onts'
  BY DEF Begun, View
<1>3. TxInv'
  BY <1>1, <1>2 DEF TxInv
<1>4. ASSUME NEW i \in mem' \ ghosts' PROVE i <= Begun'.last
  <2>1. Begun.last = last.ont
    BY DEF Begun
  <2>2. i \in Nat
    BY DEF TypeInv, TypeOK, OntIds
  <2>3. i <= last.ont \/ i <= last'.ont
    BY <2>1 DEF OrderInv, MemInv
  <2>4. QED
    BY <1>1, <1>2, <2>2, <2>3
<1>5. QED
  BY <1>3, <1>4 DEF MemInv

LEMMA OrderOneOnt ==
  ASSUME TypeInv, TypeInv', OrderInv, NEW t \in Threads, OneOnt(t)
  PROVE  OrderInv'
<1> DEFINE r == req'[t]
<1>0. req[t] \in Request /\ Local(req[t]) /\ Idle \in Request /\ r \in Request
  BY IdleType DEF TypeInv, TypeOK
<1>1. ASSUME NEW form \in Forms, CreateOnt(t, form) PROVE OrderInv'
  <2> DEFINE q == [Idle EXCEPT !.pc = "written", !.id = last.ont + 1]
  <2>1. req' = [req EXCEPT ![t] = q]
    BY <1>1 DEF CreateOnt, Begin
  <2>2. q.pc = "written" /\ q.id = last.ont + 1
    BY <1>0 DEF Request
  <2>3. q \in Request
    BY <2>1 DEF TypeInv, TypeOK
  <2> HIDE DEF q
  <2>4. last'.ont = last.ont + 1 /\ last.ont \in Nat
    BY <1>1 DEF CreateOnt, TypeInv, TypeOK
  <2>5. OldInv'
    <3>1. last.ont <= last'.ont /\ q.id <= last'.ont
      BY <2>2, <2>4
    <3>2. Old(q, last'.ont)
      BY <2>2, <3>1 DEF Old
    <3>3. QED
      BY <2>1, <2>3, <3>1, <3>2, OldStep DEF OrderInv
  <2>6. LockInv'
    BY <1>1, <2>1, <2>2, LockStep DEF CreateOnt, Writable, OrderInv, Holding
  <2>7. \A i \in OntIds : onts'[i] # NoOnt => i <= last'.ont
    BY <1>1, <2>4 DEF CreateOnt, OrderInv, TxInv, TypeInv, TypeOK, OntIds
  <2>8. TxInv' /\ MemInv'
    BY <1>1, <2>4, <2>7, ClosedStep DEF CreateOnt, Writable
  <2>9. QED
    BY <2>5, <2>6, <2>8 DEF OrderInv
<1>2. ASSUME NEW i \in OntIds, NEW form \in Forms, UpdateOnt(t, i, form) PROVE OrderInv'
  <2> DEFINE q == [Idle EXCEPT !.pc = "written", !.id = i]
  <2>1. req' = [req EXCEPT ![t] = q]
    BY <1>2 DEF UpdateOnt, Begin
  <2>2. q.pc = "written" /\ q.id = i
    BY <1>0 DEF Request
  <2>3. q \in Request
    BY <2>1 DEF TypeInv, TypeOK
  <2> HIDE DEF q
  <2>4. i <= last.ont
    BY <1>2 DEF UpdateOnt, Rows, OrderInv, TxInv
  <2>5. form # NoOnt
    BY NoOntIsNone
  <2>6. \A j \in OntIds : onts'[j] # NoOnt <=> onts[j] # NoOnt
    BY <1>2, <2>5 DEF UpdateOnt, Rows, TypeInv, TypeOK
  <2>7. QED
    BY <1>2, <2>1, <2>2, <2>3, <2>4, <2>6, RequestOrder
    DEF UpdateOnt, Writable, Old, Holding
<1>3. ASSUME LoadRow(t) PROVE OrderInv'
  <2>1. req' = [req EXCEPT ![t] = r]
    BY <1>3 DEF LoadRow, Goto, Answer, TypeInv, TypeOK
  <2>2. r = Idle \/ (r.pc = "loaded" /\ r.id = req[t].id)
    BY <1>0, <1>3 DEF LoadRow, Goto, Answer, TypeInv, TypeOK, Request
  <2>3. req[t].id <= last.ont
    BY <1>3 DEF LoadRow, OrderInv, OldInv, Old
  <2>4. Old(r, last.ont) /\ r.pc \notin Holding
    BY <2>2, <2>3, IdleOld DEF Old, Holding
  <2>5. QED
    BY <1>0, <1>3, <2>1, <2>4, RequestOrder DEF LoadRow
<1>4. ASSUME Remember(t) \/ Forget(t) PROVE OrderInv'
  <2>1. req' = [req EXCEPT ![t] = Idle]
    BY <1>4 DEF Remember, Forget, Answer
  <2>2. UNCHANGED <<onts, last, lock, tx, ghosts>>
    BY <1>4 DEF Remember, Forget
  <2>3. last.ont \in Nat /\ last.ont <= last'.ont
    BY <2>2 DEF TypeInv, TypeOK
  <2>4. OldInv'
    BY <1>0, <2>1, <2>3, IdleOld, OldStep DEF OrderInv
  <2>5. LockInv'
    BY <2>1, <2>2, IdleOld, LockStep DEF OrderInv, LockInv, Holding
  <2>6. TxInv' /\ Begun' = Begun
    BY <2>2 DEF OrderInv, TxInv, Begun, View
  <2>7. \A i \in mem' : i \in mem \/ (Remember(t) /\ i = req[t].id)
    BY <1>4 DEF Remember, Forget
  <2>8. Remember(t) => req[t].id <= Begun.last
    <3>1. Remember(t) => req[t].id <= last.ont /\ req[t].id \in Nat
      BY <1>0 DEF Remember, OrderInv, OldInv, Old, Request
    <3>2. last.ont <= Begun.last /\ Begun.last \in Nat
      BY BegunType DEF OrderInv, TxInv, Tx, TypeInv
    <3>3. QED
      BY <2>3, <3>1, <3>2
  <2>9. MemInv'
    BY <2>2, <2>6, <2>7, <2>8 DEF MemInv, OrderInv
  <2>10. QED
    BY <2>4, <2>5, <2>6, <2>9 DEF OrderInv
<1>5. ASSUME NEW i \in OntIds, DeleteOnt(t, i) PROVE OrderInv'
  <2> DEFINE q == [Idle EXCEPT !.pc = "forget", !.id = i]
  <2>1. req' = [req EXCEPT ![t] = q]
    BY <1>5 DEF DeleteOnt, Begin
  <2>2. q.pc = "forget"
    BY <1>0 DEF Request
  <2>3. q \in Request
    BY <2>1 DEF TypeInv, TypeOK
  <2> HIDE DEF q
  <2>4. UNCHANGED <<last, mem, lock, tx, ghosts>> /\ ~tx.open
    BY <1>5 DEF DeleteOnt, Writable
  <2>5. last.ont \in Nat /\ last.ont <= last'.ont
    BY <2>4 DEF TypeInv, TypeOK
  <2>6. OldInv'
    BY <2>1, <2>2, <2>3, <2>5, OldStep DEF OrderInv, Old
  <2>7. LockInv'
    BY <2>1, <2>2, <2>4, LockStep DEF OrderInv, Holding
  <2>8. \A j \in OntIds : onts'[j] # NoOnt => onts[j] # NoOnt
    BY <1>5 DEF DeleteOnt, TypeInv, TypeOK
  <2>9. TxInv' /\ MemInv'
    BY <2>4, <2>5, <2>8, ClosedStep DEF OrderInv, TxInv
  <2>10. QED
    BY <2>6, <2>7, <2>9 DEF OrderInv
<1>6. QED
  BY <1>1, <1>2, <1>3, <1>4, <1>5 DEF OneOnt

\* Writing a row of the transaction and adding one behind them keep its order.
LEMMA WriteOntOrder ==
  ASSUME TypeInv, OrderInv, NEW i \in OntIds, NEW o, WriteOnt(i, o), i <= Begun.last,
         mem' = mem \cup {i}, UNCHANGED <<onts, last, ghosts>>
  PROVE  TxInv' /\ MemInv' /\ tx'.open
<1>1. Begun \in Tx /\ Begun.open /\ View = Begun.onts
  BY BegunType DEF TypeInv
<1> DEFINE table == [Begun.onts EXCEPT ![i] = IF Begun.onts[i] = NoOnt THEN NoOnt ELSE o]
<1>2. \A j \in OntIds : table[j] # NoOnt => View[j] # NoOnt
  BY <1>1 DEF Tx
<1>3. tx' = [Begun EXCEPT !.onts = table]
  BY <1>1 DEF WriteOnt, Tx
<1> HIDE DEF table
<1>4. tx'.open /\ tx'.last = Begun.last /\ tx'.onts = table
  BY <1>1, <1>3 DEF Tx
<1>5. Begun'.last = Begun.last /\ View' = table
  BY <1>4 DEF Begun, View
<1>6. TxInv'
  BY <1>2, <1>5 DEF OrderInv, TxInv
<1>7. MemInv'
  BY <1>5 DEF OrderInv, MemInv
<1>8. QED
  BY <1>4, <1>6, <1>7

LEMMA AddOntOrder ==
  ASSUME TypeInv, OrderInv, NEW o \in Ont, AddOnt(o), UNCHANGED <<onts, last, ghosts>>
  PROVE  TxInv' /\ MemInv' /\ tx'.open
<1>1. Begun \in Tx /\ Begun.open /\ View = Begun.onts
  BY BegunType DEF TypeInv
<1>2. tx'.open /\ tx'.last = Begun.last + 1 /\ tx'.onts = [View EXCEPT ![Begun.last + 1] = o]
  BY <1>1, AddOntType DEF TypeInv
<1>3. Begun'.last = Begun.last + 1 /\ View' = [View EXCEPT ![Begun.last + 1] = o]
  BY <1>2 DEF Begun, View
<1>4. Begun.last \in Nat /\ last.ont \in Nat /\ last.ont <= Begun.last
  BY <1>1 DEF Tx, TypeInv, TypeOK, OrderInv, TxInv
<1>5. TxInv'
  <2>1. View \in [OntIds -> Ont \cup {NoOnt}]
    BY <1>1 DEF Tx
  <2>2. ASSUME NEW j \in OntIds, View'[j] # NoOnt
        PROVE  j <= Begun'.last /\ (j <= last'.ont => onts'[j] # NoOnt)
    <3>1. j \in Nat
      BY DEF OntIds
    <3>2. CASE j = Begun.last + 1
      BY <1>3, <1>4, <3>2
    <3>3. CASE j # Begun.last + 1
      <4>1. View[j] # NoOnt
        BY <1>3, <2>1, <2>2, <3>3
      <4>2. j <= Begun.last /\ (j <= last.ont => onts[j] # NoOnt)
        BY <4>1 DEF OrderInv, TxInv
      <4>3. QED
        BY <1>3, <1>4, <3>1, <4>2
    <3>4. QED
      BY <3>2, <3>3
  <2>3. last'.ont <= Begun'.last
    BY <1>3, <1>4
  <2>4. QED
    BY <2>2, <2>3 DEF OrderInv, TxInv
<1>6. MemInv'
  <2>1. \A j \in mem \ ghosts : j \in Nat /\ j <= Begun.last
    BY DEF OrderInv, MemInv, TypeInv, TypeOK, OntIds
  <2>2. mem' = mem \cup {Begun.last + 1}
    BY DEF AddOnt
  <2>3. QED
    BY <1>3, <1>4, <2>1, <2>2 DEF MemInv
<1>7. QED
  BY <1>2, <1>5, <1>6

LEMMA BegunOrder ==
  ASSUME TypeInv, OrderInv, tx' = Begun, UNCHANGED <<mem, onts, last, ghosts>>
  PROVE  TxInv' /\ MemInv' /\ tx'.open
<1>1. Begun.open /\ View = Begun.onts
  BY BegunType DEF TypeInv
<1>2. Begun' = Begun /\ View' = View
  BY <1>1 DEF Begun, View
<1>3. QED
  BY <1>1, <1>2 DEF OrderInv, TxInv, MemInv

\* A step of the holder of db_lock that writes in the transaction.
LEMMA HolderOrder ==
  ASSUME TypeInv, TypeInv', OrderInv, NEW t \in Threads, req[t].pc \in Holding,
         NEW r \in Request, req' = [req EXCEPT ![t] = r], Old(r, last.ont),
         UNCHANGED <<last, lock>>, TxInv', MemInv'
  PROVE  OrderInv'
<1>1. lock = t
  BY DEF OrderInv, LockInv
<1>2. last.ont <= last'.ont
  BY DEF TypeInv, TypeOK
<1>3. OldInv'
  BY <1>2, OldStep DEF OrderInv
<1>4. LockInv'
  BY <1>1, LockStep DEF OrderInv
<1>5. QED
  BY <1>3, <1>4 DEF OrderInv

LEMMA CommitOrder ==
  ASSUME TypeInv, TypeInv', OrderInv, NEW t \in Threads, req[t].pc \in Holding, Commit(t)
  PROVE  OrderInv'
<1>0. Begun \in Tx /\ last.ont \in Nat /\ last \in [dir : 0..MaxDir, ont : 0..MaxOnt]
  BY BegunType DEF TypeInv, TypeOK
<1>1. lock = t
  BY DEF OrderInv, LockInv
<1>2. ~tx'.open /\ lock' = NoThread /\ req' = [req EXCEPT ![t] = Idle] /\ onts' = View
  BY NoTxType DEF Commit, Answer
<1>3. last'.ont = Begun.last
  BY <1>0 DEF Commit, Begun
<1>4. last.ont <= last'.ont
  BY <1>3 DEF OrderInv, TxInv
<1>5. OldInv'
  BY <1>2, <1>4, IdleType, IdleOld, OldStep DEF OrderInv
<1>6. LockInv'
  BY <1>1, <1>2, IdleOld, LockStep DEF OrderInv, Holding
<1>7. \A i \in OntIds : onts'[i] # NoOnt => i <= last'.ont
  BY <1>2, <1>3 DEF OrderInv, TxInv
<1>8. \A i \in mem' \ ghosts' : i <= last'.ont
  BY <1>3 DEF Commit, OrderInv, MemInv
<1>9. MemInv'
  BY <1>2, <1>8 DEF MemInv, Begun
<1>10. TxInv'
  <2>1. Begun'.last = last'.ont /\ View' = onts'
    BY <1>2 DEF Begun, View
  <2>2. last'.ont \in Nat
    BY DEF TypeInv, TypeOK
  <2>3. QED
    BY <1>7, <2>1, <2>2 DEF TxInv
<1>11. QED
  BY <1>5, <1>6, <1>9, <1>10 DEF OrderInv

LEMMA OrderImport ==
  ASSUME TypeInv, TypeInv', OrderInv, NEW t \in Threads, Import(t)
  PROVE  OrderInv'
<1> DEFINE r == req'[t]
<1>0. req[t] \in Request /\ Local(req[t]) /\ Idle \in Request /\ r \in Request
  BY IdleType DEF TypeInv, TypeOK
<1>1. ASSUME NEW file \in Files, NEW upsert \in BOOLEAN, TakeFile(t, file, upsert)
      PROVE  OrderInv'
  <2> DEFINE q == [Idle EXCEPT !.pc = "lines", !.file = file, !.upsert = upsert, !.n = 1]
  <2>1. req' = [req EXCEPT ![t] = q]
    BY <1>1 DEF TakeFile, Begin
  <2>2. q.pc = "lines"
    BY <1>0 DEF Request
  <2>3. q \in Request
    BY <2>1 DEF TypeInv, TypeOK
  <2> HIDE DEF q
  <2>4. UNCHANGED <<onts, last, mem, tx, ghosts>> /\ lock = NoThread /\ lock' = t
    BY <1>1 DEF TakeFile
  <2>5. last.ont <= last'.ont
    BY <2>4 DEF TypeInv, TypeOK
  <2>6. OldInv'
    BY <2>1, <2>2, <2>3, <2>5, OldStep DEF OrderInv, Old
  <2>7. LockInv'
    BY <2>1, <2>4, LockStep DEF OrderInv
  <2>8. TxInv' /\ MemInv'
    BY <2>4 DEF OrderInv, TxInv, MemInv, Begun, View
  <2>9. QED
    BY <2>6, <2>7, <2>8 DEF OrderInv
<1>2. ASSUME NextLine(t), req[t].pc \in {"lines", "found", "line"}
      PROVE  req' = [req EXCEPT ![t] = r] /\ Old(r, last.ont)
  <2>1. r = [req[t] EXCEPT !.pc = "lines", !.n = req[t].n + 1]
    BY <1>2 DEF NextLine, TypeInv, TypeOK
  <2>2. r.pc = "lines"
    BY <1>0, <2>1 DEF Request
  <2>3. req' = [req EXCEPT ![t] = r]
    BY <1>2 DEF NextLine, TypeInv, TypeOK
  <2> HIDE DEF r
  <2>4. QED
    BY <2>2, <2>3 DEF Old
<1>3. ASSUME SkipLine(t) \/ RefuseLine(t) PROVE OrderInv'
  <2>1. NextLine(t) /\ req[t].pc \in {"lines", "found", "line"}
    BY <1>3 DEF SkipLine, RefuseLine
  <2>2. lock = t
    BY <2>1 DEF OrderInv, LockInv, Holding
  <2>3. QED
    BY <1>0, <1>2, <1>3, <2>1, <2>2, RequestOrder DEF SkipLine, RefuseLine
<1>4. ASSUME FindRow(t) PROVE OrderInv'
  <2>1. req[t].pc = "lines" /\ lock = t
    BY <1>4 DEF FindRow, OrderInv, LockInv, Holding
  <2>2. req' = [req EXCEPT ![t] = r]
    BY <1>4 DEF FindRow, TypeInv, TypeOK
  <2>3. \/ r.pc = "line" /\ r.id = 0
        \/ r.pc = "found" /\ r.id \in SnOwner(onts, CurrentLine(t).sn)
    <3>1. CASE req' = [req EXCEPT ![t].pc = "line", ![t].id = 0]
      <4>1. r = [req[t] EXCEPT !.pc = "line", !.id = 0]
        BY <3>1 DEF TypeInv, TypeOK
      <4> HIDE DEF r
      <4>2. QED
        BY <1>0, <4>1 DEF Request
    <3>2. ASSUME NEW i \in SnOwner(onts, CurrentLine(t).sn),
                 req' = [req EXCEPT ![t].pc = "found", ![t].id = i]
          PROVE  r.pc = "found" /\ r.id = i
      <4>1. r = [req[t] EXCEPT !.pc = "found", !.id = i]
        BY <3>2 DEF TypeInv, TypeOK
      <4> HIDE DEF r
      <4>2. QED
        BY <1>0, <4>1 DEF Request
    <3>3. QED
      BY <1>4, <3>1, <3>2 DEF FindRow
  <2>4. r.id <= last.ont
    BY <2>3 DEF SnOwner, OrderInv, TxInv, TypeInv, TypeOK
  <2>5. Old(r, last.ont)
    BY <2>3, <2>4 DEF Old
  <2>6. QED
    BY <1>0, <1>4, <2>1, <2>2, <2>5, RequestOrder DEF FindRow
<1>5. ASSUME ReadRow(t) PROVE OrderInv'
  <2>1. req[t].pc = "found" /\ lock = t
    BY <1>5 DEF ReadRow, OrderInv, LockInv, Holding
  <2>2. req[t].id <= last.ont
    BY <2>1 DEF OrderInv, OldInv, Old
  <2>3. CASE NextLine(t)
    BY <1>0, <1>2, <1>5, <2>1, <2>3, RequestOrder DEF ReadRow
  <2>4. CASE req' = [req EXCEPT ![t].pc = "line", ![t].cur = onts[req[t].id]]
    <3>1. req' = [req EXCEPT ![t] = r]
      BY <2>4 DEF TypeInv, TypeOK
    <3>2. r.pc = "line" /\ r.id = req[t].id
      BY <1>0, <2>4 DEF TypeInv, TypeOK, Request
    <3>3. Old(r, last.ont)
      BY <2>2, <3>2 DEF Old
    <3>4. QED
      BY <1>0, <1>5, <2>1, <3>1, <3>3, RequestOrder DEF ReadRow
  <2>5. QED
    BY <1>5, <2>3, <2>4 DEF ReadRow
<1>6. ASSUME CurrentLine(t) \in Line, Insert(t), UNCHANGED <<onts, last, ghosts>>
      PROVE  TxInv' /\ MemInv'
  <2>1. New(CurrentLine(t)) \in Ont
    BY <1>6, NewType
  <2>2. QED
    BY <1>6, <2>1, AddOntOrder, BegunOrder DEF Insert
<1>7. ASSUME WriteFirstLine(t) PROVE OrderInv'
  <2>1. req[t].pc = "line" /\ NextLine(t) /\ UNCHANGED <<onts, last, lock, ghosts>>
    BY <1>7 DEF WriteFirstLine
  <2>2. CASE req[t].id = 0
    BY <1>6, <1>7, <2>1, <2>2, CurrentLineType, <1>0, <1>2, HolderOrder
    DEF WriteFirstLine, Holding
  <2>3. CASE req[t].id # 0
    <3>1. req[t].id \in OntIds /\ req[t].id <= last.ont
      BY <1>0, <2>1, <2>3 DEF Local, OrderInv, OldInv, Old
    <3>2. req[t].id <= Begun.last
      <4>1. Begun.last \in Nat /\ last.ont \in Nat /\ last.ont <= Begun.last
        BY BegunType DEF Tx, TypeInv, TypeOK, OrderInv, TxInv
      <4>2. QED
        BY <3>1, <4>1 DEF OntIds
    <3>3. TxInv' /\ MemInv'
      BY <1>7, <2>1, <2>3, <3>1, <3>2, WriteOntOrder DEF WriteFirstLine, Update
    <3>4. QED
      BY <1>0, <1>2, <2>1, <3>3, HolderOrder DEF Holding
  <2>4. QED
    BY <2>2, <2>3
<1>8. ASSUME WriteLine(t) PROVE OrderInv'
  <2>1. /\ req[t].pc = "lines" /\ req[t].n <= Len(req[t].file)
        /\ NextLine(t) /\ UNCHANGED <<onts, last, lock, ghosts>>
    BY <1>8 DEF WriteLine
  <2>2. CASE Insert(t)
    BY <1>6, <2>1, <2>2, CurrentLineType, <1>0, <1>2, HolderOrder DEF Holding
  <2>3. ASSUME NEW i \in SnOwner(View, CurrentLine(t).sn), Update(t, i, View[i])
        PROVE  OrderInv'
    <3>1. i \in OntIds /\ i <= Begun.last
      BY <2>3 DEF SnOwner, OrderInv, TxInv
    <3>2. TxInv' /\ MemInv'
      BY <2>1, <2>3, <3>1, WriteOntOrder DEF Update
    <3>3. QED
      BY <1>0, <1>2, <2>1, <3>2, HolderOrder DEF Holding
  <2>4. QED
    BY <1>8, <2>2, <2>3 DEF WriteLine
<1>9. ASSUME CommitFile(t) PROVE OrderInv'
  BY <1>9, CommitOrder DEF CommitFile, Holding
<1>10. QED
  BY <1>1, <1>3, <1>4, <1>5, <1>7, <1>8, <1>9 DEF Import

LEMMA OrderDiscover ==
  ASSUME TypeInv, TypeInv', OrderInv, NEW t \in Threads, Discover(t)
  PROVE  OrderInv'
<1> DEFINE r == req'[t]
<1>0. req[t] \in Request /\ Local(req[t]) /\ Idle \in Request /\ r \in Request
  BY IdleType DEF TypeInv, TypeOK
<1>1. ASSUME NEW d \in DirIds, NEW found \in SUBSET Indices, Walk(t, d, found)
      PROVE  OrderInv'
  <2> DEFINE q == [Idle EXCEPT !.pc = "walked", !.old = dir[d], !.found = found]
  <2>1. req' = [req EXCEPT ![t] = q]
    BY <1>1 DEF Walk, Begin
  <2>2. q.pc = "walked"
    BY <1>0 DEF Request
  <2>3. q \in Request
    BY <2>1 DEF TypeInv, TypeOK
  <2> HIDE DEF q
  <2>4. QED
    BY <1>1, <2>1, <2>2, <2>3, RequestOrder DEF Walk, Old, Holding
<1>2. ASSUME List(t) PROVE OrderInv'
  <2>1. PICK table \in [Indices -> {0} \cup OntIds], update \in BOOLEAN :
            /\ Lists(table, req[t].old)
            /\ req' = [req EXCEPT ![t] = Listed(@, table, update)]
    BY <1>2 DEF List
  <2>2. req' = [req EXCEPT ![t] = r] /\ r = Listed(req[t], table, update)
    BY <2>1 DEF TypeInv, TypeOK
  <2>3. r.pc = "listed" /\ r.listed = table
    BY <1>0, <2>2 DEF Listed, Request
  <2>4. \A x \in Indices : table[x] <= last.ont
    <3> SUFFICES ASSUME NEW x \in Indices PROVE table[x] <= last.ont
      OBVIOUS
    <3>1. last.ont \in Nat
      BY DEF TypeInv, TypeOK
    <3>2. table[x] = 0 \/ table[x] \in Rows
      BY <2>1 DEF Lists, Holds, Referring
    <3>3. table[x] \in Rows => table[x] <= last.ont
      BY DEF Rows, OrderInv, TxInv
    <3>4. QED
      BY <3>1, <3>2, <3>3
  <2>5. Old(r, last.ont)
    BY <2>3, <2>4 DEF Old
  <2>6. UNCHANGED <<onts, last, mem, tx, ghosts>> /\ lock = NoThread /\ lock' = t
    BY <1>2 DEF List
  <2>7. last.ont <= last'.ont
    BY <2>6 DEF TypeInv, TypeOK
  <2>8. OldInv'
    BY <1>0, <2>2, <2>5, <2>6, <2>7, OldStep DEF OrderInv
  <2>9. LockInv'
    BY <2>2, <2>6, LockStep DEF OrderInv
  <2>10. TxInv' /\ MemInv'
    BY <2>6 DEF OrderInv, TxInv, MemInv, Begun, View
  <2>11. QED
    BY <2>8, <2>9, <2>10 DEF OrderInv
<1>3. ASSUME NEW x \in Indices, TakeIndex(t, x) PROVE OrderInv'
  <2> DEFINE i == req[t].listed[x]
             new == Discovered(req[t].old, x)
  <2>1. req[t].pc = "listed" /\ UNCHANGED <<onts, last, lock, ghosts>>
    BY <1>3 DEF TakeIndex
  <2>2. req' = [req EXCEPT ![t] = r] /\ r = [req[t] EXCEPT !.found = req[t].found \ {x}]
    BY <1>3 DEF TakeIndex, TypeInv, TypeOK
  <2>3. r.pc = "listed" /\ r.listed = req[t].listed
    BY <1>0, <2>1, <2>2 DEF Request
  <2>4. Old(req[t], last.ont)
    BY DEF OrderInv, OldInv
  <2>5. Old(r, last.ont)
    BY <2>1, <2>3, <2>4 DEF Old
  <2>6. new \in Ont
    BY <1>0, <2>1, DiscoveredType DEF Local
  <2>7. i \in {0} \cup OntIds /\ i <= Begun.last
    <3>1. i \in {0} \cup OntIds
      BY <1>0 DEF Request
    <3>2. i <= last.ont /\ i \in Nat
      BY <2>1, <2>4, <3>1 DEF Old, OntIds
    <3>3. Begun.last \in Nat /\ last.ont \in Nat /\ last.ont <= Begun.last
      BY BegunType DEF Tx, TypeInv, TypeOK, OrderInv, TxInv
    <3>4. QED
      BY <3>1, <3>2, <3>3
  <2>8. TxInv' /\ MemInv'
    <3> HIDE DEF i, new
    <3>1. CASE UNCHANGED <<tx, mem>>
      BY <2>1, <3>1 DEF OrderInv, TxInv, MemInv, Begun, View
    <3>2. CASE /\ i # 0
               /\ WriteOnt(i, [View[i] EXCEPT !.rx = "device"])
               /\ mem' = mem \cup {i}
      BY <2>1, <2>7, <3>2, WriteOntOrder
    <3>3. CASE tx' = Begun /\ UNCHANGED mem
      BY <2>1, <3>3, BegunOrder
    <3>4. CASE AddOnt(new)
      BY <2>1, <2>6, <3>4, AddOntOrder
    <3>5. QED
      BY <1>3, <3>1, <3>2, <3>3, <3>4 DEF TakeIndex, i, new
  <2> HIDE DEF r, i, new
  <2>9. r \in Request
    BY <1>0 DEF r
  <2>10. QED
    BY <2>1, <2>2, <2>5, <2>8, <2>9, HolderOrder DEF Holding
<1>4. ASSUME CommitRows(t) PROVE OrderInv'
  BY <1>4, CommitOrder DEF CommitRows, Holding
<1>5. QED
  BY <1>1, <1>2, <1>3, <1>4 DEF Discover

LEMMA OrderEnds ==
  ASSUME TypeInv, TypeInv', OrderInv, NEW t \in Threads, Refuse(t) \/ RollBack(t)
  PROVE  OrderInv'
<1>0. req' = [req EXCEPT ![t] = Idle] /\ Idle \in Request
  BY IdleType DEF Refuse, RollBack, Answer
<1>1. CASE Refuse(t)
  BY <1>0, <1>1, IdleOld, RequestOrder DEF Refuse, Holding
<1>2. CASE RollBack(t)
  <2>1. UNCHANGED <<onts, last, mem>> /\ ~tx'.open /\ lock = t /\ lock' = NoThread
    BY <1>2, NoTxType DEF RollBack
  <2>2. last.ont \in Nat /\ last.ont <= last'.ont
    BY <2>1 DEF TypeInv, TypeOK
  <2>3. OldInv'
    BY <1>0, <2>2, IdleOld, OldStep DEF OrderInv
  <2>4. LockInv'
    BY <1>0, <2>1, IdleOld, LockStep DEF OrderInv, Holding
  <2>5. Begun'.last = last.ont /\ View' = onts
    BY <2>1 DEF Begun, View
  <2>6. TxInv'
    BY <2>1, <2>2, <2>5 DEF OrderInv, TxInv
  <2>7. ASSUME NEW i \in mem' \ ghosts' PROVE i <= last.ont
    <3>1. i \in Nat /\ i \in mem
      BY <2>1 DEF TypeInv, TypeOK, OntIds
    <3>2. ghosts' = IF tx.open THEN ghosts \cup (last.ont + 1)..tx.last ELSE ghosts
      BY <1>2 DEF RollBack
    <3>3. i <= Begun.last
      BY <3>1, <3>2 DEF OrderInv, MemInv
    <3>4. CASE tx.open
      <4>1. i <= tx.last /\ tx.last \in Nat
        BY <3>3, <3>4 DEF Begun, TypeInv, TypeOK
      <4>2. i \notin (last.ont + 1)..tx.last
        BY <3>2, <3>4
      <4>3. QED
        BY <2>2, <3>1, <4>1, <4>2
    <3>5. CASE ~tx.open
      BY <3>3, <3>5 DEF Begun
    <3>6. QED
      BY <3>4, <3>5
  <2>8. MemInv'
    BY <2>5, <2>7 DEF MemInv
  <2>9. QED
    BY <2>3, <2>4, <2>6, <2>8 DEF OrderInv
<1>3. QED
  BY <1>1, <1>2

LEMMA OrderPoll ==
  ASSUME TypeInv, TypeInv', OrderInv, Poll
  PROVE  OrderInv'
<1>1. UNCHANGED <<last, mem, lock, tx, req, ghosts>>
  BY DEF Poll, Ask, WriteValues, RefuseValues
<1>2. \A i \in OntIds : onts'[i] # NoOnt <=> onts[i] # NoOnt
  <2>1. CASE WriteValues
    <3> SUFFICES ASSUME NEW i \in OntIds PROVE onts'[i] # NoOnt <=> onts[i] # NoOnt
      OBVIOUS
    <3>1. CASE i \in Rows
      <4>1. onts[i] \in Ont
        BY <3>1 DEF Rows, TypeInv, TypeOK
      <4>2. [onts[i] EXCEPT !.rx = "device"] \in Ont
        BY <4>1 DEF Ont
      <4>3. QED
        BY <2>1, <4>1, <4>2, NoOntIsNone DEF WriteValues
    <3>2. CASE i \notin Rows
      BY <2>1, <3>2 DEF WriteValues
    <3>3. QED
      BY <3>1, <3>2
  <2>2. CASE ~WriteValues
    BY <2>2 DEF Poll, Ask, RefuseValues
  <2>3. QED
    BY <2>1, <2>2
<1>3. tx.open => UNCHANGED onts
  BY DEF Poll, Ask, WriteValues, RefuseValues, OrderInv, LockInv
<1>4. TxInv' /\ MemInv'
  BY <1>1, <1>2, <1>3, QuietStep
<1>5. OldInv' /\ LockInv'
  BY <1>1 DEF OrderInv, OldInv, LockInv
<1>6. QED
  BY <1>4, <1>5 DEF OrderInv

LEMMA OrderInit == Init => OrderInv
<1> SUFFICES ASSUME Init PROVE OrderInv
  OBVIOUS
<1>1. OldInv
  BY IdleOld DEF Init, OldInv
<1>2. LockInv
  BY IdleOld, NoTxType DEF Init, LockInv, Holding
<1>3. TxInv /\ MemInv
  BY NoTxType DEF Init, TxInv, MemInv, Begun, View
<1>4. QED
  BY <1>1, <1>2, <1>3 DEF OrderInv

LEMMA OrderNext == TypeInv /\ TypeInv' /\ OrderInv /\ [Next]_vars => OrderInv'
<1> SUFFICES ASSUME TypeInv, TypeInv', OrderInv, [Next]_vars PROVE OrderInv'
  OBVIOUS
<1>1. CASE Rest \/ UNCHANGED vars
  BY <1>1 DEF Rest, vars, OrderInv, OldInv, LockInv, TxInv, MemInv, Begun, View
<1>2. QED
  BY <1>1, OrderDirectory, OrderOneOnt, OrderImport, OrderDiscover, OrderEnds, OrderPoll
  DEF Next

LEMMA Ordered == Spec => [](TypeInv /\ OrderInv)
<1>1. Spec => []TypeInv
  BY TypeInit, TypeNext, PTL DEF Spec
<1>2. QED
  BY <1>1, OrderInit, OrderNext, PTL DEF Spec

\* A row appears in two ways: created by hand, or with the commit of a
\* transaction, and then behind the committed ids.
LEMMA Appears ==
  ASSUME TypeInv, OrderInv, [Next]_vars, NEW i \in OntIds, onts[i] = NoOnt, onts'[i] # NoOnt
  PROVE  \/ \E t \in Threads, form \in Forms : CreateOnt(t, form) /\ i = last.ont + 1
         \/ \E t \in Threads : Answer(t) /\ i > last.ont
<1>0. i \in Nat /\ last.ont \in Nat
  BY DEF OntIds, TypeInv, TypeOK
<1>1. ASSUME NEW t \in Threads, Commit(t)
      PROVE  Answer(t) /\ i > last.ont
  BY <1>0, <1>1 DEF Commit, OrderInv, TxInv
<1>2. ASSUME NEW t \in Threads, Rename(t) \/ DeleteRow(t)
      PROVE  FALSE
  <2>1. req[t] \in Request /\ Local(req[t])
    BY DEF TypeInv, TypeOK
  <2>2. CASE Rename(t)
    BY <2>1, <2>2, MovedRows DEF Rename, Local
  <2>3. CASE DeleteRow(t)
    BY <2>3, MovedRows DEF DeleteRow
  <2>4. QED
    BY <1>2, <2>2, <2>3
<1>3. ASSUME NEW t \in Threads, Directory(t)
      PROVE  FALSE
  BY <1>2, <1>3 DEF Directory, CheckNewName, InsertRow, ReadOldName, CheckName, ReadName
<1>4. ASSUME NEW t \in Threads, OneOnt(t)
      PROVE  \E form \in Forms : CreateOnt(t, form) /\ i = last.ont + 1
  <2>1. ASSUME NEW form \in Forms, CreateOnt(t, form) PROVE i = last.ont + 1
    BY <2>1 DEF CreateOnt, TypeInv, TypeOK
  <2>2. ASSUME NEW j \in OntIds, NEW form \in Forms, UpdateOnt(t, j, form) PROVE FALSE
    BY <2>2 DEF UpdateOnt, Rows, TypeInv, TypeOK
  <2>3. ASSUME NEW j \in OntIds, DeleteOnt(t, j) PROVE FALSE
    BY <2>3 DEF DeleteOnt, Rows, TypeInv, TypeOK
  <2>4. QED
    BY <1>4, <2>1, <2>2, <2>3 DEF OneOnt, LoadRow, Remember, Forget
<1>5. ASSUME NEW t \in Threads, Import(t) \/ Discover(t)
      PROVE  Commit(t)
  BY <1>5 DEF Import, TakeFile, SkipLine, FindRow, ReadRow, WriteFirstLine, WriteLine,
              RefuseLine, CommitFile, Discover, Walk, List, TakeIndex, CommitRows
<1>6. ASSUME NEW t \in Threads, Refuse(t) \/ RollBack(t)
      PROVE  FALSE
  BY <1>6 DEF Refuse, RollBack
<1>7. ASSUME Poll \/ Rest \/ UNCHANGED vars
      PROVE  FALSE
  BY <1>7 DEF Poll, Ask, WriteValues, RefuseValues, Rest, vars, Rows
<1>8. QED
  BY <1>1, <1>3, <1>4, <1>5, <1>6, <1>7 DEF Next

\* A request that did not move is where it was.
LEMMA OthersStay ==
  ASSUME TypeInv, NEW t \in Threads, NEW u \in Threads, u # t, Answer(t) \/ \E r : Begin(t, r)
  PROVE  req'[u] = req[u]
  BY DEF Answer, Begin, TypeInv, TypeOK

\* An ONT created by hand gets an id the alarm memory knows nothing of, though the
\* memory of other rows is seeded before their commit and struck after it: the
\* ids in it are committed ones, or those of the open transaction, which holds
\* the creation up; or ghosts.
THEOREM NewRowHasNoMemoryTheorem == Spec => NewRowHasNoMemory
<1> DEFINE A == \A t \in Threads, i \in OntIds \ Rows :
                   onts'[i] # NoOnt /\ req'[t].pc = "written" /\ req'[t].id = i
                   => i \notin mem \ ghosts
<1>1. TypeInv /\ OrderInv /\ [Next]_vars => A
  <2> SUFFICES ASSUME TypeInv, OrderInv, [Next]_vars, NEW t \in Threads,
                      NEW i \in OntIds, i \notin Rows, onts'[i] # NoOnt,
                      req'[t].pc = "written", req'[t].id = i
               PROVE  i \notin mem \ ghosts
    OBVIOUS
  <2>0. i \in Nat /\ last.ont \in Nat /\ onts[i] = NoOnt
    BY DEF OntIds, TypeInv, TypeOK, Rows
  <2>1. ASSUME req'[t] = req[t], i > last.ont PROVE FALSE
    <3>1. req[t].id <= last.ont
      BY <2>1 DEF OrderInv, OldInv, Old
    <3>2. QED
      BY <2>0, <2>1, <3>1
  <2>2. CASE \E u \in Threads, form \in Forms : CreateOnt(u, form) /\ i = last.ont + 1
    <3>1. ~tx.open /\ i = last.ont + 1
      BY <2>2 DEF CreateOnt, Writable
    <3>2. ~(i <= Begun.last)
      BY <2>0, <3>1 DEF Begun
    <3>3. QED
      BY <3>2 DEF OrderInv, MemInv
  <2>3. CASE \E u \in Threads : Answer(u) /\ i > last.ont
    <3>1. PICK u \in Threads : Answer(u) /\ i > last.ont
      BY <2>3
    <3>2. u = t => req'[t] = Idle
      BY <3>1 DEF Answer, TypeInv, TypeOK
    <3>3. u # t
      BY <3>2, IdleOld
    <3>4. QED
      BY <2>1, <3>1, <3>3, OthersStay
  <2>4. QED
    BY <2>0, <2>2, <2>3, Appears
<1>2. QED
  BY <1>1, Ordered, PTL DEF Spec, NewRowHasNoMemory

-----------------------------------------------------------------------------
(* Renames and deletions                                                    *)

\* Every step of a thread leaves the state of the other threads alone.
LEMMA OneThread ==
  ASSUME TypeInv, NEW t \in Threads, NEW u \in Threads, u # t,
         Directory(u) \/ OneOnt(u) \/ Import(u) \/ Discover(u) \/ Refuse(u) \/ RollBack(u)
  PROVE  req'[t] = req[t]
<1>1. CASE Directory(u)
  <2>1. Answer(u) \/ Goto(u, "rename") \/ \E r : Begin(u, r)
    BY <1>1 DEF Directory, CheckNewName, InsertRow, ReadOldName, CheckName, Rename,
                ReadName, DeleteRow
  <2>2. Goto(u, "rename") => req'[t] = req[t]
    BY DEF Goto, TypeInv, TypeOK
  <2>3. QED
    BY <2>1, <2>2, OthersStay
<1>2. CASE OneOnt(u)
  <2>1. Answer(u) \/ Goto(u, "loaded") \/ \E r : Begin(u, r)
    BY <1>2 DEF OneOnt, CreateOnt, UpdateOnt, LoadRow, Remember, DeleteOnt, Forget
  <2>2. Goto(u, "loaded") => req'[t] = req[t]
    BY DEF Goto, TypeInv, TypeOK
  <2>3. QED
    BY <2>1, <2>2, OthersStay
<1>3. CASE Import(u)
  <2>1. FindRow(u) => req'[t] = req[t]
    BY DEF FindRow, TypeInv, TypeOK
  <2>2. NextLine(u) => req'[t] = req[t]
    BY DEF NextLine, TypeInv, TypeOK
  <2>3. ReadRow(u) => req'[t] = req[t]
    BY <2>2 DEF ReadRow, TypeInv, TypeOK
  <2>4. ASSUME NEW file \in Files, NEW upsert \in BOOLEAN, TakeFile(u, file, upsert)
        PROVE  req'[t] = req[t]
    BY <2>4, OthersStay DEF TakeFile
  <2>5. Commit(u) => req'[t] = req[t]
    BY OthersStay DEF Commit
  <2>6. QED
    BY <1>3, <2>1, <2>2, <2>3, <2>4, <2>5
    DEF Import, SkipLine, WriteFirstLine, WriteLine, RefuseLine, CommitFile
<1>4. CASE Discover(u)
  <2>1. ASSUME NEW d \in DirIds, NEW found \in SUBSET Indices, Walk(u, d, found)
        PROVE  req'[t] = req[t]
    BY <2>1, OthersStay DEF Walk
  <2>2. List(u) => req'[t] = req[t]
    BY DEF List, TypeInv, TypeOK
  <2>3. ASSUME NEW x \in Indices, TakeIndex(u, x) PROVE req'[t] = req[t]
    BY <2>3 DEF TakeIndex, TypeInv, TypeOK
  <2>4. CommitRows(u) => req'[t] = req[t]
    BY OthersStay DEF CommitRows, Commit
  <2>5. QED
    BY <1>4, <2>1, <2>2, <2>3, <2>4 DEF Discover
<1>5. CASE Refuse(u) \/ RollBack(u)
  BY <1>5, OthersStay DEF Refuse, RollBack
<1>6. QED
  BY <1>1, <1>2, <1>3, <1>4, <1>5

LEMMA EndsBy ==
  ASSUME TypeInv, [Next]_vars, NEW t \in Threads, Ends(t)
  PROVE  Rename(t) \/ DeleteRow(t) \/ Refuse(t)
<1>0. req'[t] # req[t] /\ req[t].pc \in {"rename", "delete"}
  BY DEF Ends
<1>1. PICK u \in Threads : \/ Directory(u) \/ OneOnt(u) \/ Import(u)
                           \/ Discover(u) \/ Refuse(u) \/ RollBack(u)
  BY <1>0 DEF Next, Poll, Ask, WriteValues, RefuseValues, Rest, vars
<1>2. u = t
  BY <1>0, <1>1, OneThread
<1>3. ~OneOnt(t)
  BY <1>0 DEF OneOnt, CreateOnt, UpdateOnt, LoadRow, Remember, DeleteOnt, Forget, Begin
<1>4. ~Import(t)
  BY <1>0 DEF Import, TakeFile, SkipLine, FindRow, ReadRow, WriteFirstLine, WriteLine,
              RefuseLine, CommitFile, Begin
<1>5. ~Discover(t) /\ ~RollBack(t)
  BY <1>0 DEF Discover, Walk, List, TakeIndex, CommitRows, RollBack, Begin
<1>6. Directory(t) => Rename(t) \/ DeleteRow(t)
  BY <1>0 DEF Directory, CheckNewName, InsertRow, ReadOldName, CheckName, ReadName, Begin
<1>7. QED
  BY <1>1, <1>2, <1>3, <1>4, <1>5, <1>6

LEMMA MovedNames ==
  ASSUME TypeInv, NEW old, NEW new \in Names \cup {NoName}, NEW i \in Rows
  PROVE  Moved(old, new)[i].at = IF Same(onts[i].at, old) THEN new ELSE onts[i].at
<1>1. i \in OntIds /\ onts[i] \in Ont
  BY DEF Rows, TypeInv, TypeOK
<1>2. [onts[i] EXCEPT !.at = new].at = new
  BY <1>1 DEF Ont
<1>3. QED
  BY <1>1, <1>2 DEF Moved, Referring

\* What the write of a rename or a deletion does to the names in the ONTs.
LEMMA EndsNames ==
  ASSUME TypeInv, [Next]_vars, NEW t \in Threads, Ends(t)
  PROVE  \/ UNCHANGED dir /\ \A i \in Rows : onts'[i].at = onts[i].at
         \/ /\ req[t].pc = "rename"
            /\ dir' = [dir EXCEPT ![req[t].id] = IF @ = NoName THEN @ ELSE req[t].name]
            /\ \/ Same(req[t].old, req[t].name) /\ \A i \in Rows : onts'[i].at = onts[i].at
               \/ \A i \in Rows : onts'[i].at = IF Same(onts[i].at, req[t].old)
                                               THEN req[t].name ELSE onts[i].at
         \/ /\ req[t].pc = "delete"
            /\ dir' = [dir EXCEPT ![req[t].id] = NoName]
            /\ \/ kind # "odp" /\ \A i \in Rows : onts'[i].at = onts[i].at
               \/ kind = "odp" /\ \A i \in Rows : onts'[i].at = IF Same(onts[i].at, req[t].old)
                                                            THEN NoName ELSE onts[i].at
<1>0. Local(req[t])
  BY DEF TypeInv
<1>1. CASE Rename(t)
  <2>1. \A i \in Rows : Moved(req[t].old, req[t].name)[i].at
                        = IF Same(onts[i].at, req[t].old) THEN req[t].name ELSE onts[i].at
    BY <1>0, <1>1, MovedNames DEF Rename, Local
  <2>2. QED
    BY <1>1, <2>1 DEF Rename
<1>2. CASE DeleteRow(t)
  <2>1. \A i \in Rows : Moved(req[t].old, NoName)[i].at
                        = IF Same(onts[i].at, req[t].old) THEN NoName ELSE onts[i].at
    BY MovedNames
  <2>2. QED
    BY <1>2, <2>1 DEF DeleteRow
<1>3. CASE Refuse(t)
  BY <1>3 DEF Refuse
<1>4. QED
  BY <1>1, <1>2, <1>3, EndsBy

\* A rename or a deletion leaves no ONT behind with a name that is gone, in
\* whatever case, unless another handler of its row was faster or an OLT is deleted.
THEOREM NoneLeftBehindTheorem == Spec => NoneLeftBehind
<1> DEFINE A == \A t \in Threads :
                  Ends(t) /\ dir[req[t].id] = req[t].old
                  => \/ kind = "olt" /\ req[t].pc = "delete"
                     \/ \A i \in Rows : KnownTo(dir, onts[i].at)
                           => onts'[i].at = NoName \/ KnownTo(dir', onts'[i].at)
<1>1. TypeInv /\ [Next]_vars => A
  <2> SUFFICES ASSUME TypeInv, [Next]_vars, NEW t \in Threads, Ends(t),
                      dir[req[t].id] = req[t].old,
                      ~(kind = "olt" /\ req[t].pc = "delete"),
                      NEW i \in Rows, KnownTo(dir, onts[i].at)
               PROVE  onts'[i].at = NoName \/ KnownTo(dir', onts'[i].at)
    OBVIOUS
  <2> DEFINE d == req[t].id
             old == req[t].old
             new == req[t].name
  <2>0. Local(req[t]) /\ req[t].pc \in {"rename", "delete"}
    BY DEF Ends, TypeInv
  <2>1. d \in DirIds /\ old \in Names /\ (req[t].pc = "rename" => new \in Names)
    BY <2>0 DEF Local
  <2>2. PICK e \in DirIds : dir[e] # NoName /\ Same(dir[e], onts[i].at)
    BY DEF KnownTo
  <2>3. dir \in [DirIds -> Names \cup {NoName}] /\ kind \in {"odp", "olt"}
    BY DEF TypeInv, TypeOK
  <2>4. CASE UNCHANGED dir /\ onts'[i].at = onts[i].at
    BY <2>4 DEF KnownTo
  <2>5. CASE /\ req[t].pc = "rename"
             /\ dir' = [dir EXCEPT ![d] = IF @ = NoName THEN @ ELSE new]
             /\ \/ Same(old, new) /\ onts'[i].at = onts[i].at
                \/ onts'[i].at = IF Same(onts[i].at, old) THEN new ELSE onts[i].at
    <3>1. dir'[d] = new /\ new # NoName
      BY <2>1, <2>3, <2>5
    <3>2. e # d => dir'[e] = dir[e]
      BY <2>3, <2>5
    <3>3. CASE onts'[i].at = new
      BY <2>1, <3>1, <3>3 DEF KnownTo, Same
    <3>4. CASE onts'[i].at = onts[i].at /\ e # d
      BY <2>2, <3>2, <3>4 DEF KnownTo
    <3>5. CASE onts'[i].at = onts[i].at /\ e = d
      <4>1. Same(onts[i].at, old)
        BY <2>2, <3>5 DEF Same
      <4>2. CASE Same(old, new)
        BY <2>1, <3>1, <3>5, <4>1, <4>2 DEF KnownTo, Same
      <4>3. CASE ~Same(old, new)
        BY <2>5, <3>3, <4>1, <4>3
      <4>4. QED
        BY <4>2, <4>3
    <3>6. QED
      BY <2>5, <3>3, <3>4, <3>5
  <2>6. CASE /\ req[t].pc = "delete"
             /\ dir' = [dir EXCEPT ![d] = NoName]
             /\ onts'[i].at = IF Same(onts[i].at, old) THEN NoName ELSE onts[i].at
    <3>1. CASE e = d
      BY <2>2, <2>6, <3>1 DEF Same
    <3>2. CASE e # d
      BY <2>2, <2>3, <2>6, <3>2 DEF KnownTo
    <3>3. QED
      BY <3>1, <3>2
  <2> HIDE DEF d, old, new
  <2>7. QED
    BY <2>3, <2>4, <2>5, <2>6, EndsNames DEF d, old, new
<1>2. QED
  BY <1>1, Ordered, PTL DEF Spec, NoneLeftBehind

\* Renames and deletions treat the ONTs of one ODP or OLT alike, whatever else is
\* under way.
THEOREM GroupsStayTheorem == Spec => GroupsStay
<1> DEFINE A == \A t \in Threads :
                  Ends(t) => \A i, j \in Rows :
                     Same(onts[i].at, onts[j].at) => Same(onts'[i].at, onts'[j].at)
<1>1. TypeInv /\ [Next]_vars => A
  <2> SUFFICES ASSUME TypeInv, [Next]_vars, NEW t \in Threads, Ends(t),
                      NEW i \in Rows, NEW j \in Rows, Same(onts[i].at, onts[j].at)
               PROVE  Same(onts'[i].at, onts'[j].at)
    OBVIOUS
  <2>1. \/ \A k \in Rows : onts'[k].at = onts[k].at
        \/ \E new : \A k \in Rows :
              onts'[k].at = IF Same(onts[k].at, req[t].old) THEN new ELSE onts[k].at
    BY EndsNames
  <2>2. QED
    BY <2>1 DEF Same
<1>2. QED
  BY <1>1, Ordered, PTL DEF Spec, GroupsStay

\* ONTs go with the names of their directories, for any names, threads and
\* requests (nms/fiber_routes.py:1309-1384, 1554-1618).
THEOREM NamesTheorem == Spec => NamesAreFollowed
BY NoneLeftBehindTheorem, GroupsStayTheorem DEF NamesAreFollowed

-----------------------------------------------------------------------------
(* What the import and the discovery write over                             *)

\* What an import in state r makes of row i: it keeps the row's serial number, and
\* its name but for a cell of the file, but for the row read before the
\* transaction began.
ImportKeeps(r, i, old, new) ==
    /\ new # NoOnt /\ new.sn = old.sn
    /\ \/ new.at = old.at
       \/ i = r.id
       \/ \E n \in DOMAIN r.file : r.file[n].sn = old.sn /\ r.file[n].at # NoName
    /\ new.rx = "device" => old.rx = "device" \/ (i = r.id /\ r.cur.rx = "device")

\* What a discovery in state r makes of row i.
DiscoveryKeeps(r, i, old, new) ==
    \/ new = old
    \/ /\ new = [old EXCEPT !.rx = "device"]
       /\ \E x \in Indices : r.listed[x] = i /\ x \notin r.manual

Keeps(r, i, old, new) ==
    /\ r.pc = "lines"  => ImportKeeps(r, i, old, new)
    /\ r.pc = "listed" => DiscoveryKeeps(r, i, old, new)

Importing == {"lines", "found", "line"}
FileInv == \A t \in Threads : req[t].file # <<>> => req[t].pc \in Importing

\* The open transaction holds the committed rows but for what its holder wrote.
KeptInv ==
    tx.open => /\ req[lock].pc \in {"lines", "listed"}
               /\ \A i \in Rows : Keeps(req[lock], i, onts[i], tx.onts[i])

LEMMA IdleFile == Idle.file = <<>> /\ Idle.pc = "idle"
  BY DEF Idle

\* What a step does to the state of its thread, as far as files go.
LEMMA FileStep ==
  ASSUME TypeInv, FileInv, NEW t \in Threads, NEW r,
         req' = [req EXCEPT ![t] = r], r.file # <<>> => r.pc \in Importing
  PROVE  FileInv'
  BY DEF TypeInv, TypeOK, FileInv

LEMMA FileNext ==
  ASSUME TypeInv, FileInv, [Next]_vars
  PROVE  FileInv'
<1>0. \A t \in Threads : req[t] \in Request /\ Idle \in Request
  BY IdleType DEF TypeInv, TypeOK
<1>1. ASSUME NEW t \in Threads, Answer(t) PROVE FileInv'
  BY <1>1, IdleFile, FileStep DEF Answer
<1>2. ASSUME NEW t \in Threads, NextLine(t), req[t].pc \in Importing PROVE FileInv'
  <2> DEFINE r == [req[t] EXCEPT !.pc = "lines", !.n = req[t].n + 1]
  <2>1. req' = [req EXCEPT ![t] = r]
    BY <1>2 DEF NextLine, TypeInv, TypeOK
  <2>2. r.pc = "lines"
    BY <1>0 DEF Request
  <2> HIDE DEF r
  <2>3. QED
    BY <2>1, <2>2, FileStep DEF Importing
<1>3. ASSUME NEW t \in Threads, NEW pc, Goto(t, pc), req[t].pc \notin Importing PROVE FileInv'
  <2> DEFINE r == [req[t] EXCEPT !.pc = pc]
  <2>1. req' = [req EXCEPT ![t] = r]
    BY <1>3 DEF Goto, TypeInv, TypeOK
  <2>2. r.file = <<>>
    <3>1. req[t].file = <<>>
      BY <1>3 DEF FileInv
    <3>2. QED
      BY <1>0, <3>1 DEF Request
  <2> HIDE DEF r
  <2>3. QED
    BY <2>1, <2>2, FileStep
<1>4. ASSUME NEW t \in Threads, Directory(t) PROVE FileInv'
  <2>1. ASSUME NEW name \in Names, CheckNewName(t, name) PROVE FileInv'
    <3> DEFINE r == [Idle EXCEPT !.pc = "create", !.name = name]
    <3>1. req' = [req EXCEPT ![t] = r]
      BY <2>1 DEF CheckNewName, Begin
    <3>2. r.file = <<>>
      BY <1>0, IdleFile DEF Request
    <3> HIDE DEF r
    <3>3. QED
      BY <3>1, <3>2, FileStep
  <2>2. ASSUME NEW d \in DirIds, NEW name \in Names, ReadOldName(t, d, name) PROVE FileInv'
    <3> DEFINE r == [Idle EXCEPT !.pc = "named", !.id = d, !.name = name, !.old = dir[d]]
    <3>1. req' = [req EXCEPT ![t] = r]
      BY <2>2 DEF ReadOldName, Begin
    <3>2. r.file = <<>>
      BY <1>0, IdleFile DEF Request
    <3> HIDE DEF r
    <3>3. QED
      BY <3>1, <3>2, FileStep
  <2>3. ASSUME NEW d \in DirIds, ReadName(t, d) PROVE FileInv'
    <3> DEFINE r == [Idle EXCEPT !.pc = "delete", !.id = d, !.old = dir[d]]
    <3>1. req' = [req EXCEPT ![t] = r]
      BY <2>3 DEF ReadName, Begin
    <3>2. r.file = <<>>
      BY <1>0, IdleFile DEF Request
    <3> HIDE DEF r
    <3>3. QED
      BY <3>1, <3>2, FileStep
  <2>4. CASE CheckName(t)
    BY <1>1, <1>3, <2>4 DEF CheckName, Importing
  <2>5. QED
    BY <1>1, <1>4, <2>1, <2>2, <2>3, <2>4 DEF Directory, InsertRow, Rename, DeleteRow
<1>5. ASSUME NEW t \in Threads, OneOnt(t) PROVE FileInv'
  <2>1. ASSUME NEW pc, NEW id, Begin(t, [Idle EXCEPT !.pc = pc, !.id = id]) PROVE FileInv'
    <3> DEFINE r == [Idle EXCEPT !.pc = pc, !.id = id]
    <3>1. req' = [req EXCEPT ![t] = r]
      BY <2>1 DEF Begin
    <3>2. r.file = <<>>
      BY <1>0, IdleFile DEF Request
    <3> HIDE DEF r
    <3>3. QED
      BY <3>1, <3>2, FileStep
  <2>2. CASE LoadRow(t)
    BY <1>1, <1>3, <2>2 DEF LoadRow, Importing
  <2>3. QED
    BY <1>1, <1>5, <2>1, <2>2 DEF OneOnt, CreateOnt, UpdateOnt, Remember, DeleteOnt, Forget
<1>6. ASSUME NEW t \in Threads, Import(t) PROVE FileInv'
  <2>1. ASSUME NEW file \in Files, NEW upsert \in BOOLEAN, TakeFile(t, file, upsert)
        PROVE  FileInv'
    <3> DEFINE r == [Idle EXCEPT !.pc = "lines", !.file = file, !.upsert = upsert, !.n = 1]
    <3>1. req' = [req EXCEPT ![t] = r]
      BY <2>1 DEF TakeFile, Begin
    <3>2. r.pc = "lines"
      BY <1>0 DEF Request
    <3> HIDE DEF r
    <3>3. QED
      BY <3>1, <3>2, FileStep DEF Importing
  <2>2. ASSUME FindRow(t) PROVE FileInv'
    <3>1. ASSUME NEW pc \in {"found", "line"}, NEW i,
                 req' = [req EXCEPT ![t].pc = pc, ![t].id = i]
          PROVE  FileInv'
      <4> DEFINE r == [req[t] EXCEPT !.pc = pc, !.id = i]
      <4>1. req' = [req EXCEPT ![t] = r]
        BY <3>1 DEF TypeInv, TypeOK
      <4>2. r.pc = pc
        BY <1>0 DEF Request
      <4> HIDE DEF r
      <4>3. QED
        BY <4>1, <4>2, FileStep DEF Importing
    <3>2. QED
      BY <2>2, <3>1 DEF FindRow
  <2>3. ASSUME ReadRow(t) PROVE FileInv'
    <3>1. ASSUME NEW o, req' = [req EXCEPT ![t].pc = "line", ![t].cur = o]
          PROVE  FileInv'
      <4> DEFINE r == [req[t] EXCEPT !.pc = "line", !.cur = o]
      <4>1. req' = [req EXCEPT ![t] = r]
        BY <3>1 DEF TypeInv, TypeOK
      <4>2. r.pc = "line"
        BY <1>0 DEF Request
      <4> HIDE DEF r
      <4>3. QED
        BY <4>1, <4>2, FileStep DEF Importing
    <3>2. QED
      BY <1>2, <2>3, <3>1 DEF ReadRow, Importing
  <2>4. QED
    BY <1>1, <1>2, <1>6, <2>1, <2>2, <2>3
    DEF Import, SkipLine, WriteFirstLine, WriteLine, RefuseLine, CommitFile, Commit, Importing
<1>7. ASSUME NEW t \in Threads, Discover(t) PROVE FileInv'
  <2>1. ASSUME NEW d \in DirIds, NEW found \in SUBSET Indices, Walk(t, d, found)
        PROVE  FileInv'
    <3> DEFINE r == [Idle EXCEPT !.pc = "walked", !.old = dir[d], !.found = found]
    <3>1. req' = [req EXCEPT ![t] = r]
      BY <2>1 DEF Walk, Begin
    <3>2. r.file = <<>>
      BY <1>0, IdleFile DEF Request
    <3> HIDE DEF r
    <3>3. QED
      BY <3>1, <3>2, FileStep
  <2>2. ASSUME List(t) PROVE FileInv'
    <3>1. PICK table \in [Indices -> {0} \cup OntIds], update \in BOOLEAN :
              req' = [req EXCEPT ![t] = Listed(@, table, update)]
      BY <2>2 DEF List
    <3> DEFINE r == Listed(req[t], table, update)
    <3>2. req' = [req EXCEPT ![t] = r]
      BY <3>1 DEF TypeInv, TypeOK
    <3>3. r.file = <<>>
      <4>1. req[t].file = <<>>
        BY <2>2 DEF FileInv, List, Importing
      <4>2. QED
        BY <1>0, <4>1 DEF Request, Listed
    <3> HIDE DEF r
    <3>4. QED
      BY <3>2, <3>3, FileStep
  <2>3. ASSUME NEW x \in Indices, TakeIndex(t, x) PROVE FileInv'
    <3> DEFINE r == [req[t] EXCEPT !.found = req[t].found \ {x}]
    <3>1. req' = [req EXCEPT ![t] = r]
      BY <2>3 DEF TakeIndex, TypeInv, TypeOK
    <3>2. r.file = <<>>
      <4>1. req[t].file = <<>>
        BY <2>3 DEF FileInv, TakeIndex, Importing
      <4>2. QED
        BY <1>0, <4>1 DEF Request
    <3> HIDE DEF r
    <3>3. QED
      BY <3>1, <3>2, FileStep
  <2>4. QED
    BY <1>1, <1>7, <2>1, <2>2, <2>3 DEF Discover, CommitRows, Commit
<1>8. ASSUME NEW t \in Threads, Refuse(t) \/ RollBack(t) PROVE FileInv'
  BY <1>1, <1>8 DEF Refuse, RollBack
<1>9. ASSUME Poll \/ Rest \/ UNCHANGED vars PROVE FileInv'
  BY <1>9 DEF Poll, Ask, WriteValues, RefuseValues, Rest, vars, FileInv
<1>10. QED
  BY <1>4, <1>5, <1>6, <1>7, <1>8, <1>9 DEF Next

\* The rows of the transaction after a write, and after a row was added to it.
LEMMA WriteOntRows ==
  ASSUME TypeInv, NEW i \in OntIds, NEW o, WriteOnt(i, o)
  PROVE  /\ tx'.open
         /\ \A j \in OntIds : tx'.onts[j] = IF j = i /\ View[i] # NoOnt THEN o ELSE View[j]
<1>1. Begun \in Tx /\ Begun.open /\ View = Begun.onts
  BY BegunType DEF TypeInv
<1> DEFINE table == [Begun.onts EXCEPT ![i] = IF Begun.onts[i] = NoOnt THEN NoOnt ELSE o]
<1>2. tx' = [Begun EXCEPT !.onts = table]
  BY <1>1 DEF WriteOnt, Tx
<1>3. \A j \in OntIds : table[j] = IF j = i /\ View[i] # NoOnt THEN o ELSE View[j]
  BY <1>1 DEF Tx
<1> HIDE DEF table
<1>4. tx'.open /\ tx'.onts = table
  BY <1>1, <1>2 DEF Tx
<1>5. QED
  BY <1>3, <1>4

LEMMA AddOntRows ==
  ASSUME TypeInv, OrderInv, NEW o \in Ont, AddOnt(o)
  PROVE  tx'.open /\ \A j \in Rows : tx'.onts[j] = View[j]
<1>1. Begun \in Tx /\ View = Begun.onts
  BY BegunType DEF TypeInv
<1>2. tx'.open /\ tx'.onts = [View EXCEPT ![Begun.last + 1] = o]
  BY <1>1, AddOntType DEF TypeInv
<1>3. ASSUME NEW j \in Rows PROVE j # Begun.last + 1
  <2>1. j \in Nat /\ j <= last.ont /\ last.ont <= Begun.last
    BY DEF Rows, OntIds, OrderInv, TxInv
  <2>2. last.ont \in Nat /\ Begun.last \in Nat
    BY <1>1 DEF Tx, TypeInv, TypeOK
  <2>3. QED
    BY <2>1, <2>2
<1>4. QED
  BY <1>1, <1>2, <1>3 DEF Tx, Rows

LEMMA BegunRows ==
  ASSUME TypeInv, tx' = Begun
  PROVE  tx'.open /\ tx'.onts = View
  BY BegunType DEF TypeInv

\* Before a write the transaction, or the table if there is none, is as it should be.
LEMMA ViewKeeps ==
  ASSUME TypeInv, KeptInv, NEW t \in Threads, lock = t
  PROVE  \A i \in Rows : Keeps(req[t], i, onts[i], View[i])
<1>1. CASE tx.open
  BY <1>1 DEF KeptInv, View
<1>2. CASE ~tx.open
  BY <1>2 DEF View, Keeps, ImportKeeps, DiscoveryKeeps, Rows
<1>3. QED
  BY <1>1, <1>2

\* Of the states r and q of a request: what KeptInv speaks of is the same.
Alike(r, q) ==
    /\ r.pc = q.pc /\ r.id = q.id /\ r.cur = q.cur /\ r.file = q.file
    /\ r.listed = q.listed /\ r.manual = q.manual

LEMMA AlikeKeeps ==
  ASSUME NEW r, NEW q, Alike(r, q), NEW i, NEW old, NEW new, Keeps(r, i, old, new)
  PROVE  Keeps(q, i, old, new)
  BY DEF Alike, Keeps, ImportKeeps, DiscoveryKeeps

LEMMA KeptStep ==
  ASSUME NEW t \in Threads, lock' = t, UNCHANGED onts,
         req'[t].pc \in {"lines", "listed"},
         \A i \in Rows : Keeps(req'[t], i, onts[i], tx'.onts[i])
  PROVE  KeptInv'
  BY DEF KeptInv, Rows

LEMMA QuietKept ==
  ASSUME KeptInv, UNCHANGED <<tx, onts, lock>>, tx.open => Alike(req[lock], req'[lock])
  PROVE  KeptInv'
<1> SUFFICES ASSUME tx.open
             PROVE  /\ req'[lock].pc \in {"lines", "listed"}
                    /\ \A i \in Rows : Keeps(req'[lock], i, onts[i], tx.onts[i])
  BY DEF KeptInv, Rows
<1>1. Alike(req[lock], req'[lock]) /\ req[lock].pc \in {"lines", "listed"}
  BY DEF KeptInv
<1>2. QED
  BY <1>1, AlikeKeeps DEF KeptInv, Alike

LEMMA MergedFields ==
  ASSUME NEW line \in Line, NEW cur \in Ont, NEW sn \in Sns
  PROVE  /\ [Merged(line, cur) EXCEPT !.sn = sn].sn = sn
         /\ [Merged(line, cur) EXCEPT !.sn = sn].at = cur.at
            \/ (/\ line.at # NoName
                /\ [Merged(line, cur) EXCEPT !.sn = sn].at = line.at)
         /\ [Merged(line, cur) EXCEPT !.sn = sn].rx = "device" => cur.rx = "device"
<1>1. Merged(line, cur) = [cur EXCEPT !.at  = Cell(line.at, NoName, cur.at),
                                      !.idx = Cell(line.idx, NoIndex, cur.idx),
                                      !.src = Cell(line.src, "empty", cur.src),
                                      !.rx  = Cell(line.rx, "empty", cur.rx)]
  BY DEF Merged, Ont
<1> DEFINE at == Cell(line.at, NoName, cur.at)
           rx == Cell(line.rx, "empty", cur.rx)
<1>2. at = cur.at \/ (line.at # NoName /\ at = line.at)
  BY DEF Cell
<1>3. rx = "device" => cur.rx = "device"
  BY DEF Cell, Line
<1> HIDE DEF at, rx
<1>4. /\ [Merged(line, cur) EXCEPT !.sn = sn].sn = sn
      /\ [Merged(line, cur) EXCEPT !.sn = sn].at = at
      /\ [Merged(line, cur) EXCEPT !.sn = sn].rx = rx
  BY <1>1 DEF Ont, at, rx
<1>5. QED
  BY <1>2, <1>3, <1>4

\* After a line the state of the import is the next line's.
LEMMA NextLineFields ==
  ASSUME TypeInv, NEW t \in Threads, NextLine(t)
  PROVE  /\ req'[t].pc = "lines" /\ req'[t].id = req[t].id /\ req'[t].cur = req[t].cur
         /\ req'[t].file = req[t].file /\ req'[t].listed = req[t].listed
         /\ req'[t].manual = req[t].manual
<1>1. req[t] \in Request
  BY DEF TypeInv, TypeOK
<1> DEFINE r == [req[t] EXCEPT !.pc = "lines", !.n = req[t].n + 1]
<1>2. req'[t] = r
  BY DEF NextLine, TypeInv, TypeOK
<1>3. /\ r.pc = "lines" /\ r.id = req[t].id /\ r.cur = req[t].cur
      /\ r.file = req[t].file /\ r.listed = req[t].listed /\ r.manual = req[t].manual
  BY <1>1 DEF Request
<1> HIDE DEF r
<1>4. QED
  BY <1>2, <1>3

\* A line of the file: its serial number and a cell of it are in the file.
LEMMA LineInFile ==
  ASSUME TypeInv, NEW t \in Threads, req[t].pc \in {"lines", "line"},
         req[t].n <= Len(req[t].file)
  PROVE  /\ CurrentLine(t) \in Line
         /\ \E n \in DOMAIN req[t].file : req[t].file[n] = CurrentLine(t)
<1>1. req[t] \in Request /\ Local(req[t])
  BY DEF TypeInv, TypeOK
<1>2. req[t].file \in Files /\ req[t].n \in Nat \ {0} /\ req[t].file \in Seq(Line)
  BY <1>1 DEF Local
<1>3. req[t].n \in DOMAIN req[t].file
  BY <1>2, LenProperties
<1>4. QED
  BY <1>1, <1>2, <1>3, LineType DEF CurrentLine

LEMMA KeptInsert ==
  ASSUME TypeInv, OrderInv, NEW t \in Threads, CurrentLine(t) \in Line, Insert(t)
  PROVE  \A i \in Rows : tx'.onts[i] = View[i]
  BY NewType, AddOntRows, BegunRows DEF Insert

\* The first line written: its row is the one read before the transaction.
LEMMA KeptFirstLine ==
  ASSUME TypeInv, OrderInv, KeptInv, NEW t \in Threads, WriteFirstLine(t)
  PROVE  KeptInv'
<1>0. /\ req[t] \in Request /\ Local(req[t])
      /\ req[t].pc = "line" /\ NextLine(t) /\ UNCHANGED <<onts, lock>>
  BY DEF WriteFirstLine, TypeInv, TypeOK
<1>1. lock = t /\ ~tx.open /\ View = onts
  <2>1. lock = t
    BY <1>0 DEF OrderInv, LockInv, Holding
  <2>2. QED
    BY <1>0, <2>1 DEF KeptInv, View
<1>2. CurrentLine(t) \in Line
  BY <1>0, LineInFile DEF Local
<1>3. \A i \in Rows : ImportKeeps(req'[t], i, onts[i], tx'.onts[i])
  <2>0. req'[t].id = req[t].id /\ req'[t].cur = req[t].cur /\ req'[t].file = req[t].file
    BY <1>0, NextLineFields
  <2> SUFFICES ASSUME NEW i \in Rows
               PROVE  ImportKeeps(req'[t], i, onts[i], tx'.onts[i])
    OBVIOUS
  <2>1. i \in OntIds /\ onts[i] \in Ont
    BY DEF Rows, TypeInv, TypeOK
  <2>2. CASE tx'.onts[i] = onts[i]
    BY <2>1, <2>2, NoOntIsNone DEF ImportKeeps
  <2>3. CASE req[t].id # 0 /\ i = req[t].id
    <3>1. req[t].cur \in Ont /\ onts[i].sn \in Sns
      BY <1>0, <2>1, <2>3 DEF Local, Ont
    <3> DEFINE o == [Merged(CurrentLine(t), req[t].cur) EXCEPT !.sn = onts[i].sn]
    <3>2. WriteOnt(i, o)
      BY <1>1, <2>3 DEF WriteFirstLine, Update
    <3>3. o.sn = onts[i].sn /\ (o.rx = "device" => req[t].cur.rx = "device") /\ o \in Ont
      BY <1>2, <3>1, MergedFields, MergedType
    <3> HIDE DEF o
    <3>4. tx'.onts[i] = o
      BY <1>1, <2>1, <3>2, WriteOntRows, NoOntIsNone
    <3>5. QED
      BY <2>0, <2>3, <3>3, <3>4, NoOntIsNone DEF ImportKeeps
  <2>4. CASE req[t].id # 0 /\ i # req[t].id
    <3>1. req[t].id \in OntIds
      BY <1>0, <2>4 DEF Local
    <3>2. PICK o : WriteOnt(req[t].id, o)
      BY <2>4 DEF WriteFirstLine, Update
    <3>3. tx'.onts[i] = onts[i]
      BY <1>1, <2>1, <2>4, <3>1, <3>2, WriteOntRows
    <3>4. QED
      BY <2>2, <3>3
  <2>5. CASE req[t].id = 0
    <3>1. Insert(t)
      BY <2>5 DEF WriteFirstLine
    <3>2. tx'.onts[i] = onts[i]
      BY <1>1, <1>2, <3>1, KeptInsert
    <3>3. QED
      BY <2>2, <3>2
  <2>6. QED
    BY <2>3, <2>4, <2>5
<1>4. req'[t].pc = "lines"
  BY <1>0, NextLineFields
<1>5. QED
  BY <1>0, <1>1, <1>3, <1>4, KeptStep DEF Keeps

\* The other lines read what they write over in the transaction.
LEMMA KeptLine ==
  ASSUME TypeInv, OrderInv, KeptInv, NEW t \in Threads, WriteLine(t)
  PROVE  KeptInv'
<1>0. /\ req[t] \in Request /\ Local(req[t])
      /\ req[t].pc = "lines" /\ NextLine(t) /\ UNCHANGED <<onts, lock>>
      /\ req[t].n <= Len(req[t].file)
  BY DEF WriteLine, TypeInv, TypeOK
<1>1. lock = t
  BY <1>0 DEF OrderInv, LockInv, Holding
<1>2. CurrentLine(t) \in Line /\ \E n \in DOMAIN req[t].file : req[t].file[n] = CurrentLine(t)
  BY <1>0, LineInFile
<1>3. \A i \in Rows : ImportKeeps(req[t], i, onts[i], tx'.onts[i])
  <2> SUFFICES ASSUME NEW i \in Rows
               PROVE  ImportKeeps(req[t], i, onts[i], tx'.onts[i])
    OBVIOUS
  <2>1. i \in OntIds /\ ImportKeeps(req[t], i, onts[i], View[i])
    BY <1>0, <1>1, ViewKeeps DEF Keeps, Rows
  <2>2. CASE tx'.onts[i] = View[i]
    BY <2>1, <2>2
  <2>3. ASSUME Update(t, i, View[i]), i \in SnOwner(View, CurrentLine(t).sn)
        PROVE  ImportKeeps(req[t], i, onts[i], tx'.onts[i])
    <3>1. View[i] \in Ont /\ View[i].sn \in Sns /\ View[i].sn = CurrentLine(t).sn
      BY <2>1, <2>3, BegunType DEF SnOwner, Tx, TypeInv, Ont
    <3> DEFINE o == [Merged(CurrentLine(t), View[i]) EXCEPT !.sn = View[i].sn]
    <3>2. WriteOnt(i, o)
      BY <2>3 DEF Update
    <3>3. /\ o.sn = View[i].sn /\ o \in Ont
          /\ o.at = View[i].at \/ CurrentLine(t).at # NoName
          /\ o.rx = "device" => View[i].rx = "device"
      BY <1>2, <3>1, MergedFields, MergedType
    <3> HIDE DEF o
    <3>4. tx'.onts[i] = o
      BY <2>1, <3>1, <3>2, WriteOntRows, NoOntIsNone
    <3>5. View[i].sn = onts[i].sn
      BY <2>1 DEF ImportKeeps
    <3>6. CASE o.at = View[i].at
      BY <2>1, <3>3, <3>4, <3>6, NoOntIsNone DEF ImportKeeps
    <3>7. CASE CurrentLine(t).at # NoName
      BY <1>2, <2>1, <3>1, <3>3, <3>4, <3>5, <3>7, NoOntIsNone DEF ImportKeeps
    <3>8. QED
      BY <3>3, <3>6, <3>7
  <2>4. ASSUME NEW j \in SnOwner(View, CurrentLine(t).sn), Update(t, j, View[j]), j # i
        PROVE  tx'.onts[i] = View[i]
    BY <2>1, <2>4, WriteOntRows DEF Update, SnOwner
  <2>5. CASE Insert(t)
    BY <1>2, <2>2, <2>5, KeptInsert
  <2>6. QED
    BY <2>2, <2>3, <2>4, <2>5 DEF WriteLine
<1>4. \A i \in Rows : ImportKeeps(req'[t], i, onts[i], tx'.onts[i])
  BY <1>0, <1>3, NextLineFields DEF ImportKeeps
<1>5. req'[t].pc = "lines"
  BY <1>0, NextLineFields
<1>6. QED
  BY <1>0, <1>1, <1>4, <1>5, KeptStep DEF Keeps

\* A discovery writes the measurement of a row and nothing else of it.
LEMMA KeptIndex ==
  ASSUME TypeInv, OrderInv, KeptInv, NEW t \in Threads, NEW x \in Indices, TakeIndex(t, x)
  PROVE  KeptInv'
<1>0. /\ req[t] \in Request /\ Local(req[t]) /\ req[t].pc = "listed"
      /\ UNCHANGED <<onts, lock>>
  BY DEF TakeIndex, TypeInv, TypeOK
<1>1. lock = t
  BY <1>0 DEF OrderInv, LockInv, Holding
<1>2. Alike(req[t], req'[t])
  <2>1. req'[t] = [req[t] EXCEPT !.found = req[t].found \ {x}]
    BY DEF TakeIndex, TypeInv, TypeOK
  <2>2. QED
    BY <1>0, <2>1 DEF Request, Alike
<1>3. \A i \in Rows : DiscoveryKeeps(req[t], i, onts[i], View[i])
  BY <1>0, <1>1, ViewKeeps DEF Keeps
<1>4. CASE Skips(req[t], x)
  <2>1. UNCHANGED tx
    BY <1>4 DEF TakeIndex
  <2>2. QED
    BY <1>0, <1>1, <1>2, <2>1, QuietKept
<1>5. CASE ~Skips(req[t], x)
  <2>1. \A i \in Rows : DiscoveryKeeps(req[t], i, onts[i], tx'.onts[i])
    <3> SUFFICES ASSUME NEW i \in Rows
                 PROVE  DiscoveryKeeps(req[t], i, onts[i], tx'.onts[i])
      OBVIOUS
    <3> DEFINE j == req[t].listed[x]
    <3>1. i \in OntIds /\ onts[i] \in Ont /\ j \in {0} \cup OntIds
      BY <1>0 DEF Rows, TypeInv, TypeOK, Request
    <3>2. CASE tx'.onts[i] = View[i]
      BY <1>3, <3>2
    <3>3. CASE j # 0 /\ j # i
      BY <1>5, <3>1, <3>2, <3>3, WriteOntRows DEF TakeIndex
    <3>4. CASE j # 0 /\ j = i
      <4>1. WriteOnt(i, [View[i] EXCEPT !.rx = "device"])
        BY <1>5, <3>4 DEF TakeIndex
      <4>2. tx'.onts[i] = View[i] \/ tx'.onts[i] = [View[i] EXCEPT !.rx = "device"]
        BY <3>1, <4>1, WriteOntRows
      <4>3. View[i] = onts[i] \/ View[i] = [onts[i] EXCEPT !.rx = "device"]
        BY <1>3 DEF DiscoveryKeeps
      <4>4. [View[i] EXCEPT !.rx = "device"] = [onts[i] EXCEPT !.rx = "device"]
        BY <3>1, <4>3 DEF Ont
      <4>5. x \notin req[t].manual
        BY <1>5, <3>4 DEF Skips
      <4>6. QED
        BY <3>2, <3>4, <4>2, <4>4, <4>5 DEF DiscoveryKeeps
    <3>5. CASE j = 0
      <4>1. \/ tx' = Begun
            \/ AddOnt(Discovered(req[t].old, x))
        BY <1>5, <3>5 DEF TakeIndex
      <4>2. Discovered(req[t].old, x) \in Ont
        BY <1>0, DiscoveredType DEF Local
      <4>3. QED
        BY <3>2, <4>1, <4>2, AddOntRows, BegunRows
    <3>6. QED
      BY <3>3, <3>4, <3>5
  <2>2. \A i \in Rows : Keeps(req'[t], i, onts[i], tx'.onts[i])
    BY <1>0, <1>2, <2>1 DEF Alike, Keeps, DiscoveryKeeps
  <2>3. QED
    BY <1>0, <1>1, <1>2, <2>2, KeptStep DEF Alike
<1>6. QED
  BY <1>4, <1>5

\* While a transaction is open the table stays, whoever steps; its holder stays
\* where it is unless it writes or ends.
LEMMA KeptOpen ==
  ASSUME TypeInv, OrderInv, KeptInv, tx.open, NEW t \in Threads,
         Directory(t) \/ OneOnt(t) \/ Import(t) \/ Discover(t) \/ Refuse(t) \/ RollBack(t)
  PROVE  KeptInv'
<1>1. lock \in Threads /\ lock # NoThread /\ req[lock].pc \in {"lines", "listed"}
  BY DEF OrderInv, LockInv, KeptInv
<1>2. \A u \in Threads : req[u].pc \in Holding => u = lock
  BY DEF OrderInv, LockInv
<1>3. ~TakeFile(t, req'[t].file, req'[t].upsert) /\ ~List(t)
      /\ \A file \in Files, upsert \in BOOLEAN : ~TakeFile(t, file, upsert)
  BY <1>1 DEF TakeFile, List
<1>4. CASE t # lock
  <2>1. req'[lock] = req[lock]
    BY <1>1, <1>4, OneThread
  <2>2. req[t].pc \notin Holding
    BY <1>2, <1>4
  <2>3. UNCHANGED <<tx, onts, lock>>
    <3>1. CASE Directory(t)
      BY <3>1 DEF Directory, CheckNewName, InsertRow, ReadOldName, CheckName, Rename,
                  ReadName, DeleteRow, Writable
    <3>2. CASE OneOnt(t)
      BY <3>2 DEF OneOnt, CreateOnt, UpdateOnt, LoadRow, Remember, DeleteOnt, Forget,
                  Writable
    <3>3. CASE Import(t)
      BY <1>3, <2>2, <3>3 DEF Import, SkipLine, FindRow, ReadRow, WriteFirstLine, WriteLine,
                              RefuseLine, CommitFile, Holding
    <3>4. CASE Discover(t)
      BY <1>3, <2>2, <3>4 DEF Discover, Walk, TakeIndex, CommitRows, Holding
    <3>5. CASE Refuse(t)
      BY <3>5 DEF Refuse
    <3>6. CASE RollBack(t)
      BY <1>4, <3>6 DEF RollBack
    <3>7. QED
      BY <3>1, <3>2, <3>3, <3>4, <3>5, <3>6
  <2>4. QED
    BY <2>1, <2>3, QuietKept DEF Alike
<1>5. CASE t = lock
  <2>1. ASSUME Commit(t) \/ RollBack(t) PROVE KeptInv'
    BY <2>1, NoTxType DEF Commit, RollBack, KeptInv
  <2>2. ~Directory(t) /\ ~OneOnt(t) /\ ~Refuse(t)
    BY <1>1, <1>5
    DEF Directory, CheckNewName, InsertRow, ReadOldName, CheckName, Rename, ReadName,
        DeleteRow, OneOnt, CreateOnt, UpdateOnt, LoadRow, Remember, DeleteOnt, Forget,
        Refuse, Begin
  <2>3. CASE SkipLine(t)
    <3>1. req[t].pc = "lines" /\ NextLine(t) /\ UNCHANGED <<tx, onts, lock>>
      BY <2>3 DEF SkipLine
    <3>2. Alike(req[lock], req'[lock])
      BY <1>5, <3>1, NextLineFields DEF Alike
    <3>3. QED
      BY <3>1, <3>2, QuietKept
  <2>4. ~FindRow(t) /\ ~ReadRow(t) /\ ~WriteFirstLine(t) /\ ~RefuseLine(t)
    BY <1>1, <1>5 DEF FindRow, ReadRow, WriteFirstLine, RefuseLine
  <2>5. \A d \in DirIds, found \in SUBSET Indices : ~Walk(t, d, found)
    BY <1>1, <1>5 DEF Walk, Begin
  <2>6. QED
    BY <1>3, <2>1, <2>2, <2>3, <2>4, <2>5, KeptLine, KeptIndex
    DEF Import, Discover, CommitFile, CommitRows
<1>6. QED
  BY <1>4, <1>5

LEMMA KeptNext ==
  ASSUME TypeInv, OrderInv, KeptInv, [Next]_vars
  PROVE  KeptInv'
<1>1. CASE Poll \/ Rest \/ UNCHANGED vars
  <2>1. UNCHANGED <<tx, lock, req>>
    BY <1>1 DEF Poll, Ask, WriteValues, RefuseValues, Rest, vars
  <2>2. tx.open => UNCHANGED onts
    BY <1>1 DEF Poll, Ask, WriteValues, RefuseValues, Rest, vars, OrderInv, LockInv
  <2>3. CASE tx.open
    BY <2>1, <2>2, <2>3, QuietKept DEF Alike
  <2>4. CASE ~tx.open
    BY <2>1, <2>4 DEF KeptInv
  <2>5. QED
    BY <2>3, <2>4
<1>2. ASSUME NEW t \in Threads, ~tx.open,
             \/ Directory(t) \/ OneOnt(t) \/ Import(t) \/ Discover(t)
             \/ Refuse(t) \/ RollBack(t)
      PROVE  KeptInv'
  <2>1. CASE ~tx'.open
    BY <2>1 DEF KeptInv
  <2>2. CASE tx'.open
    <3>1. tx' # tx /\ tx' # NoTx
      BY <1>2, <2>2, NoTxType
    <3>2. ~Directory(t) /\ ~OneOnt(t) /\ ~Refuse(t) /\ ~RollBack(t) /\ ~Commit(t)
      BY <3>1
      DEF Directory, CheckNewName, InsertRow, ReadOldName, CheckName, Rename, ReadName,
          DeleteRow, OneOnt, CreateOnt, UpdateOnt, LoadRow, Remember, DeleteOnt, Forget,
          Refuse, RollBack, Commit
    <3>3. WriteFirstLine(t) \/ \E x \in Indices : TakeIndex(t, x)
      BY <1>2, <3>1, <3>2
      DEF Import, TakeFile, SkipLine, FindRow, ReadRow, WriteLine, RefuseLine, CommitFile,
          Discover, Walk, List, CommitRows
    <3>4. QED
      BY <3>3, KeptFirstLine, KeptIndex
  <2>3. QED
    BY <2>1, <2>2
<1>3. QED
  BY <1>1, <1>2, KeptOpen DEF Next

LEMMA KeptAlways == Spec => [](TypeInv /\ OrderInv /\ FileInv /\ KeptInv)
<1>1. Init => FileInv /\ KeptInv
  BY IdleFile, NoTxType DEF Init, FileInv, KeptInv
<1>2. TypeInv /\ OrderInv /\ FileInv /\ KeptInv /\ [Next]_vars => FileInv' /\ KeptInv'
  BY FileNext, KeptNext
<1>3. QED
  BY <1>1, <1>2, Ordered, PTL DEF Spec

\* A commit writes what the transaction holds; without one it writes nothing.
LEMMA CommitKeeps ==
  ASSUME TypeInv, OrderInv, KeptInv, NEW t \in Threads, req[t].pc \in Holding, Commit(t),
         NEW i \in Rows
  PROVE  onts'[i] = onts[i] \/ (lock = t /\ Keeps(req[t], i, onts[i], onts'[i]))
<1>1. lock = t
  BY DEF OrderInv, LockInv
<1>2. QED
  BY <1>1, ViewKeeps DEF Commit

\* An import changes the name in a row only if the file has a cell for it, or in the
\* one row it read before its transaction began (nms/fiber_routes.py:966-1075).
THEOREM ImportKeepsTheorem == Spec => ImportKeepsNames
<1> DEFINE A == \A t \in Threads :
                  req[t].file # <<>> /\ req'[t].pc = "idle"
                  => \A i \in Rows :
                        \/ onts'[i].at = onts[i].at
                        \/ i = req[t].id
                        \/ \E n \in DOMAIN req[t].file :
                              req[t].file[n].sn = onts[i].sn /\ req[t].file[n].at # NoName
<1>1. TypeInv /\ OrderInv /\ FileInv /\ KeptInv /\ [Next]_vars => A
  <2> SUFFICES ASSUME TypeInv, OrderInv, FileInv, KeptInv, [Next]_vars,
                      NEW t \in Threads, req[t].file # <<>>, req'[t].pc = "idle",
                      NEW i \in Rows
               PROVE  \/ onts'[i].at = onts[i].at
                      \/ i = req[t].id
                      \/ \E n \in DOMAIN req[t].file :
                            req[t].file[n].sn = onts[i].sn /\ req[t].file[n].at # NoName
    OBVIOUS
  <2>1. req[t].pc \in Importing /\ req'[t] # req[t]
    BY DEF FileInv, Importing
  <2>2. PICK u \in Threads : \/ Directory(u) \/ OneOnt(u) \/ Import(u)
                             \/ Discover(u) \/ Refuse(u) \/ RollBack(u)
    BY <2>1 DEF Next, Poll, Ask, WriteValues, RefuseValues, Rest, vars
  <2>3. u = t
    BY <2>1, <2>2, OneThread
  <2>4. ~Directory(t) /\ ~OneOnt(t) /\ ~Discover(t) /\ ~Refuse(t)
    <3>1. req[t].pc \in {"lines", "found", "line"}
      BY <2>1 DEF Importing
    <3>2. ~Directory(t) /\ ~OneOnt(t)
      BY <3>1
      DEF Directory, CheckNewName, InsertRow, ReadOldName, CheckName, Rename, ReadName,
          DeleteRow, OneOnt, CreateOnt, UpdateOnt, LoadRow, Remember, DeleteOnt, Forget,
          Begin
    <3>3. ~Discover(t) /\ ~Refuse(t)
      BY <3>1 DEF Discover, Walk, List, TakeIndex, CommitRows, Refuse, Begin
    <3>4. QED
      BY <3>2, <3>3
  <2>5. CASE Import(t)
    <3>1. req'[t].pc # "lines" /\ req'[t].pc # "line" /\ req'[t].pc # "found"
      OBVIOUS
    <3>2. NextLine(t) => FALSE
      BY <3>1, NextLineFields
    <3>3. ~FindRow(t)
      <4>1. ASSUME NEW pc \in {"found", "line"}, NEW j,
                   req' = [req EXCEPT ![t].pc = pc, ![t].id = j]
            PROVE  req'[t].pc = pc
        BY <4>1 DEF TypeInv, TypeOK, Request
      <4>2. QED
        BY <3>1, <4>1 DEF FindRow
    <3>4. ~ReadRow(t)
      <4>1. ASSUME NEW o, req' = [req EXCEPT ![t].pc = "line", ![t].cur = o]
            PROVE  req'[t].pc = "line"
        BY <4>1 DEF TypeInv, TypeOK, Request
      <4>2. QED
        BY <3>1, <3>2, <4>1 DEF ReadRow
    <3>5. \A file \in Files, upsert \in BOOLEAN : ~TakeFile(t, file, upsert)
      BY <2>1 DEF TakeFile, Begin, Importing
    <3>6. CommitFile(t)
      BY <2>5, <3>2, <3>3, <3>4, <3>5
      DEF Import, SkipLine, WriteFirstLine, WriteLine, RefuseLine
    <3>7. req[t].pc = "lines" /\ Commit(t)
      BY <3>6 DEF CommitFile
    <3>8. onts'[i] = onts[i] \/ ImportKeeps(req[t], i, onts[i], onts'[i])
      BY <3>7, CommitKeeps DEF Holding, Keeps
    <3>9. QED
      BY <3>8 DEF ImportKeeps
  <2>6. CASE RollBack(t)
    BY <2>6 DEF RollBack
  <2>7. QED
    BY <2>2, <2>3, <2>4, <2>5, <2>6
<1>2. QED
  BY <1>1, KeptAlways, PTL DEF Spec, ImportKeepsNames

\* A typed measurement of a manual row becomes a device's by a discovery or a poll
\* that read the row before it was manual, or by an import that had read the
\* device's (nms/fiber_routes.py:996-1040).
THEOREM TypedValuesTheorem == Spec => TypedValuesKept
<1> DEFINE Allowed(i) ==
             \/ /\ onts'[i] = [onts[i] EXCEPT !.rx = "device"]
                /\ onts[i].src = "manual"
                   => \/ i \in targets
                      \/ \E x \in Indices, t \in Threads :
                            req[t].listed[x] = i /\ x \notin req[t].manual
             \/ \E t \in Threads :
                   /\ req[t].pc = "lines" /\ req'[t].pc = "idle"
                   /\ req[t].id = i /\ req[t].cur.rx = "device"
           A == \A i \in Rows : onts[i].rx = "user" /\ onts'[i].rx = "device" => Allowed(i)
<1>1. TypeInv /\ OrderInv /\ FileInv /\ KeptInv /\ [Next]_vars => A
  <2> HIDE DEF Allowed
  <2> SUFFICES ASSUME TypeInv, OrderInv, FileInv, KeptInv, [Next]_vars,
                      NEW i \in Rows, onts[i].rx = "user", onts'[i].rx = "device"
               PROVE  Allowed(i)
    OBVIOUS
  <2>0. i \in OntIds /\ onts[i] \in Ont /\ onts'[i] # onts[i]
    BY DEF Rows, TypeInv, TypeOK
  <2>1. ASSUME NEW t \in Threads, Directory(t) PROVE FALSE
    <3>1. ASSUME NEW old, NEW new PROVE Moved(old, new)[i].rx = "user"
      <4>1. [onts[i] EXCEPT !.at = new].rx = "user"
        BY <2>0 DEF Ont
      <4>2. QED
        BY <2>0, <4>1 DEF Moved
    <3>2. UNCHANGED onts \/ \E old, new : onts' = Moved(old, new)
      BY <2>1 DEF Directory, CheckNewName, InsertRow, ReadOldName, CheckName, Rename,
                  ReadName, DeleteRow
    <3>3. QED
      BY <2>0, <3>1, <3>2
  <2>2. ASSUME NEW t \in Threads, OneOnt(t) PROVE FALSE
    <3>1. ASSUME NEW form \in Forms, CreateOnt(t, form) PROVE FALSE
      <4>1. i <= last.ont /\ last.ont \in Nat /\ i \in Nat
        BY <2>0 DEF Rows, OrderInv, TxInv, TypeInv, TypeOK, OntIds
      <4>2. i # last.ont + 1
        BY <4>1
      <4>3. QED
        BY <2>0, <3>1, <4>2 DEF CreateOnt, TypeInv, TypeOK
    <3>2. ASSUME NEW j \in OntIds, NEW form \in Forms, UpdateOnt(t, j, form) PROVE FALSE
      BY <2>0, <3>2 DEF UpdateOnt, TypeInv, TypeOK
    <3>3. ASSUME NEW j \in OntIds, DeleteOnt(t, j) PROVE FALSE
      BY <2>0, <3>3 DEF DeleteOnt, NoOnt, TypeInv, TypeOK
    <3>4. QED
      BY <2>0, <2>2, <3>1, <3>2, <3>3 DEF OneOnt, LoadRow, Remember, Forget
  <2>3. ASSUME NEW t \in Threads, Commit(t), req[t].pc \in {"lines", "listed"}
        PROVE  \/ /\ onts'[i] = [onts[i] EXCEPT !.rx = "device"]
                  /\ \E x \in Indices : req[t].listed[x] = i /\ x \notin req[t].manual
               \/ /\ req[t].pc = "lines" /\ req'[t].pc = "idle"
                  /\ req[t].id = i /\ req[t].cur.rx = "device"
    <3>1. Keeps(req[t], i, onts[i], onts'[i])
      BY <2>0, <2>3, CommitKeeps DEF Holding
    <3>2. CASE req[t].pc = "lines"
      <4>1. req'[t].pc = "idle"
        BY <2>3, IdleFile DEF Commit, Answer, TypeInv, TypeOK
      <4>2. QED
        BY <3>1, <3>2, <4>1 DEF Keeps, ImportKeeps
    <3>3. CASE req[t].pc = "listed"
      BY <2>0, <3>1, <3>3 DEF Keeps, DiscoveryKeeps
    <3>4. QED
      BY <2>3, <3>2, <3>3
  <2>4. ASSUME NEW t \in Threads, Import(t) \/ Discover(t)
        PROVE  Commit(t) /\ req[t].pc \in {"lines", "listed"}
    BY <2>0, <2>4
    DEF Import, TakeFile, SkipLine, FindRow, ReadRow, WriteFirstLine, WriteLine, RefuseLine,
        CommitFile, Discover, Walk, List, TakeIndex, CommitRows
  <2>5. ASSUME NEW t \in Threads, Refuse(t) \/ RollBack(t) PROVE FALSE
    BY <2>0, <2>5 DEF Refuse, RollBack
  <2>6. ASSUME WriteValues
        PROVE  onts'[i] = [onts[i] EXCEPT !.rx = "device"] /\ i \in targets
    BY <2>0, <2>6 DEF WriteValues
  <2>7. WriteValues \/ \E t \in Threads : Import(t) \/ Discover(t)
    BY <2>0, <2>1, <2>2, <2>5 DEF Next, Poll, Ask, RefuseValues, Rest, vars
  <2>8. QED
    BY <2>3, <2>4, <2>6, <2>7 DEF Allowed
<1>2. QED
  BY <1>1, KeptAlways, PTL DEF Spec, TypedValuesKept

\* Whoever writes rows it has read before keeps what others have written since,
\* for any names, files, threads and requests.
THEOREM OthersAreKeptTheorem == Spec => OthersAreKept
BY ImportKeepsTheorem, TypedValuesTheorem DEF OthersAreKept
=============================================================================
