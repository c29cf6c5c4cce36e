--------------------------- MODULE FiberAlarmProofs ----------------------------
(***************************************************************************)
(* Theorems about FiberAlarm for any set of ONTs and OLTs, any number of   *)
(* request threads and any number of restarts.                             *)
(***************************************************************************)
EXTENDS FiberAlarm, FiniteSetTheorems, TLAPS

-----------------------------------------------------------------------------
(* Type correctness                                                         *)

LEMMA DecisionTypes ==
    ASSUME NEW r \in Row \cup {NoRow}
    PROVE  /\ Eval(r) \in Statuses \ {"stale"}
           /\ StatusOf(r) \in Statuses
           /\ \A prev : Speaks(r, prev) \in BOOLEAN
  BY DEF Eval, StatusOf, Speaks, Measured, Row, NoRow, AllReadings, Statuses, Severe

LEMMA DowntimeTypes ==
    ASSUME NEW open \in Severe \cup {"none"}, NEW st \in Statuses
    PROVE  /\ DowntimeAfter(open, st) \in Severe \cup {"none"}
           /\ DowntimeAfter(DowntimeAfter(open, st), st) = DowntimeAfter(open, st)
  BY DEF DowntimeAfter, Severe, Statuses

LEMMA CountType ==
    ASSUME TypeOK, NEW o \in Onts, NEW r, NEW spoken
    PROVE  Count(o, r, spoken) \in 0..2
<1>1. alerted[o] \in 0..2
  BY DEF TypeOK
<1>2. QED
  BY <1>1 DEF Count

LEMMA RefreshedType ==
    ASSUME TypeOK
    PROVE  Refreshed \in [Olts -> {"none", "ping", "synthetic"}]
  BY DEF TypeOK, Refreshed

LEMMA ParentsType ==
    ASSUME TypeOK
    PROVE  /\ WithBegun \in [Olts -> {"none", "ping", "synthetic"}]
           /\ WithoutEnded \in [Olts -> {"none", "ping", "synthetic"}]
           /\ Begun \subseteq Olts /\ Ended \subseteq Olts
           /\ Spoken \subseteq Onts
<1>1. Begun \subseteq Olts /\ Ended \subseteq Olts /\ Spoken \subseteq Onts
  BY DEF Begun, Ended, Spoken, Computed
<1>2. WithBegun \in [Olts -> {"none", "ping", "synthetic"}]
  BY DEF TypeOK, WithBegun
<1>3. WithoutEnded \in [Olts -> {"none", "ping", "synthetic"}]
  BY <1>2 DEF WithoutEnded
<1>4. QED
  BY <1>1, <1>2, <1>3

LEMMA PollMemoryType ==
    ASSUME TypeOK, NEW onts \in SUBSET Onts,
           NEW parents \in [Olts -> {"none", "ping", "synthetic"}],
           PollMemory(onts, parents),
           status' \in [Onts -> Statuses],
           downtime' \in [Onts -> Severe \cup {"none"}],
           unchecked' \subseteq Onts
    PROVE  TypeOK'
<1>1. alarm_memory' \in [Onts -> Statuses \cup {"absent"}]
  BY DecisionTypes DEF TypeOK, PollMemory
<1>2. tg_queue' \in [onts : SUBSET Onts, begun : SUBSET Olts, ended : SUBSET Olts]
  BY ParentsType DEF PollMemory
<1>3. alerted' \in [Onts -> 0..2]
  <2>1. \A o \in Onts : Count(o, rows[o], o \in onts) \in 0..2
    BY CountType
  <2>2. QED
    BY <2>1 DEF PollMemory
<1>4. open_incident' \subseteq Olts
  BY ParentsType DEF TypeOK, PollMemory
<1>5. QED
  BY <1>1, <1>2, <1>3, <1>4 DEF TypeOK, PollMemory

LEMMA IdleType ==
    /\ IdleCheck \in [pc : {"idle", "written", "loaded", "decided", "applied"},
                      ont : Onts, row : Row \cup {NoRow}, speaks : BOOLEAN]
    /\ NoRows \in [Onts -> Row \cup {NoRow}]
<1>1. (CHOOSE o \in Onts : TRUE) \in Onts
  BY OntAssumption
<1>2. QED
  BY <1>1 DEF IdleCheck, NoRows

LEMMA PollType ==
    ASSUME TypeOK, Poll
    PROVE  TypeOK'
<1>1. CASE LoadRows
  BY <1>1, RefreshedType DEF LoadRows, TypeOK, tables, history
<1>2. CASE ApplyRows
  <2>1. status' \in [Onts -> Statuses]
    BY <1>2, DecisionTypes DEF ApplyRows, TypeOK
  <2>2. downtime' \in [Onts -> Severe \cup {"none"}]
    <3> SUFFICES ASSUME NEW o \in Onts
                 PROVE  DowntimeAfter(downtime[o], StatusOf(rows[o])) \in Severe \cup {"none"}
      BY <1>2 DEF ApplyRows, TypeOK
    <3>1. rows[o] \in Row \cup {NoRow} /\ downtime[o] \in Severe \cup {"none"}
      BY DEF TypeOK
    <3>2. QED
      BY <3>1, DecisionTypes, DowntimeTypes
  <2>3. unchecked' \subseteq Onts
    <3>1. PICK refused \in Refusals : unchecked' = (unchecked \ Computed) \cup refused
      BY <1>2 DEF ApplyRows
    <3>2. refused \subseteq Onts
      BY DEF Refusals, Computed
    <3>3. QED
      BY <3>1, <3>2 DEF TypeOK
  <2>4. QED
    BY <1>2, <2>1, <2>2, <2>3, ParentsType, PollMemoryType DEF ApplyRows
<1>3. CASE RefuseRows
  <2>1. PICK first \in Computed : PollMemory(Spoken \cap {first}, WithBegun)
    BY <1>3 DEF RefuseRows
  <2>2. Spoken \cap {first} \in SUBSET Onts
    BY ParentsType
  <2>3. /\ status' \in [Onts -> Statuses]
        /\ downtime' \in [Onts -> Severe \cup {"none"}]
        /\ unchecked' \subseteq Onts
    BY <1>3 DEF RefuseRows, TypeOK
  <2>4. QED
    BY <2>1, <2>2, <2>3, ParentsType, PollMemoryType
<1>4. CASE FailCommit
  <2>1. /\ status' \in [Onts -> Statuses]
        /\ downtime' \in [Onts -> Severe \cup {"none"}]
        /\ unchecked' \subseteq Onts
    BY <1>4 DEF FailCommit, TypeOK
  <2>2. QED
    BY <1>4, <2>1, ParentsType, PollMemoryType DEF FailCommit
<1>5. CASE SendQueue
  BY <1>5, IdleType DEF SendQueue, TypeOK, tables, memory, history, Nothing
<1>6. QED
  BY <1>1, <1>2, <1>3, <1>4, <1>5 DEF Poll

LEMMA CheckType ==
    ASSUME TypeOK, NEW t \in Checkers, SingleCheck(t)
    PROVE  TypeOK'
<1> DEFINE o == check[t].ont
<1>1. /\ check[t] \in [pc : {"idle", "written", "loaded", "decided", "applied"},
                       ont : Onts, row : Row \cup {NoRow}, speaks : BOOLEAN]
      /\ o \in Onts /\ check[t].row \in Row \cup {NoRow}
      /\ check[t].speaks \in BOOLEAN
  BY DEF TypeOK
<1>2. StatusOf(check[t].row) \in Statuses
  BY <1>1, DecisionTypes
<1>3. CASE LoadRow(t)
  <2>1. row[o] \in Row \cup {NoRow}
    BY <1>1 DEF TypeOK
  <2>2. check' \in [Checkers -> [pc : {"idle", "written", "loaded", "decided", "applied"},
                                 ont : Onts, row : Row \cup {NoRow}, speaks : BOOLEAN]]
    <3>1. [check[t] EXCEPT !.pc = "loaded", !.row = row[o]]
            \in [pc : {"idle", "written", "loaded", "decided", "applied"},
                 ont : Onts, row : Row \cup {NoRow}, speaks : BOOLEAN]
      BY <1>1, <2>1
    <3>2. \/ check' = [check EXCEPT ![t] = [check[t] EXCEPT !.pc = "loaded", !.row = row[o]]]
          \/ check' = [check EXCEPT ![t] = IdleCheck]
      BY <1>3 DEF LoadRow, TypeOK
    <3>3. QED
      BY <3>1, <3>2, IdleType DEF TypeOK
  <2>3. parent' \in [Olts -> {"none", "ping", "synthetic"}]
    BY <1>3, RefreshedType DEF LoadRow, TypeOK
  <2>4. QED
    BY <1>3, <2>2, <2>3 DEF LoadRow, TypeOK, tables, poll, history
<1>4. CASE Decide(t)
  <2> DEFINE speaks == Speaks(check[t].row, alarm_memory[o])
  <2>0. speaks \in BOOLEAN
    BY <1>1, DecisionTypes
  <2> HIDE DEF speaks
  <2>3. [check[t] EXCEPT !.pc = "decided", !.speaks = speaks]
          \in [pc : {"idle", "written", "loaded", "decided", "applied"},
               ont : Onts, row : Row \cup {NoRow}, speaks : BOOLEAN]
    BY <1>1, <2>0
  <2>4. check' = [check EXCEPT ![t] = [check[t] EXCEPT !.pc = "decided", !.speaks = speaks]]
    BY <1>4 DEF Decide, speaks, TypeOK
  <2>1. check' \in [Checkers -> [pc : {"idle", "written", "loaded", "decided", "applied"},
                                 ont : Onts, row : Row \cup {NoRow}, speaks : BOOLEAN]]
    BY <2>3, <2>4 DEF TypeOK
  <2>2. QED
    BY <1>4, <2>1 DEF Decide, TypeOK, tables, memory, poll, history
<1>5. CASE ApplyCheck(t)
  <2> DEFINE spoken == check[t].speaks /\ ~Suppressed(o, parent)
  <2>1. Count(o, check[t].row, spoken) \in 0..2
    BY <1>1, CountType
  <2>2. alerted' \in [Onts -> 0..2]
    BY <1>5, <2>1 DEF ApplyCheck, TypeOK
  <2>3. downtime[o] \in Severe \cup {"none"}
    BY <1>1 DEF TypeOK
  <2>4. DowntimeAfter(downtime[o], StatusOf(check[t].row)) \in Severe \cup {"none"}
    BY <1>2, <2>3, DowntimeTypes
  <2>5. downtime' \in [Onts -> Severe \cup {"none"}]
    BY <1>5, <2>4 DEF ApplyCheck, TypeOK
  <2>6. status' \in [Onts -> Statuses]
    BY <1>5, <1>2 DEF ApplyCheck, TypeOK
  <2>7. check' \in [Checkers -> [pc : {"idle", "written", "loaded", "decided", "applied"},
                                 ont : Onts, row : Row \cup {NoRow}, speaks : BOOLEAN]]
    BY <1>1, <1>5 DEF ApplyCheck, TypeOK
  <2>8. unchecked' \subseteq Onts
    BY <1>5 DEF ApplyCheck, TypeOK
  <2>9. QED
    BY <1>5, <2>2, <2>5, <2>6, <2>7, <2>8 DEF ApplyCheck, TypeOK, memory, poll
<1>6. CASE Remember(t)
  <2>1. alarm_memory' \in [Onts -> Statuses \cup {"absent"}]
    BY <1>2, <1>6 DEF Remember, TypeOK
  <2>2. QED
    BY <1>6, <2>1, IdleType DEF Remember, TypeOK, tables, poll, history
<1>7. QED
  BY <1>3, <1>4, <1>5, <1>6 DEF SingleCheck

LEMMA WriteRowType ==
    ASSUME TypeOK, NEW t \in Checkers, NEW o \in Onts, NEW r \in Readings,
           NEW quiet \in BOOLEAN, WriteRow(t, o, r, quiet)
    PROVE  TypeOK'
<1> DEFINE new == [reading |-> r, stale |-> FALSE, quiet |-> quiet]
<1>1. new \in Row
  BY ReadingAssumption DEF Row
<1>2. row' = [row EXCEPT ![o] = new] /\ row' \in [Onts -> Row \cup {NoRow}]
  BY <1>1 DEF WriteRow, TypeOK
<1>3. row'[o] = new
  BY <1>2 DEF TypeOK
<1>4. status' \in [Onts -> Statuses]
  <2>1. Eval(row'[o]) \in Statuses
    BY <1>1, <1>3, DecisionTypes
  <2>2. QED
    BY <2>1 DEF WriteRow, TypeOK
<1>5. check' \in [Checkers -> [pc : {"idle", "written", "loaded", "decided", "applied"},
                               ont : Onts, row : Row \cup {NoRow}, speaks : BOOLEAN]]
  <2>1. [IdleCheck EXCEPT !.pc = "written", !.ont = o]
          \in [pc : {"idle", "written", "loaded", "decided", "applied"},
               ont : Onts, row : Row \cup {NoRow}, speaks : BOOLEAN]
    BY IdleType
  <2>2. QED
    BY <2>1 DEF WriteRow, TypeOK
<1>6. QED
  BY <1>2, <1>4, <1>5 DEF WriteRow, TypeOK, memory, poll

LEMMA ImportType ==
    ASSUME TypeOK, NEW o \in Onts, NEW r \in Row, Import(o, r)
    PROVE  TypeOK'
<1>1. Eval(r) \in Statuses
  BY DecisionTypes
<1>2. QED
  BY <1>1 DEF Import, TypeOK, poll

LEMMA ImportRowGives ==
    ASSUME TypeOK, ImportRow
    PROVE  \E o \in Onts, r \in Row : Import(o, r)
<1>1. PICK o \in Onts, quiet \in BOOLEAN :
         \/ \E r \in Readings :
               Import(o, [reading |-> r, stale |-> FALSE, quiet |-> quiet])
         \/ o \in Table /\ Import(o, [row[o] EXCEPT !.quiet = quiet])
  BY DEF ImportRow
<1>2. ASSUME NEW r \in Readings
      PROVE  [reading |-> r, stale |-> FALSE, quiet |-> quiet] \in Row
  BY ReadingAssumption DEF Row
<1>3. o \in Table => [row[o] EXCEPT !.quiet = quiet] \in Row
  BY DEF Table, TypeOK, Row
<1>4. QED
  BY <1>1, <1>2, <1>3

LEMMA ChangeGives ==
    ASSUME TypeOK, NEW o \in Onts,
           \/ \E r \in Readings : SnmpFresh(o, r)
           \/ Age(o) \/ ToggleQuiet(o)
    PROVE  \E r \in Row : Change(o, r)
<1>1. o \in Table => row[o] \in Row
  BY DEF Table, TypeOK
<1>2. CASE \E r \in Readings : SnmpFresh(o, r)
  <2>1. PICK r \in Readings : SnmpFresh(o, r)
    BY <1>2
  <2>2. o \in Table => [row[o] EXCEPT !.reading = r, !.stale = FALSE] \in Row
    BY <1>1, ReadingAssumption DEF Row
  <2>3. QED
    BY <2>1, <2>2 DEF SnmpFresh, Change
<1>3. CASE Age(o)
  <2>1. o \in Table => [row[o] EXCEPT !.stale = TRUE] \in Row
    BY <1>1 DEF Row
  <2>2. QED
    BY <1>3, <2>1 DEF Age, Change
<1>4. CASE ToggleQuiet(o)
  <2>1. o \in Table => [row[o] EXCEPT !.quiet = ~@] \in Row
    BY <1>1 DEF Row
  <2>2. QED
    BY <1>4, <2>1 DEF ToggleQuiet, Change
<1>5. QED
  BY <1>2, <1>3, <1>4

LEMMA TypeCorrectStep ==
    ASSUME TypeOK, [Next]_vars
    PROVE  TypeOK'
<1>1. CASE Poll
  BY <1>1, PollType
<1>2. ASSUME NEW t \in Checkers, SingleCheck(t) PROVE TypeOK'
  BY <1>2, CheckType
<1>3. ASSUME NEW t \in Checkers, NEW o \in Onts, NEW r \in Readings,
             NEW quiet \in BOOLEAN, WriteRow(t, o, r, quiet)
      PROVE  TypeOK'
  BY <1>3, WriteRowType
<1>4. CASE ImportRow
  BY <1>4, ImportRowGives, ImportType
<1>5. ASSUME NEW o \in Onts, Delete(o) PROVE TypeOK'
  BY <1>5 DEF Delete, TypeOK, poll
<1>6. ASSUME NEW o \in Onts, NEW r \in Row, Change(o, r) PROVE TypeOK'
  BY <1>6 DEF Change, TypeOK, memory, poll
<1>7. ASSUME NEW olt \in Olts, PingDown(olt) PROVE TypeOK'
  BY <1>7 DEF PingDown, TypeOK, tables, poll, history
<1>8. ASSUME NEW olt \in Olts, PingUp(olt) PROVE TypeOK'
  BY <1>8 DEF PingUp, TypeOK, tables, poll, history
<1>9. CASE Restart
  <2>1. alarm_memory' \in [Onts -> Statuses \cup {"absent"}]
    BY <1>9 DEF Restart, RebuiltMemory, TypeOK
  <2>2. restarts' \in 0..MaxRestarts
    BY <1>9, SwitchAssumption DEF Restart, TypeOK
  <2>3. QED
    BY <1>9, <2>1, <2>2, IdleType DEF Restart, TypeOK, tables, Nothing
<1>10. CASE UNCHANGED vars
  BY <1>10 DEF vars, tables, memory, poll, history, TypeOK
<1>11. QED
  BY <1>1, <1>2, <1>3, <1>4, <1>5, <1>6, <1>7, <1>8, <1>9, <1>10, ChangeGives
  DEF Next, Handlers, Environment

LEMMA TypeCorrectInit == Init => TypeOK
  BY IdleType, SwitchAssumption DEF Init, TypeOK, Nothing, Statuses, Severe

\* Type correctness of the alarm engine for every instance: whatever SQLite
\* refuses, a record of an outage never carries a status that is no outage.
THEOREM FiberTypeCorrect == Spec => []TypeOK
<1>1. Init => TypeOK
  BY TypeCorrectInit
<1>2. TypeOK /\ [Next]_vars => TypeOK'
  BY TypeCorrectStep
<1>3. QED
  BY <1>1, <1>2, PTL DEF Spec

-----------------------------------------------------------------------------
(* Outage records and the column status                                     *)

LEMMA FollowsStep ==
    ASSUME TypeOK, DowntimeFollowsStatus, [Next]_vars
    PROVE  DowntimeFollowsStatus'
<1> SUFFICES ASSUME NEW o \in Onts, row'[o] # NoRow, o \notin unchecked'
             PROVE  downtime'[o] = DowntimeAfter(downtime'[o], status'[o])
  BY DEF DowntimeFollowsStatus, Table
<1>1. ASSUME row'[o] = row[o], status'[o] = status[o], downtime'[o] = downtime[o],
             unchecked' = unchecked
      PROVE  downtime'[o] = DowntimeAfter(downtime'[o], status'[o])
  BY <1>1 DEF DowntimeFollowsStatus, Table
<1>2. CASE LoadRows \/ RefuseRows \/ FailCommit \/ SendQueue
  <2>1. row' = row /\ status' = status /\ downtime' = downtime /\ unchecked' = unchecked
    BY <1>2 DEF LoadRows, RefuseRows, FailCommit, SendQueue, PollMemory, tables, history
  <2>2. QED
    BY <2>1, <1>1
<1>3. CASE ApplyRows
  <2>1. row' = row
    BY <1>3 DEF ApplyRows, PollMemory
  <2>2. CASE o \in Computed
    <3>1. status'[o] = StatusOf(rows[o])
      BY <1>3, <2>1, <2>2 DEF ApplyRows, Table
    <3>2. downtime'[o] = DowntimeAfter(downtime[o], StatusOf(rows[o]))
      BY <1>3, <2>2 DEF ApplyRows
    <3>3. downtime[o] \in Severe \cup {"none"} /\ StatusOf(rows[o]) \in Statuses
      BY DecisionTypes DEF TypeOK
    <3>4. QED
      BY <3>1, <3>2, <3>3, DowntimeTypes
  <2>3. CASE o \notin Computed
    <3>1. status'[o] = status[o] /\ downtime'[o] = downtime[o] /\ o \notin unchecked
      BY <1>3, <2>3 DEF ApplyRows
    <3>2. QED
      BY <2>1, <3>1 DEF DowntimeFollowsStatus, Table
  <2>4. QED
    BY <2>2, <2>3
<1>4. ASSUME NEW t \in Checkers, SingleCheck(t)
      PROVE  downtime'[o] = DowntimeAfter(downtime'[o], status'[o])
  <2>1. CASE LoadRow(t) \/ Decide(t) \/ Remember(t)
    <3>1. row' = row /\ status' = status /\ downtime' = downtime /\ unchecked' = unchecked
      BY <2>1 DEF LoadRow, Decide, Remember, tables, history
    <3>2. QED
      BY <3>1, <1>1
  <2>2. CASE ApplyCheck(t)
    <3> DEFINE st == StatusOf(check[t].row)
    <3>1. row' = row
      BY <2>2 DEF ApplyCheck
    <3>2. CASE status' = status /\ downtime' = downtime /\ unchecked' = unchecked
      BY <3>1, <3>2, <1>1
    <3>3. CASE /\ status' = [status EXCEPT ![check[t].ont] =
                                IF check[t].ont \in Table THEN st ELSE @]
               /\ downtime' = [downtime EXCEPT ![check[t].ont] = DowntimeAfter(@, st)]
               /\ unchecked' = unchecked \ {check[t].ont}
      <4>1. CASE o = check[t].ont
        <5>1. status'[o] = st /\ downtime'[o] = DowntimeAfter(downtime[o], st)
          BY <3>1, <3>3, <4>1 DEF TypeOK, Table
        <5>2. downtime[o] \in Severe \cup {"none"} /\ st \in Statuses
          BY DecisionTypes DEF TypeOK
        <5>3. QED
          BY <5>1, <5>2, DowntimeTypes
      <4>2. CASE o # check[t].ont
        <5>1. status'[o] = status[o] /\ downtime'[o] = downtime[o] /\ o \notin unchecked
          BY <3>3, <4>2 DEF TypeOK
        <5>2. QED
          BY <3>1, <5>1 DEF DowntimeFollowsStatus, Table
      <4>3. QED
        BY <4>1, <4>2
    <3>4. QED
      BY <2>2, <3>2, <3>3 DEF ApplyCheck
  <2>3. QED
    BY <1>4, <2>1, <2>2 DEF SingleCheck
<1>5. ASSUME NEW p \in Onts, o # p,
             status'[o] = status[o], row'[o] = row[o], downtime'[o] = downtime[o],
             unchecked' = unchecked \cup {p} \/ unchecked' = unchecked \ {p}
      PROVE  downtime'[o] = DowntimeAfter(downtime'[o], status'[o])
  BY <1>5 DEF DowntimeFollowsStatus, Table
<1>6. ASSUME NEW t \in Checkers, NEW p \in Onts, NEW r \in Readings,
             NEW quiet \in BOOLEAN, WriteRow(t, p, r, quiet)
      PROVE  downtime'[o] = DowntimeAfter(downtime'[o], status'[o])
  <2>1. o # p
    BY <1>6 DEF WriteRow
  <2>2. QED
    BY <1>5, <1>6, <2>1 DEF WriteRow, TypeOK
<1>7. ASSUME NEW p \in Onts, NEW r \in Row, Import(p, r)
      PROVE  downtime'[o] = DowntimeAfter(downtime'[o], status'[o])
  <2>1. CASE status' = status /\ row' = row /\ unchecked' = unchecked
    BY <1>1, <1>7, <2>1 DEF Import
  <2>2. CASE unchecked' = unchecked \cup {p} /\ row' = [row EXCEPT ![p] = r]
             /\ status' = [status EXCEPT ![p] = Eval(r)]
    <3>1. o # p
      BY <2>2
    <3>2. QED
      BY <1>5, <1>7, <2>2, <3>1 DEF Import, TypeOK
  <2>3. QED
    BY <1>7, <2>1, <2>2 DEF Import
<1>8. ASSUME NEW p \in Onts, Delete(p)
      PROVE  downtime'[o] = DowntimeAfter(downtime'[o], status'[o])
  <2>1. o # p
    BY <1>8 DEF Delete, TypeOK
  <2>2. QED
    BY <1>5, <1>8, <2>1 DEF Delete, TypeOK
<1>9. ASSUME NEW p \in Onts, NEW r \in Row, Change(p, r)
      PROVE  downtime'[o] = DowntimeAfter(downtime'[o], status'[o])
  <2>1. o \in Table
    BY <1>9 DEF Change, Table, TypeOK
  <2>2. QED
    BY <1>9, <2>1 DEF Change, DowntimeFollowsStatus
<1>10. CASE (\E olt \in Olts : PingDown(olt) \/ PingUp(olt)) \/ Restart \/ UNCHANGED vars
  <2>1. row' = row /\ status' = status /\ downtime' = downtime /\ unchecked' = unchecked
    BY <1>10 DEF PingDown, PingUp, Restart, vars, tables, history
  <2>2. QED
    BY <2>1, <1>1
<1>11. QED
  BY <1>2, <1>3, <1>4, <1>6, <1>7, <1>8, <1>9, <1>10, ImportRowGives, ChangeGives
  DEF Next, Poll, Handlers, Environment

\* Wherever the last write of an ONT's status was a committed evaluation, the
\* outage record agrees with it: for any number of ONTs and request threads,
\* whatever SQLite refuses and however often the process restarts.
THEOREM DowntimeFollowsTheorem == Spec => []DowntimeFollowsStatus
<1>1. Init => DowntimeFollowsStatus
  BY DEF Init, DowntimeFollowsStatus, Table, NoRows
<1>2. DowntimeFollowsStatus /\ TypeOK /\ [Next]_vars => DowntimeFollowsStatus'
  BY FollowsStep
<1>3. QED
  BY <1>1, <1>2, FiberTypeCorrect, PTL DEF Spec

-----------------------------------------------------------------------------
(* Mass incidents                                                           *)

LEMMA BegunHasMembers ==
    ASSUME NEW olt \in Begun
    PROVE  SevereOf(olt) # {}
<1> SUFFICES ASSUME SevereOf(olt) = {} PROVE FALSE
  OBVIOUS
<1>1. {o \in SevereOf(olt) : ~rows[o].quiet} = {}
  OBVIOUS
<1>2. Cardinality({o \in SevereOf(olt) : ~rows[o].quiet}) = 0
  BY <1>1, FS_EmptySet
<1>3. QED
  BY <1>2, MinAssumption DEF Begun

\* A synthetic parent stands for an incident that was announced and not yet
\* announced as over.
SyntheticIsOpen ==
    \A olt \in Olts : parent[olt] = "synthetic" <=> olt \in open_incident

LEMMA RefreshedKeepsSynthetic ==
    \A olt \in Olts : Refreshed[olt] = "synthetic" <=> parent[olt] = "synthetic"
  BY DEF Refreshed

\* Where SQLite accepts every write the entry goes with the message.
LEMMA SyntheticStep ==
    ASSUME TypeOK, SyntheticIsOpen, Faults = FALSE, [Next]_vars
    PROVE  SyntheticIsOpen'
<1> SUFFICES ASSUME NEW olt \in Olts
             PROVE  parent'[olt] = "synthetic" <=> olt \in open_incident'
  BY DEF SyntheticIsOpen
<1>0. parent[olt] = "synthetic" <=> olt \in open_incident
  BY DEF SyntheticIsOpen
<1>1. CASE LoadRows
  BY <1>0, <1>1, RefreshedKeepsSynthetic DEF LoadRows, history
<1>2. CASE ApplyRows
  BY <1>0, <1>2 DEF ApplyRows, PollMemory, WithoutEnded, WithBegun, Ended
<1>3. ASSUME NEW t \in Checkers, SingleCheck(t)
      PROVE  parent'[olt] = "synthetic" <=> olt \in open_incident'
  BY <1>0, <1>3, RefreshedKeepsSynthetic
  DEF SingleCheck, LoadRow, Decide, ApplyCheck, Remember, memory, history
<1>4. CASE Restart
  BY <1>4 DEF Restart
<1>5. ASSUME NEW p \in Olts, PingDown(p) \/ PingUp(p)
      PROVE  parent'[olt] = "synthetic" <=> olt \in open_incident'
  BY <1>0, <1>5 DEF PingDown, PingUp, TypeOK, history
<1>6. CASE UNCHANGED <<parent, open_incident>>
  BY <1>0, <1>6
<1>7. ASSUME NEW o \in Onts, NEW r \in Row, Import(o, r) \/ Change(o, r) \/ Delete(o)
      PROVE  UNCHANGED <<parent, open_incident>>
  BY <1>7 DEF Import, Change, Delete, memory
<1>8. ASSUME NEW o \in Onts, Delete(o)
      PROVE  UNCHANGED <<parent, open_incident>>
  BY <1>8 DEF Delete
<1>9. ASSUME NEW t \in Checkers, NEW o \in Onts, NEW r \in Readings,
             NEW quiet \in BOOLEAN, WriteRow(t, o, r, quiet)
      PROVE  UNCHANGED <<parent, open_incident>>
  BY <1>9 DEF WriteRow, memory
<1>10. CASE SendQueue
  BY <1>6, <1>10 DEF SendQueue, memory, history
<1>11. CASE UNCHANGED vars
  BY <1>6, <1>11 DEF vars, memory, history
<1>12. ~RefuseRows /\ ~FailCommit
  BY DEF RefuseRows, FailCommit
<1>13. QED
  BY <1>1, <1>2, <1>3, <1>4, <1>5, <1>6, <1>7, <1>8, <1>9, <1>10, <1>11, <1>12,
     ImportRowGives, ChangeGives
  DEF Next, Poll, Handlers, Environment

LEMMA AlternatesStep ==
    ASSUME TypeOK, SyntheticIsOpen, Faults = FALSE, [Next]_vars
    PROVE  /\ tg_queue.begun = {} => tg_queue'.begun \cap open_incident = {}
           /\ tg_queue.ended = {} => tg_queue'.ended \subseteq open_incident
<1>1. CASE ApplyRows
  <2>1. tg_queue'.begun = Begun /\ tg_queue'.ended = Ended
    BY <1>1 DEF ApplyRows, PollMemory
  <2>2. Begun \cap open_incident = {}
    BY DEF Begun, SyntheticIsOpen
  <2>3. Ended \cap Begun = {}
    BY BegunHasMembers DEF Ended
  <2>4. Ended \subseteq open_incident
    BY <2>3 DEF Ended, WithBegun, SyntheticIsOpen
  <2>5. QED
    BY <2>1, <2>2, <2>4
<1>2. CASE tg_queue' = tg_queue \/ tg_queue' = Nothing
  BY <1>2 DEF Nothing
<1>3. ASSUME NEW o \in Onts, NEW r \in Row, Import(o, r) \/ Change(o, r)
      PROVE  tg_queue' = tg_queue
  BY <1>3 DEF Import, Change, poll
<1>4. ASSUME NEW t \in Checkers, SingleCheck(t) PROVE tg_queue' = tg_queue
  BY <1>4 DEF SingleCheck, LoadRow, Decide, ApplyCheck, Remember, poll
<1>5. ASSUME NEW t \in Checkers, NEW o \in Onts, NEW r \in Readings,
             NEW quiet \in BOOLEAN, WriteRow(t, o, r, quiet)
      PROVE  tg_queue' = tg_queue
  BY <1>5 DEF WriteRow, poll
<1>6. ASSUME NEW o \in Onts, Delete(o) PROVE tg_queue' = tg_queue
  BY <1>6 DEF Delete, poll
<1>7. ASSUME NEW olt \in Olts, PingDown(olt) \/ PingUp(olt) PROVE tg_queue' = tg_queue
  BY <1>7 DEF PingDown, PingUp, poll
<1>8. CASE LoadRows \/ SendQueue \/ Restart \/ UNCHANGED vars
  BY <1>2, <1>8 DEF LoadRows, SendQueue, Restart, vars, poll
<1>9. ~RefuseRows /\ ~FailCommit
  BY DEF RefuseRows, FailCommit
<1>10. QED
  BY <1>1, <1>2, <1>3, <1>4, <1>5, <1>6, <1>7, <1>8, <1>9, ImportRowGives, ChangeGives
  DEF Next, Poll, Handlers, Environment

\* Where SQLite accepts every write, the two messages of a mass incident
\* alternate, for any number of ONTs, OLTs, threads and restarts.
THEOREM IncidentTheorem ==
    ASSUME Faults = FALSE
    PROVE  Spec => IncidentAlternates
<1>1. Init => SyntheticIsOpen
  BY DEF Init, SyntheticIsOpen
<1>2. SyntheticIsOpen /\ TypeOK /\ [Next]_vars => SyntheticIsOpen'
  BY SyntheticStep
<1>3. SyntheticIsOpen /\ TypeOK /\ [Next]_vars =>
        [/\ tg_queue.begun = {} => tg_queue'.begun \cap open_incident = {}
         /\ tg_queue.ended = {} => tg_queue'.ended \subseteq open_incident]_vars
  BY AlternatesStep
<1>4. QED
  BY <1>1, <1>2, <1>3, FiberTypeCorrect, PTL DEF Spec, IncidentAlternates

LEMMA BesideStep ==
    ASSUME NEW onts \in SUBSET Spoken,
           tg_queue' = [onts |-> onts, begun |-> Begun, ended |-> Ended]
    PROVE  NoMemberBesideIncident'
<1> SUFFICES ASSUME NEW o \in Spoken, OltOf[o] \in Begun \cup Ended
             PROVE  FALSE
  BY DEF NoMemberBesideIncident
<1>1. OltOf[o] \in Olts /\ WithBegun[OltOf[o]] = "synthetic"
  BY DEF Begun, Ended, WithBegun
<1>2. QED
  BY <1>1 DEF Spoken, Suppressed

\* A poll that announces the begin or the end of an incident announces none of
\* its members, for any instance and whatever SQLite refuses.
THEOREM NoMemberTheorem == Spec => []NoMemberBesideIncident
<1>1. Init => NoMemberBesideIncident
  BY DEF Init, NoMemberBesideIncident, Nothing
<1>2. ASSUME TypeOK, NoMemberBesideIncident, [Next]_vars
      PROVE  NoMemberBesideIncident'
  <2>1. CASE ApplyRows \/ FailCommit
    BY <2>1, BesideStep DEF ApplyRows, FailCommit, PollMemory
  <2>2. CASE RefuseRows
    <3>1. PICK first \in Computed : PollMemory(Spoken \cap {first}, WithBegun)
      BY <2>2 DEF RefuseRows
    <3>2. QED
      BY <3>1, BesideStep DEF PollMemory
  <2>3. CASE tg_queue' = tg_queue \/ tg_queue' = Nothing
    BY <1>2, <2>3 DEF NoMemberBesideIncident, Nothing
  <2>4. ASSUME NEW o \in Onts, NEW r \in Row, Import(o, r) \/ Change(o, r)
        PROVE  tg_queue' = tg_queue
    BY <2>4 DEF Import, Change, poll
  <2>5. ASSUME NEW t \in Checkers, SingleCheck(t) PROVE tg_queue' = tg_queue
    BY <2>5 DEF SingleCheck, LoadRow, Decide, ApplyCheck, Remember, poll
  <2>6. ASSUME NEW t \in Checkers, NEW o \in Onts, NEW r \in Readings,
               NEW quiet \in BOOLEAN, WriteRow(t, o, r, quiet)
        PROVE  tg_queue' = tg_queue
    BY <2>6 DEF WriteRow, poll
  <2>7. ASSUME NEW o \in Onts, Delete(o) PROVE tg_queue' = tg_queue
    BY <2>7 DEF Delete, poll
  <2>8. ASSUME NEW olt \in Olts, PingDown(olt) \/ PingUp(olt)
        PROVE  tg_queue' = tg_queue
    BY <2>8 DEF PingDown, PingUp, poll
  <2>9. CASE LoadRows \/ SendQueue \/ Restart \/ UNCHANGED vars
    BY <2>3, <2>9 DEF LoadRows, SendQueue, Restart, vars, poll
  <2>10. QED
    BY <1>2, <2>1, <2>2, <2>3, <2>4, <2>5, <2>6, <2>7, <2>8, <2>9,
       ImportRowGives, ChangeGives
    DEF Next, Poll, Handlers, Environment
<1>3. QED
  BY <1>1, <1>2, FiberTypeCorrect, PTL DEF Spec

-----------------------------------------------------------------------------
(* One alarm for a row                                                      *)

\* What was alarmed for the row as it is now is what memory and column hold,
\* and a poll that is about to apply its copy holds that very row.
AlertedIsHeld ==
    \A o \in Onts : alerted[o] # 0 =>
        /\ alerted[o] = 1 /\ o \in Table
        /\ alarm_memory[o] = StatusOf(row[o]) /\ status[o] = StatusOf(row[o])
        /\ pc = "loaded" => rows[o] = row[o]

LEMMA HeldIsSilent ==
    ASSUME NEW r, NEW prev, prev = StatusOf(r) PROVE ~Speaks(r, prev)
  BY DEF Speaks, Severe

\* Of one ONT whose alarm is forgotten, while the others stay.
LEMMA ForgottenKeeps ==
    ASSUME TypeOK, AlertedIsHeld, NEW o \in Onts,
           alerted' = [alerted EXCEPT ![o] = 0],
           \A p \in Onts : p # o => /\ row'[p] = row[p] /\ status'[p] = status[p]
                                   /\ alarm_memory'[p] = alarm_memory[p],
           UNCHANGED <<pc, rows>>
    PROVE  AlertedIsHeld'
<1>1. alerted'[o] = 0 /\ \A p \in Onts : p # o => alerted'[p] = alerted[p]
  BY DEF TypeOK
<1>2. \A p \in Onts : p # o => (p \in Table <=> p \in Table')
  BY DEF Table
<1>3. QED
  BY <1>1, <1>2 DEF AlertedIsHeld

LEMMA ApplyRowsHolds ==
    ASSUME TypeOK, AlertedIsHeld, ApplyRows
    PROVE  AlertedIsHeld'
<1>1. /\ pc = "loaded" /\ pc' = "applied" /\ row' = row
      /\ alarm_memory' = [o \in Onts |-> IF o \in Computed THEN StatusOf(rows[o]) ELSE alarm_memory[o]]
      /\ status' = [o \in Onts |-> IF o \in Computed /\ o \in Table THEN StatusOf(rows[o]) ELSE status[o]]
      /\ alerted' = [o \in Onts |-> Count(o, rows[o], o \in Spoken)]
  BY DEF ApplyRows, PollMemory
<1>2. Table' = Table
  BY <1>1 DEF Table
<1>3. ASSUME NEW o \in Onts, alerted'[o] # 0
      PROVE  /\ alerted'[o] = 1 /\ o \in Table
             /\ alarm_memory'[o] = StatusOf(row[o]) /\ status'[o] = StatusOf(row[o])
  <2>1. CASE alerted[o] # 0
    <3>1. rows[o] = row[o] /\ alarm_memory[o] = StatusOf(rows[o]) /\ status[o] = StatusOf(rows[o])
          /\ alerted[o] = 1 /\ o \in Table
      BY <1>1, <2>1 DEF AlertedIsHeld
    <3>2. o \notin Spoken
      BY <3>1, HeldIsSilent DEF Spoken
    <3>3. alerted'[o] = alerted[o]
      BY <1>1, <3>2 DEF Count
    <3>4. QED
      BY <1>1, <3>1, <3>3
  <2>2. CASE alerted[o] = 0
    <3>1. o \in Spoken /\ rows[o] = row[o] /\ alerted'[o] = 1
      BY <1>1, <1>3, <2>2 DEF Count
    <3>2. o \in Computed
      BY <3>1 DEF Spoken
    <3>3. o \in Table
      BY <3>1, <3>2 DEF Computed, Measured, Table, NoRow
    <3>4. QED
      BY <1>1, <3>1, <3>2, <3>3
  <2>3. QED
    BY <2>1, <2>2
<1>4. QED
  BY <1>1, <1>2, <1>3 DEF AlertedIsHeld

\* Where SQLite accepts every write and no request checks an ONT beside the
\* poll, a row that no one changes is alarmed once at most, for any number of
\* ONTs, OLTs, polls and restarts (nms/fiber_poll.py).
THEOREM AlertedOnceTheorem ==
    ASSUME Faults = FALSE, Checkers = {}
    PROVE  Spec => []AlertedOncePerRow
<1>1. Init => AlertedIsHeld
  BY DEF Init, AlertedIsHeld
<1>2. ASSUME TypeOK, AlertedIsHeld, [Next]_vars
      PROVE  AlertedIsHeld'
  <2>1. CASE ApplyRows
    BY <1>2, <2>1, ApplyRowsHolds
  <2>2. CASE LoadRows
    BY <1>2, <2>2 DEF LoadRows, AlertedIsHeld, tables, history, Table
  <2>3. CASE SendQueue
    BY <1>2, <2>3 DEF SendQueue, AlertedIsHeld, tables, memory, history, Table
  <2>4. CASE Restart
    BY <1>2, <2>4 DEF Restart, AlertedIsHeld, RebuiltMemory, tables, Table
  <2>5. ASSUME NEW o \in Onts, NEW r \in Row, Import(o, r)
        PROVE  AlertedIsHeld'
    <3>1. /\ alerted' = [alerted EXCEPT ![o] = 0]
          /\ row' = [row EXCEPT ![o] = r] /\ status' = [status EXCEPT ![o] = Eval(r)]
          /\ alarm_memory' = [alarm_memory EXCEPT ![o] = Eval(r)]
          /\ UNCHANGED <<pc, rows>>
      BY <2>5 DEF Import, poll
    <3>2. QED
      BY <1>2, <3>1, ForgottenKeeps DEF TypeOK
  <2>6. ASSUME NEW o \in Onts, NEW r \in Row, Change(o, r)
        PROVE  AlertedIsHeld'
    <3>1. /\ alerted' = [alerted EXCEPT ![o] = 0]
          /\ row' = [row EXCEPT ![o] = r]
          /\ UNCHANGED <<status, alarm_memory, pc, rows>>
      BY <2>6 DEF Change, memory, poll
    <3>2. QED
      BY <1>2, <3>1, ForgottenKeeps DEF TypeOK
  <2>7. ASSUME NEW o \in Onts, Delete(o)
        PROVE  AlertedIsHeld'
    <3>1. /\ alerted' = [alerted EXCEPT ![o] = 0]
          /\ row' = [row EXCEPT ![o] = NoRow]
          /\ alarm_memory' = [alarm_memory EXCEPT ![o] = "absent"]
          /\ UNCHANGED <<status, pc, rows>>
      BY <2>7 DEF Delete, poll
    <3>2. QED
      BY <1>2, <3>1, ForgottenKeeps DEF TypeOK
  <2>8. ASSUME NEW olt \in Olts, PingDown(olt) \/ PingUp(olt)
        PROVE  AlertedIsHeld'
    BY <1>2, <2>8 DEF PingDown, PingUp, AlertedIsHeld, tables, poll, history, Table
  <2>9. CASE UNCHANGED vars
    BY <1>2, <2>9 DEF vars, AlertedIsHeld, tables, memory, poll, history, Table
  <2>10. ~RefuseRows /\ ~FailCommit
    BY DEF RefuseRows, FailCommit
  <2>11. QED
    BY <1>2, <2>1, <2>2, <2>3, <2>4, <2>5, <2>6, <2>7, <2>8, <2>9, <2>10,
       ImportRowGives, ChangeGives
    DEF Next, Poll, Handlers, Environment
<1>3. AlertedIsHeld /\ TypeOK => AlertedOncePerRow
  BY DEF AlertedIsHeld, AlertedOncePerRow, TypeOK
<1>4. QED
  BY <1>1, <1>2, <1>3, FiberTypeCorrect, PTL DEF Spec

\* While SQLite accepts the writes, an incident stands for its members, for any
\* ONTs, OLTs and request threads (nms/fiber_poll.py:1010-1147).
THEOREM IncidentsTheorem ==
    ASSUME Faults = FALSE
    PROVE  Spec => IncidentsStand
BY IncidentTheorem, NoMemberTheorem DEF IncidentsStand
=============================================================================
