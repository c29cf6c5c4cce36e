----------------------------- MODULE FiberAlarm ------------------------------
(***************************************************************************)
(* The alarm engine of the optical network terminals (ONTs),               *)
(* nms/fiber_poll.py, with the handlers of nms/fiber_routes.py that share  *)
(* its state. The poll job loads every row without a lock and applies its  *)
(* decisions later under db_lock; a request that creates or changes an ONT *)
(* commits its row without the lock and then evaluates that ONT in the     *)
(* request's thread, reading the alarm memory before it takes the lock and *)
(* writing it after it has released the lock. An OLT with many bad ONTs    *)
(* becomes a parent that suppresses the messages of its ONTs. A row's Rx   *)
(* and Tx are abstracted to what fiber_eval makes of them.                 *)
(***************************************************************************)
EXTENDS Integers, FiniteSets

CONSTANTS
    Onts,         \* ids of fiber_onts; AUTOINCREMENT never reuses one
    Olts,         \* keys of the parent map
    OltOf,        \* the OLT of an ONT; outside Olts when it has no OLT name
    ParentMin,    \* fiber_parent_min
    Readings,     \* the measurements that occur
    Polled,       \* ONTs whose source is snmp: only they go stale
    Mutable,      \* ONTs that may be muted or have a maintenance window
    Checkers,     \* request threads that may run _fiber_single_check
    Faults,       \* may SQLite refuse a statement or a commit as locked?
    MaxRestarts   \* bound on the number of restarts of the process

AllReadings == {"nodata", "unknown", "normal", "warning", "critical", "overload"}
Severe      == {"critical", "overload"}
Statuses    == {"unknown", "normal", "warning", "critical", "overload", "stale"}

ASSUME OntAssumption == IsFiniteSet(Onts) /\ Onts # {}
ASSUME MinAssumption == ParentMin \in Nat /\ ParentMin >= 2
ASSUME ReadingAssumption == Readings \subseteq AllReadings
ASSUME KindAssumption == Polled \subseteq Onts /\ Mutable \subseteq Onts
ASSUME SwitchAssumption == Faults \in BOOLEAN /\ MaxRestarts \in Nat

VARIABLES
    row,           \* fiber_onts: measurement, last_seen too old, muted or in
                   \* maintenance; NoRow before creation and after deletion
    status,        \* its column status
    deleted,       \* ids whose row was deleted
    downtime,      \* status of the unresolved row of fiber_downtime
    alarm_memory,  \* fiber_alarm_memory
    parent,        \* fiber_parent_down: the kind of the OLT's entry
    ping_down,     \* OLTs whose address check_network holds to be down
    pc,            \* phase of poll_fiber_monitor
    rows,          \* its copy of the table
    tg_queue,      \* its messages: of ONTs, of incidents begun and ended
    check,         \* local state of the threads in _fiber_single_check
    alerted,       \* history: alarms queued for the row as it is now
    unchecked,     \* history: ONTs whose status was last written without
                   \* their outage record
    open_incident, \* history: OLTs whose incident was announced
    restarts       \* history: number of restarts

tables  == <<row, status, deleted, downtime>>
memory  == <<alarm_memory, parent, ping_down>>
poll    == <<pc, rows, tg_queue>>
history == <<alerted, unchecked, open_incident>>
vars    == <<tables, memory, poll, check, history, restarts>>

Row   == [reading : AllReadings, stale : BOOLEAN, quiet : BOOLEAN]
NoRow == [reading |-> "absent", stale |-> FALSE, quiet |-> FALSE]

Nothing   == [onts |-> {}, begun |-> {}, ended |-> {}]
IdleCheck == [pc |-> "idle", ont |-> CHOOSE o \in Onts : TRUE,
              row |-> NoRow, speaks |-> FALSE]
NoRows    == [o \in Onts |-> NoRow]

TypeOK ==
    /\ row \in [Onts -> Row \cup {NoRow}]
    /\ status \in [Onts -> Statuses]
    /\ deleted \subseteq Onts
    /\ downtime \in [Onts -> Severe \cup {"none"}]
    /\ alarm_memory \in [Onts -> Statuses \cup {"absent"}]
    /\ parent \in [Olts -> {"none", "ping", "synthetic"}]
    /\ ping_down \subseteq Olts
    /\ pc \in {"idle", "loaded", "applied"}
    /\ rows \in [Onts -> Row \cup {NoRow}]
    /\ tg_queue \in [onts : SUBSET Onts, begun : SUBSET Olts, ended : SUBSET Olts]
    /\ check \in [Checkers -> [pc : {"idle", "written", "loaded", "decided", "applied"},
                               ont : Onts, row : Row \cup {NoRow},
                               speaks : BOOLEAN]]
    /\ alerted \in [Onts -> 0..2]
    /\ unchecked \subseteq Onts
    /\ open_incident \subseteq Olts
    /\ restarts \in 0..MaxRestarts

Init ==
    /\ row = NoRows
    /\ status = [o \in Onts |-> "unknown"]
    /\ deleted = {}
    /\ downtime = [o \in Onts |-> "none"]
    /\ alarm_memory = [o \in Onts |-> "absent"]
    /\ parent = [olt \in Olts |-> "none"]
    /\ ping_down = {}
    /\ pc = "idle" /\ rows = NoRows /\ tg_queue = Nothing
    /\ check = [t \in Checkers |-> IdleCheck]
    /\ alerted = [o \in Onts |-> 0]
    /\ unchecked = {} /\ open_incident = {}
    /\ restarts = 0

Table       == {o \in Onts : row[o] # NoRow}
Measured(r) == r.reading \notin {"nodata", "absent"}

-----------------------------------------------------------------------------
(* _fiber_decide                                                            *)

Eval(r) == IF Measured(r) THEN r.reading ELSE "unknown"

\* A severe measurement is reported however old it is.
StatusOf(r) ==
    IF r.stale /\ Eval(r) \in {"normal", "warning", "unknown"} THEN "stale"
                                                               ELSE Eval(r)

\* Is a message due, given what the alarm memory held?  The memory itself
\* always becomes the status, also when nothing is sent.
Speaks(r, prev) ==
    /\ ~r.quiet
    /\ \/ StatusOf(r) \in Severe \cup {"warning", "stale"} /\ prev # StatusOf(r)
       \/ StatusOf(r) = "normal" /\ prev \notin {"absent", "normal"}

\* Mutant: a measurement without Rx does not close the record.
DowntimeKeptWhenUnknown(open, st) ==
    IF st \in Severe THEN st
    ELSE IF st \in {"stale", "unknown"} THEN open ELSE "none"

\* _fiber_downtime_transition: the unresolved row, given the new status.
DowntimeAfter(open, st) ==
    IF st \in Severe THEN st ELSE IF st = "stale" THEN open ELSE "none"

\* An alarm counts for the row as it is now; one for an older copy does not.
Count(o, r, spoken) ==
    IF spoken /\ r = row[o] /\ StatusOf(r) # "normal" /\ alerted[o] < 2
    THEN alerted[o] + 1 ELSE alerted[o]

Suppressed(o, parents) == OltOf[o] \in Olts /\ parents[OltOf[o]] # "none"

\* refresh_fiber_parent_map; HostMonitor models the race inside it.
Refreshed ==
    [olt \in Olts |->
        IF parent[olt] = "synthetic" THEN "synthetic"
        ELSE IF olt \in ping_down THEN "ping" ELSE "none"]

-----------------------------------------------------------------------------
(* poll_fiber_monitor                                                       *)

LoadRows ==
    /\ pc = "idle"
    /\ Table # {}
    /\ pc' = "loaded"
    /\ rows' = row
    /\ parent' = Refreshed
    /\ UNCHANGED <<tables, alarm_memory, ping_down, tg_queue, check, history,
                   restarts>>

\* Pass 1: rows without a measurement are skipped.
Computed == {o \in Onts : Measured(rows[o])}

SevereOf(olt) == {o \in Computed : OltOf[o] = olt /\ StatusOf(rows[o]) \in Severe}

\* Pass 1.5: an OLT without an entry becomes a parent when enough of its ONTs
\* that are neither muted nor in maintenance are bad; a synthetic parent ends
\* with its last bad ONT, muted ones included.
Begun == {olt \in Olts :
            /\ parent[olt] = "none"
            /\ Cardinality({o \in SevereOf(olt) : ~rows[o].quiet}) >= ParentMin}
WithBegun ==
    [olt \in Olts |-> IF olt \in Begun THEN "synthetic" ELSE parent[olt]]

\* Mutant: an incident ends when every ONT of the OLT is normal.
EndedWhenNormal ==
    {olt \in Olts : /\ WithBegun[olt] = "synthetic"
                    /\ \A o \in Computed :
                          OltOf[o] = olt => StatusOf(rows[o]) = "normal"}

Ended == {olt \in Olts : WithBegun[olt] = "synthetic" /\ SevereOf(olt) = {}}

\* Mutant: the messages are judged by the parents of before pass 1.5.
SpokenBeforeIncident ==
    {o \in Computed : Speaks(rows[o], alarm_memory[o]) /\ ~Suppressed(o, parent)}

\* Pass 2: the ONTs whose own message is queued.
Spoken ==
    {o \in Computed : Speaks(rows[o], alarm_memory[o]) /\ ~Suppressed(o, WithBegun)}

\* Mutant: the memory keeps only what was announced.
PollMemoryOfSpoken(onts, parents) ==
    /\ pc = "loaded"
    /\ pc' = "applied"
    /\ alarm_memory' = [o \in Onts |-> IF o \in onts THEN StatusOf(rows[o])
                                                     ELSE alarm_memory[o]]
    /\ parent' = parents
    /\ tg_queue' = [onts |-> onts, begun |-> Begun, ended |-> Ended]
    /\ open_incident' = (open_incident \cup Begun) \ Ended
    /\ alerted' = [o \in Onts |-> Count(o, rows[o], o \in onts)]
    /\ UNCHANGED <<row, deleted, ping_down, rows, check, restarts>>

\* What the block under db_lock does to memory and queue; neither is undone by
\* a rollback.
PollMemory(onts, parents) ==
    /\ pc = "loaded"
    /\ pc' = "applied"
    /\ alarm_memory' = [o \in Onts |-> IF o \in Computed THEN StatusOf(rows[o])
                                                         ELSE alarm_memory[o]]
    /\ parent' = parents
    /\ tg_queue' = [onts |-> onts, begun |-> Begun, ended |-> Ended]
    /\ open_incident' = (open_incident \cup Begun) \ Ended
    /\ alerted' = [o \in Onts |-> Count(o, rows[o], o \in onts)]
    /\ UNCHANGED <<row, deleted, ping_down, rows, check, restarts>>

WithoutEnded ==
    [olt \in Olts |-> IF olt \in Ended THEN "none" ELSE WithBegun[olt]]

\* The outage record is written before the status, and its refusal is ignored:
\* it may be missing for the ONT that is written first, before the transaction
\* holds SQLite's write lock.
Refusals == {{}} \cup (IF Faults THEN {{o} : o \in Computed} ELSE {})

ApplyRows ==
    /\ PollMemory(Spoken, WithoutEnded)
    /\ status' = [o \in Onts |-> IF o \in Computed /\ o \in Table
                                 THEN StatusOf(rows[o]) ELSE status[o]]
    /\ \E refused \in Refusals :
          /\ downtime' = [o \in Onts |->
                IF o \in Computed \ refused
                THEN DowntimeAfter(downtime[o], StatusOf(rows[o])) ELSE downtime[o]]
          /\ unchecked' = (unchecked \ Computed) \cup refused

\* The first UPDATE of pass 2 is refused: it ends the pass after the message
\* of that ONT and before the ended incidents are removed.
RefuseRows ==
    /\ Faults
    /\ \E first \in Computed : PollMemory(Spoken \cap {first}, WithBegun)
    /\ UNCHANGED <<status, downtime, unchecked>>

FailCommit ==
    /\ Faults
    /\ PollMemory(Spoken, WithoutEnded)
    /\ UNCHANGED <<status, downtime, unchecked>>

SendQueue ==
    /\ pc = "applied"
    /\ pc' = "idle"
    /\ rows' = NoRows
    /\ tg_queue' = Nothing
    /\ UNCHANGED <<tables, memory, check, history, restarts>>

Poll == LoadRows \/ ApplyRows \/ RefuseRows \/ FailCommit \/ SendQueue

-----------------------------------------------------------------------------
(* _fiber_single_check in thread t                                          *)

\* The request has committed the row of ONT o: api_fiber_create and
\* api_fiber_update write the status as well, without db_lock.
WriteRow(t, o, r, quiet) ==
    /\ check[t].pc = "idle"
    /\ quiet => o \in Mutable
    /\ o \notin deleted
    /\ row' = [row EXCEPT ![o] = [reading |-> r, stale |-> FALSE, quiet |-> quiet]]
    /\ status' = [status EXCEPT ![o] = Eval(row'[o])]
    /\ check' = [check EXCEPT ![t] = [IdleCheck EXCEPT !.pc = "written", !.ont = o]]
    /\ alerted' = [alerted EXCEPT ![o] = 0]
    /\ unchecked' = unchecked \cup {o}
    /\ UNCHANGED <<deleted, downtime, memory, poll, open_incident, restarts>>

\* The row is read and the parents are refreshed; a row that is gone ends the
\* check.
LoadRow(t) ==
    /\ check[t].pc = "written"
    /\ IF check[t].ont \in Table
       THEN /\ check' = [check EXCEPT ![t].pc = "loaded", ![t].row = row[check[t].ont]]
            /\ parent' = Refreshed
       ELSE /\ check' = [check EXCEPT ![t] = IdleCheck]
            /\ UNCHANGED parent
    /\ UNCHANGED <<tables, alarm_memory, ping_down, poll, history, restarts>>

\* The memory is read without the lock.
Decide(t) ==
    /\ check[t].pc = "loaded"
    /\ check' = [check EXCEPT
          ![t].pc = "decided",
          ![t].speaks = Speaks(check[t].row, alarm_memory[check[t].ont])]
    /\ UNCHANGED <<tables, memory, poll, history, restarts>>

\* Mutant: the single check leaves fiber_downtime to the next poll.
ApplyCheckStatusOnly(t) ==
    LET o == check[t].ont
        st == StatusOf(check[t].row)
        spoken == check[t].speaks /\ ~Suppressed(o, parent)
    IN  /\ check[t].pc = "decided"
        /\ check' = [check EXCEPT ![t].pc = "applied"]
        /\ alerted' = [alerted EXCEPT ![o] = Count(o, check[t].row, spoken)]
        /\ status' = [status EXCEPT ![o] = IF o \in Table THEN st ELSE @]
        /\ unchecked' = unchecked \ {o}
        /\ UNCHANGED <<row, deleted, downtime, memory, poll, open_incident, restarts>>

\* The block under db_lock.  A refused statement drops the message as well, a
\* failed commit does not.
ApplyCheck(t) ==
    LET o == check[t].ont
        st == StatusOf(check[t].row)
        spoken == check[t].speaks /\ ~Suppressed(o, parent)
    IN  /\ check[t].pc = "decided"
        /\ check' = [check EXCEPT ![t].pc = "applied"]
        /\ \/ /\ status' = [status EXCEPT ![o] = IF o \in Table THEN st ELSE @]
              /\ downtime' = [downtime EXCEPT ![o] = DowntimeAfter(@, st)]
              /\ unchecked' = unchecked \ {o}
              /\ alerted' = [alerted EXCEPT ![o] = Count(o, check[t].row, spoken)]
           \/ /\ Faults
              /\ UNCHANGED <<status, downtime, unchecked>>
              /\ \/ UNCHANGED alerted
                 \/ alerted' = [alerted EXCEPT ![o] = Count(o, check[t].row, spoken)]
        /\ UNCHANGED <<row, deleted, memory, poll, open_incident, restarts>>

\* After the lock: the memory is written, the message sent.
Remember(t) ==
    /\ check[t].pc = "applied"
    /\ alarm_memory' = [alarm_memory EXCEPT ![check[t].ont] = StatusOf(check[t].row)]
    /\ check' = [check EXCEPT ![t] = IdleCheck]
    /\ UNCHANGED <<tables, parent, ping_down, poll, history, restarts>>

SingleCheck(t) == LoadRow(t) \/ Decide(t) \/ ApplyCheck(t) \/ Remember(t)

-----------------------------------------------------------------------------
(* The other handlers and jobs that touch the rows                          *)

\* api_fiber_import, under db_lock: the memory is seeded with the evaluation,
\* ahead of the commit.  For an ONT that exists, a cell left empty keeps the
\* row's own value: an import never takes a measurement away.
Import(o, r) ==
    /\ o \notin deleted
    /\ r.quiet => o \in Mutable
    /\ alarm_memory' = [alarm_memory EXCEPT ![o] = Eval(r)]
    /\ \/ /\ row' = [row EXCEPT ![o] = r]
          /\ status' = [status EXCEPT ![o] = Eval(r)]
          /\ alerted' = [alerted EXCEPT ![o] = 0]
          /\ unchecked' = unchecked \cup {o}
       \/ Faults /\ UNCHANGED <<row, status, alerted, unchecked>>
    /\ UNCHANGED <<deleted, downtime, parent, ping_down, poll, check,
                   open_incident, restarts>>

ImportRow ==
    \E o \in Onts, quiet \in BOOLEAN :
        \/ \E r \in Readings :
              /\ o \in Table => r # "nodata"
              /\ Import(o, [reading |-> r, stale |-> FALSE, quiet |-> quiet])
        \/ o \in Table /\ Import(o, [row[o] EXCEPT !.quiet = quiet])

\* api_fiber_delete
Delete(o) ==
    /\ o \in Table
    /\ row' = [row EXCEPT ![o] = NoRow]
    /\ deleted' = deleted \cup {o}
    /\ downtime' = [downtime EXCEPT ![o] = "none"]
    /\ alarm_memory' = [alarm_memory EXCEPT ![o] = "absent"]
    /\ alerted' = [alerted EXCEPT ![o] = 0]
    /\ unchecked' = unchecked \ {o}
    /\ UNCHANGED <<status, parent, ping_down, poll, check, open_incident, restarts>>

\* The row changes without an evaluation of it.
Change(o, r) ==
    /\ o \in Table
    /\ row[o] # r
    /\ row' = [row EXCEPT ![o] = r]
    /\ alerted' = [alerted EXCEPT ![o] = 0]
    /\ UNCHANGED <<status, deleted, downtime, memory, poll, check, unchecked,
                   open_incident, restarts>>

\* poll_fiber_snmp has a fresh measurement.
SnmpFresh(o, r) ==
    /\ o \in Polled
    /\ r # "nodata"
    /\ Change(o, [row[o] EXCEPT !.reading = r, !.stale = FALSE])

\* fiber_stale_min passes without one.
Age(o) ==
    /\ o \in Polled
    /\ Measured(row[o])
    /\ Change(o, [row[o] EXCEPT !.stale = TRUE])

\* A maintenance window of the ONT, its ODP or its OLT, or its mute_until,
\* begins or ends.
ToggleQuiet(o) == o \in Mutable /\ Change(o, [row[o] EXCEPT !.quiet = ~@])

\* check_network finds the OLT's address down; within the cooldown of its
\* last alert it leaves the parent to the next refresh.
PingDown(olt) ==
    /\ olt \notin ping_down
    /\ ping_down' = ping_down \cup {olt}
    /\ \/ parent' = [parent EXCEPT ![olt] = IF @ = "none" THEN "ping" ELSE @]
       \/ UNCHANGED parent
    /\ UNCHANGED <<tables, alarm_memory, poll, check, history, restarts>>

\* Mutant: a PULIH withdraws the OLT's entry of whatever kind.
PingUpDropsEntry(olt) ==
    /\ olt \in ping_down
    /\ ping_down' = ping_down \ {olt}
    /\ parent' = [parent EXCEPT ![olt] = "none"]
    /\ UNCHANGED <<tables, alarm_memory, poll, check, history, restarts>>

PingUp(olt) ==
    /\ olt \in ping_down
    /\ ping_down' = ping_down \ {olt}
    /\ parent' = [parent EXCEPT ![olt] = IF @ = "ping" THEN "none" ELSE @]
    /\ UNCHANGED <<tables, alarm_memory, poll, check, history, restarts>>

\* Mutant: rebuild_alarm_memory forgets the ONTs.
RebuiltEmpty == [o \in Onts |-> "absent"]

\* rebuild_alarm_memory, from the column status.
RebuiltMemory == [o \in Onts |-> IF o \in Table THEN status[o] ELSE "absent"]

Restart ==
    /\ restarts < MaxRestarts
    /\ restarts' = restarts + 1
    /\ alarm_memory' = RebuiltMemory
    /\ parent' = [olt \in Olts |-> "none"]
    /\ pc' = "idle" /\ rows' = NoRows /\ tg_queue' = Nothing
    /\ check' = [t \in Checkers |-> IdleCheck]
    /\ open_incident' = {}
    /\ UNCHANGED <<tables, ping_down, alerted, unchecked>>

Handlers ==
    \/ \E t \in Checkers, o \in Onts, r \in Readings, quiet \in BOOLEAN :
          WriteRow(t, o, r, quiet)
    \/ ImportRow
    \/ \E o \in Onts : Delete(o)

Environment ==
    \/ \E o \in Onts, r \in Readings : SnmpFresh(o, r)
    \/ \E o \in Onts : Age(o) \/ ToggleQuiet(o)
    \/ \E olt \in Olts : PingDown(olt) \/ PingUp(olt)
    \/ Restart

Next ==
    \/ Poll
    \/ \E t \in Checkers : SingleCheck(t)
    \/ Handlers
    \/ Environment

Spec == Init /\ [][Next]_vars

\* The poll is started every 120 s; a request thread runs to its end.
FairSpec ==
    /\ Spec
    /\ WF_vars(Poll)
    /\ \A t \in Checkers : WF_vars(SingleCheck(t))

-----------------------------------------------------------------------------
(* Properties                                                               *)

\* The unresolved record of fiber_downtime agrees with the column status of
\* the same ONT, except after a write of that column alone, by a handler or by
\* a poll whose outage record was refused, until the next evaluation that is
\* committed: poll and single check write both in one transaction, in whatever
\* order they run, and no import, delete, SNMP poll or restart parts them.
DowntimeFollowsStatus ==
    \A o \in Table \ unchecked : downtime[o] = DowntimeAfter(downtime[o], status[o])

\* The messages of one poll never hold the message of an ONT beside one that
\* begins or ends the incident of its OLT.
NoMemberBesideIncident ==
    \A o \in tg_queue.onts : OltOf[o] \notin tg_queue.begun \cup tg_queue.ended

\* While SQLite accepts the writes, "INSIDEN MASSAL" and "INSIDEN MASSAL
\* PULIH" of an OLT alternate, whatever check_network does to the parent map.
IncidentAlternates ==
    [][/\ tg_queue.begun = {} => tg_queue'.begun \cap open_incident = {}
       /\ tg_queue.ended = {} => tg_queue'.ended \subseteq open_incident]_vars

\* A mass incident stands for its members: one message when it begins, one
\* when it ends, and none of a member beside them.
IncidentsStand == []NoMemberBesideIncident /\ IncidentAlternates

\* "Telegram hanya saat status berubah (anti spam)" and "anti duplikat":
\* for a row that no one changes, at most one alarm is queued.
AlertedOncePerRow == \A o \in Onts : alerted[o] <= 1

\* A record of an outage does not stay open while the row of the ONT goes on
\* evaluating to normal, warning or unknown ("tutup saat normal/warning/unknown").
DowntimeCloses ==
    \A o \in Onts, st \in {"normal", "warning", "unknown"} :
        []<>(\/ downtime[o] = "none"
             \/ o \notin Table \/ StatusOf(row[o]) # st)

\* Whatever races and restarts did to it, the alarm memory and the column
\* status of an ONT come back to what its row goes on evaluating to, as long as
\* it has a measurement.
MemoryConverges ==
    \A o \in Onts, st \in Statuses :
        []<>(\/ alarm_memory[o] = st /\ status[o] = st
             \/ ~Measured(row[o]) \/ StatusOf(row[o]) # st)

\* What is remembered of an ONT comes back to what is measured: the record of
\* its outage, the alarm memory and the column.
OntConverges == DowntimeCloses /\ MemoryConverges

\* A synthetic parent does not go on suppressing an OLT none of whose ONTs is
\* bad, as long as the table is not empty.
IncidentClears ==
    \A olt \in Olts :
        []<>(\/ parent[olt] # "synthetic"
             \/ Table = {}
             \/ \E o \in Table : OltOf[o] = olt /\ StatusOf(row[o]) \in Severe)
=============================================================================
