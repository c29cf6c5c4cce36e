----------------------------- MODULE AgentAlarm ------------------------------
(***************************************************************************)
(* Alarms of the monitoring agents.  An agent posts its metrics to         *)
(* agent_report (app.py), whose thread checks the host without a lock and  *)
(* then, under db_lock, moves the alarm memory and stores the metrics;     *)
(* messages are sent after the commit, and dropped when it is refused.     *)
(* check_agent_heartbeat (nms/monitor.py) reads the ages of the latest     *)
(* metrics without the lock and marks silent agents under it.  The memory  *)
(* dies with the process and is rebuilt from the latest metrics.  Time is  *)
(* counted in ticks; values are abstracted to their place relative to the  *)
(* threshold and to the threshold minus HYSTERESIS.                        *)
(***************************************************************************)
EXTENDS Integers

CONSTANTS
    Hosts,         \* addresses that may be registered
    Metrics,       \* cpu, ram, disk
    OfflineAfter,  \* an agent is offline when its report is older than this
    Window,        \* reports as old as this are not read
    Period,        \* longest time between two starts of the heartbeat job
    Faults,        \* may SQLite refuse a write as locked?
    MaxRestarts    \* bound on the number of restarts of the process

ASSUME TimeAssumption ==
    /\ OfflineAfter \in Nat /\ Window \in Nat /\ Period \in Nat
    /\ 0 < Period /\ OfflineAfter < Window
ASSUME SwitchAssumption == Faults \in BOOLEAN /\ MaxRestarts \in Nat

VARIABLES
    hosts,                 \* rows of table hosts
    last,                  \* levels in the latest row of agent_metrics
    age,                   \* its age; Window when it is out of sight
    agent_status_memory,   \* metrics held to be high
    agent_offline_memory,  \* hosts held to be offline
    request,               \* report past its registration check
    hb,                    \* phase of check_agent_heartbeat
    hb_targets,            \* its local variables: targets, age of their reports
    last_map,
    since_hb,              \* ticks since its last start
    announced,             \* history: metrics whose last message was HIGH
    unheard,               \* history: metrics whose HIGH was refused and lost
    reported,              \* history: hosts whose last report this process knows
    restarts               \* history: number of restarts

memory    == <<agent_status_memory, agent_offline_memory>>
heartbeat == <<hb, hb_targets, last_map>>
history   == <<announced, unheard, reported>>
vars == <<hosts, last, age, memory, request, heartbeat, since_hb,
          history, restarts>>

Levels   == {"low", "mid", "high"}   \* low: at most the threshold - HYSTERESIS
Report   == [Metrics -> Levels]
NoReport == [m \in Metrics |-> "none"]
Unseen   == -1

TypeOK ==
    /\ hosts \subseteq Hosts
    /\ last \in [Hosts -> Report]
    /\ age \in [Hosts -> 0..Window]
    /\ agent_status_memory \in [Hosts -> SUBSET Metrics]
    /\ agent_offline_memory \subseteq Hosts
    /\ request \in [Hosts -> Report \cup {NoReport}]
    /\ hb \in {"idle", "read"}
    /\ hb_targets \subseteq Hosts
    /\ last_map \in [Hosts -> Unseen..Window]
    /\ since_hb \in 0..Period
    /\ announced \in [Hosts -> SUBSET Metrics]
    /\ unheard \in [Hosts -> SUBSET Metrics]
    /\ reported \subseteq Hosts
    /\ restarts \in 0..MaxRestarts

Init ==
    /\ hosts \in SUBSET Hosts
    /\ last = [h \in Hosts |-> [m \in Metrics |-> "low"]]
    /\ age = [h \in Hosts |-> Window]
    /\ agent_status_memory = [h \in Hosts |-> {}]
    /\ agent_offline_memory = {}
    /\ request = [h \in Hosts |-> NoReport]
    /\ hb = "idle" /\ hb_targets = {}
    /\ last_map = [h \in Hosts |-> Unseen]
    /\ since_hb = 0
    /\ announced = [h \in Hosts |-> {}]
    /\ unheard = [h \in Hosts |-> {}]
    /\ reported = {}
    /\ restarts = 0

-----------------------------------------------------------------------------
(* agent_report                                                             *)

CheckHost(h, report) ==
    /\ request[h] = NoReport
    /\ h \in hosts
    /\ request' = [request EXCEPT ![h] = report]
    /\ UNCHANGED <<hosts, last, age, memory, heartbeat, since_hb, history, restarts>>

Raised(h)  == {m \in Metrics : request[h][m] = "high"} \ agent_status_memory[h]
Cleared(h) == {m \in agent_status_memory[h] : request[h][m] = "low"}

\* The block under db_lock changes the memory, whether the row is stored or not.
ChangeMemory(h) ==
    /\ request[h] # NoReport
    /\ request' = [request EXCEPT ![h] = NoReport]
    /\ agent_offline_memory' = agent_offline_memory \ {h}
    /\ agent_status_memory' = [agent_status_memory EXCEPT
          ![h] = (@ \cup Raised(h)) \ Cleared(h)]
    /\ UNCHANGED <<hosts, heartbeat, since_hb, restarts>>

StoreReport(h) ==
    /\ ChangeMemory(h)
    /\ last' = [last EXCEPT ![h] = request[h]]
    /\ age' = [age EXCEPT ![h] = 0]
    /\ announced' = [announced EXCEPT ![h] = (@ \cup Raised(h)) \ Cleared(h)]
    /\ unheard' = [unheard EXCEPT
          ![h] = {m \in @ : request[h][m] # "low"} \ Raised(h)]
    /\ reported' = IF h \in hosts THEN reported \cup {h} ELSE reported

\* "Database sibuk, coba lagi" with status 503: the queued messages are lost.
RefuseReport(h) ==
    /\ Faults
    /\ ChangeMemory(h)
    /\ unheard' = [unheard EXCEPT ![h] = @ \cup Raised(h)]
    /\ reported' = reported \ {h}
    /\ UNCHANGED <<last, age, announced>>

-----------------------------------------------------------------------------
(* check_agent_heartbeat                                                    *)

\* Mutant: reports are read only as long as their agent counts as online.
ReadReportsOnline ==
    /\ hb = "idle"
    /\ hb' = "read"
    /\ hb_targets' = hosts
    /\ last_map' = [h \in Hosts |->
          IF h \in hosts /\ age[h] <= OfflineAfter THEN age[h] ELSE Unseen]
    /\ since_hb' = 0
    /\ UNCHANGED <<hosts, last, age, memory, request, history, restarts>>

ReadReports ==
    /\ hb = "idle"
    /\ hb' = "read"
    /\ hb_targets' = hosts
    /\ last_map' = [h \in Hosts |->
          IF h \in hosts /\ age[h] < Window THEN age[h] ELSE Unseen]
    /\ since_hb' = 0
    /\ UNCHANGED <<hosts, last, age, memory, request, history, restarts>>

\* Under db_lock; the messages are sent after it.
MarkOffline ==
    /\ hb = "read"
    /\ hb' = "idle"
    /\ agent_offline_memory' =
          agent_offline_memory \cup {h \in hb_targets : last_map[h] > OfflineAfter}
    /\ hb_targets' = {}
    /\ last_map' = [h \in Hosts |-> Unseen]
    /\ UNCHANGED <<hosts, last, age, agent_status_memory, request,
                   since_hb, history, restarts>>

-----------------------------------------------------------------------------
(* Hosts, time and restarts                                    *)

AddHost(h) ==
    /\ h \notin hosts
    /\ hosts' = hosts \cup {h}
    /\ UNCHANGED <<last, age, memory, request, heartbeat, since_hb, history, restarts>>

\* api_delete_host keeps the rows of agent_metrics.
DeleteHost(h) ==
    /\ h \in hosts
    /\ hosts' = hosts \ {h}
    /\ agent_status_memory' = [agent_status_memory EXCEPT ![h] = {}]
    /\ agent_offline_memory' = agent_offline_memory \ {h}
    /\ reported' = reported \ {h}
    /\ UNCHANGED <<last, age, request, heartbeat, since_hb, announced,
                   unheard, restarts>>

\* Mutant: the query for the latest metrics has no time range.
OlderForever(a) == IF a = Unseen THEN a ELSE a + 1

Older(a) == IF a = Unseen \/ a = Window THEN a ELSE a + 1

\* The job is started again before Period has passed since its last start.
Tick ==
    /\ since_hb < Period
    /\ since_hb' = since_hb + 1
    /\ age' = [h \in Hosts |-> Older(age[h])]
    /\ last_map' = [h \in Hosts |-> Older(last_map[h])]
    /\ UNCHANGED <<hosts, last, memory, request, hb, hb_targets, history, restarts>>

\* Mutant: the memory is rebuilt by the lower of the two thresholds.
RebuiltAboveClear(h) ==
    IF h \in hosts /\ age[h] < Window
    THEN {m \in Metrics : last[h][m] \in {"mid", "high"}} ELSE {}

\* What rebuild_alarm_memory makes of the latest metrics.  It compares them rounded
\* to one decimal, which the percentages of the repository's agent have anyway, and
\* with the thresholds of the moment: both are left out here.
Rebuilt(h) ==
    IF h \in hosts /\ age[h] < Window
    THEN {m \in Metrics : last[h][m] = "high"} ELSE {}

Restart ==
    /\ restarts < MaxRestarts
    /\ restarts' = restarts + 1
    /\ agent_status_memory' = [h \in Hosts |-> Rebuilt(h)]
    /\ agent_offline_memory' =
          {h \in hosts : age[h] > OfflineAfter /\ age[h] < Window}
    /\ request' = [h \in Hosts |-> NoReport]
    /\ hb' = "idle" /\ hb_targets' = {} /\ last_map' = [h \in Hosts |-> Unseen]
    /\ since_hb' = 0
    /\ reported' = {h \in reported : age[h] < Window}
    /\ UNCHANGED <<hosts, last, age, announced, unheard>>

Next ==
    \/ \E h \in Hosts, report \in Report : CheckHost(h, report)
    \/ \E h \in Hosts : StoreReport(h) \/ RefuseReport(h)
    \/ ReadReports
    \/ MarkOffline
    \/ \E h \in Hosts : AddHost(h) \/ DeleteHost(h)
    \/ Tick
    \/ Restart

Spec == Init /\ [][Next]_vars

-----------------------------------------------------------------------------
(* Properties                                                               *)

\* An agent whose last report was accepted (and, after a restart, could still
\* be read) and that is silent since is held to be offline by the time that
\* report is out of sight: check_agent_heartbeat meets every report between
\* OfflineAfter and Window, however deletes, reports and the passage of time
\* fall into it.
SilentIsOffline ==
    \A h \in hosts \cap reported : age[h] = Window => h \in agent_offline_memory

\* Every metric held to be high was announced and not yet announced as normal,
\* also after the memory was rebuilt: a "CPU NORMAL" is never the first that is
\* heard of an alarm, except of one whose report SQLite refused.
AlarmsWereAnnounced ==
    \A h \in Hosts : agent_status_memory[h] \subseteq announced[h] \cup unheard[h]

\* What is held of an agent is what it reported and what was told: its
\* silence, and its alarms.
AgentsAreHeard == SilentIsOffline /\ AlarmsWereAnnounced
=============================================================================
