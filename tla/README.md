# Verification of the NMS dashboard in TLA+

This directory specifies the concurrent and fault-prone parts of the NMS
dashboard in `src/` (Flask, SQLite, APScheduler, Telegram): TLA+ modules
translated from its Python code, configurations that model-check them with TLC,
and theorems about them that TLAPS has checked.

## The system

One process (one gunicorn worker with four request threads, `Dockerfile:33`,
`nms-dashboard.service:10`) serves the web interface and runs the scheduled jobs
of `app.py:1121-1190` in background threads. Jobs and request handlers share

* the SQLite database, whose writers serialise on `db_lock` and on SQLite's own
  lock, and may be refused a statement or a commit ("database is locked");
* dictionaries in memory (`ThreadSafeDict`: single operations are atomic), lost
  at a restart and partly rebuilt from tables by `rebuild_alarm_memory`
  (`app.py:960-1060`);
* the devices they ask over ping, SNMP, SSH and the RouterOS API, each of which
  may be slow, silent or wrong;
* a Telegram channel, written after the locks are released.

Most of what can go wrong lies between these: memory against table, a copy read
before a lock against the table under it, an old answer against a new one, a
restart between two steps.

| component | state it keeps | operations | correct when | module |
|---|---|---|---|---|
| ping monitor (`nms/monitor.py`) | `hosts`, `down_events`; `status_memory`, `down_since`, `last_down_telegram`, `fiber_parent_down` | `check_network` every 30 s, `refresh_fiber_parent_map`, host and event handlers, rebuild | an outage has exactly one open row as long as it lasts, is announced once, and its OLT suppresses its ONTs meanwhile | HostMonitor, OutageLedger |
| agent alarms (`app.py:3380-3500`, `nms/monitor.py:60-145`) | `agent_metrics`; `agent_status_memory`, `agent_offline_memory` | `agent_report` per agent and minute, `check_agent_heartbeat` every 60 s, rebuild | no alarm held that was not announced; a silent agent is noticed | AgentAlarm |
| fiber alarm engine (`nms/fiber_poll.py`, parts of `nms/fiber_routes.py`) | `fiber_onts.status`, `fiber_downtime`; `fiber_alarm_memory`, `fiber_parent_down` | `poll_fiber_monitor` every 120 s, `_fiber_single_check` after a PUT, import, delete, rebuild | status, outage record and memory agree with the measurement; mass incidents stand for their members | FiberAlarm |
| fiber tables (`nms/fiber_routes.py`) | `olts`, `odps`, `fiber_onts` | create, change, rename, delete, import, discover | ONTs keep their ODP and OLT through renames, imports and discoveries; typed values are kept; a new ONT has no alarm memory | FiberRegistry |
| MikroTik backups (`nms/mikrotik_poll.py:860-1160`) | `mt_backups`, `hosts.ssh_hostkey`, `hosts.backup_ok`, `system_logs` | nightly job at 02:00, "backup now", deletion, key reset, log cleaning | versions differ, the newest is the last export, one warning per changed key | MtBackup |
| MikroTik health and interfaces (`nms/mikrotik_poll.py:420-846`, `nms/mikrotik.py`, `nms/mikrotik_routes.py`) | `device_health`, `snmp_interfaces`, `alert_history`; `mt_alarm_memory`, `mt_iface_oper` | polls, discovery, handlers of the rows | a message of a reboot was earned; alerts are of ports that are down, at most one for the rates; row and memory agree | MtHealth, IfaceAlarm |
| SNMP client (`nms/snmp.py`) | a socket, `_BULK_UNSUPPORTED` | `snmp_walk` by GETBULK or GETNEXT, GET, SET | every stable row, no row twice, an end; an answer is read as it was meant | SnmpWalk, SnmpCodec |
| SNMP trap receiver (`nms/snmp_trap.py`) | `snmp_traps`, dedupe map | one thread per process | one message per address, category and window; a trap is read as it was built | TrapAlert, SnmpCodec |
| alerts (`nms/db.py:1266-1440`, `app.py:1096-1118`, `4472-4520`, `5797-5834`) | `alert_history` | create, acknowledge, resolve, escalate | an overdue alert is escalated, once, and named | AlertWorkflow, IfaceAlarm |
| service checks, SSL expiry (`nms/service_checks.py`, `app.py:780-951`, `4880-4935`) | `services`, `service_history`, `ssl_last_alert` | add, delete, job and manual trigger | the status shown comes to be the one the target has; a level that is stored was announced | ServiceCheck, SslWatch |
| maintenance windows (`app.py:4700-4760`, `nms/db.py`) | `maintenance_windows` | plan, delete, clean, ask | few windows of a host are active at a time | MaintenanceWindows |
| settings (`app.py:2846-3140`) | `settings` | `api_save_settings` | limits that belong together stay in order | LimitSettings |
| discovery of hosts (`app.py:1062-1094`, `nms/snmp.py`) | `settings.discovery_last_hosts` | scheduled and manual scan | the list holds what was told, as far as a message has room for it | Discovery |
| backup, restore, retention (`nms/db.py:785-1030`, `app.py:1187-1236`, `3960-4040`) | backup files | nightly and manual backup, catch-up after a start, rotation, `cleanup_old_data`; a restore that is always refused | the last good backup is kept, and one of each recent day | DbBackup |
| power (`nms/power.py`, `app.py:1540-1630`) | `power_metrics` | job and requests | no energy is made up | PowerMeter |
| evaluation, trend, anomaly | none or a table | pure functions | agree with their definition | not modelled |
| login, second factor, users | `users`, `settings` | single statements | - | not modelled: nothing monitored depends on them |
| notifications, configuration, crypto, validation, formatting, web pages, exports, agent program, deployment | - | pure I/O and stateless helpers | - | not modelled |

How they interact: `check_network` registers and withdraws the OLTs of dead hosts
in `fiber_parent_down`, which the fiber poll reads to suppress ONT alarms and in
which it enters mass incidents of its own; handlers delete rows under running
jobs and strike entries out of the memory; `rebuild_alarm_memory` reads all
tables at the start; the interface poll writes `alert_history`, which the trigger
page and the escalation job write too; saves of limits come between the polls that
read them; a maintenance window silences three jobs. `PROJECT.json` lists the hazards line by line. Others were
met and left out there because no state of the program depends on them, or they
cost nothing but time: messages of different threads may overtake each other
(`nms/monitor.py:128`); the downtime record of an ONT deleted during a poll stays
as an orphan nobody reads (`nms/fiber_routes.py:596`); `poll_fiber_snmp`
overwrites a concurrent PUT until its next run (`nms/fiber_poll.py:1173`); a
GETBULK lost once marks an agent for an hour (`nms/snmp.py:530`); several
processes would each run the scheduler; two requests that add a host count the
hosts before either inserts, so `MAX_HOSTS` can be exceeded by one
(`app.py:2303`); a GETNEXT that is answered with an error status yields its own
base as a row (`nms/snmp.py:384`); an OSError of its socket ends the trap thread until the program is started again
(`nms/snmp_trap.py`); rows of the trigger page are resolved by hand only, so that
one whose cause has gone is escalated all the same (`app.py:5797`), and an alarm
text with a number in it makes a new row at each change of the number.

## The modules

### HostMonitor

`check_network` runs in the phases the code has: `LoadTargets` (table `hosts`),
`PingTargets` (no lock), `ReadMaintenance` (no lock, empty when the database
fails), `ApplyResults` (under `db_lock`: transitions of the memory, rows of
`down_events`, the queue; a refused statement leaves the memory moved and the
rows rolled back), `SendQueue`. `pc`, `targets`, `unanswered`, `maint_map` and
`telegram_queue` are its local variables. `RefreshRead` and `RefreshWrite` are
`refresh_fiber_parent_map`, which copies the down hosts and adds their OLTs
later. `AddHost`, `DeleteHost`, `DeleteEvent`, `ClearEvents` are the handlers of
`app.py`; `Restart` loses the memory at any point and rebuilds it (`RebuiltStatus`
without the database). `down_events[h]` holds only the unresolved rows of h.
`Tick` counts `DOWN_COOLDOWN_S` down. Left out: latency rows, wording.

`OutageLedger` is what the monitor promises: an opinion about each host and at
most one open outage, which move together. HostMonitor implements it with
`opinion <- status_memory` and `open <- hosts with an unresolved row`.

### AgentAlarm

An `agent_report` is two actions, because the memory moves before the write:
`ChangeMemory`, then `StoreReport` (200) or `RefuseReport` (503, messages
dropped). The heartbeat is `ReadReports` (timestamps, no lock) and `MarkOffline`
(under the lock). Time is counted in minutes: `age` is the age of a host's last
report, `Tick` lets a minute pass, and does so only when the heartbeat of the
minute has run, the assumption under which `SilentIsOffline` holds (APScheduler
with `misfire_grace_time` 120 s). Left out: rows of the SNMP poll in
`agent_metrics`; changes of thresholds, so that a restart compares with the
threshold the report was compared with; and the rounding to one decimal before that
comparison (`nms/query_helpers.py:57-59`), which changes nothing for the percentages
of `nms-agent.py`, since psutil gives one decimal. An agent that reports more than
that, just above the threshold, would be forgotten by a restart. Maintenance is
ignored by both handlers, so by the model.

### FiberAlarm

`poll_fiber_monitor` is `LoadRows` (a copy, no lock), `ApplyRows` (under
`db_lock`: pass 1, incidents, pass 2, commit), `RefuseRows` (a refused UPDATE in
the middle of pass 2), `FailCommit`, `SendQueue`. A single check of a request
thread is `LoadRow`, `Decide` (memory read before the lock), `ApplyCheck`,
`Remember` (memory written after it). A measurement is its evaluation: `nodata`,
`unknown`, `normal`, `warning`, `critical`, `overload`; `stale` and `quiet` (muted
or in maintenance) are flags of a row. `fiber_parent_down` is `parent`: the ping
monitor's entries and the synthetic ones of a mass incident share one map.
Handlers that touch the engine (PUT, import, delete, SNMP poll, ageing) are
actions. Left out: the simulator, flap and degradation messages, renaming of an
OLT, discovery.

### MtBackup

Job and requests share one definition: `Read` (the candidate with its host key),
`Fetch` (an SSH session with what the router is at that moment), `Store` (one
transaction: pruning, insertion, first-use key, log row), `StoreSome` (one host's
statements fail, the others go on) and `RefuseCommit`. `mt_backups[h]` is the
sequence of versions. `MaxMishaps` bounds refused transactions and restarts.

### SnmpWalk

One walk at a time over a MIB that changes under it. `AskBulk` and `AskNext` send
a request; the network answers with what the MIB is then, or with nothing, and
may keep an older answer back. `Receive` takes a datagram whose request-id
matches; `TakeBulk` keeps the longest fitting prefix, halves the batch on
tooBig or falls back to GETNEXT; `TakeNext` takes a row. Two request ids alternate:
the code's random ids are assumed to differ from one request to the next. OIDs
are numbers, the base is 0, the column is `1..ColumnEnd`; SnmpCodec has the octets.

### FiberRegistry

The handlers of the optical tables that FiberAlarm does not look into: what ties
an ONT to its ODP or OLT is a name, compared `COLLATE NOCASE`, in a column that is
UNIQUE in the exact case. The handlers of the two directories are the same but for
the deletion, and nothing relates `odp_name` to `olt_name`, so one directory
(`kind`) is followed at a time. A creation is `CheckNewName`, `InsertRow`; a rename
`ReadOldName`, `CheckName`, `Rename` (with the ONTs); a deletion `ReadName`,
`DeleteRow`: no step of these takes `db_lock`. An ONT is written by `CreateOnt`,
`UpdateOnt`, `DeleteOnt` up to their commit, and the alarm memory after it
(`LoadRow`, `Remember`, `Forget`). `api_fiber_import` holds `lock` (`db_lock`) from
`TakeFile` to `CommitFile`; SQLite's write lock is its own from the first line it
writes (`WriteFirstLine` opens `tx`), so that the row of the first line it updates
was read before (`FindRow`, `ReadRow`), those of the others inside (`WriteLine`).
`api_olt_discover` is `Walk` (no lock), `List`, a `TakeIndex` per index, `CommitRows`;
`poll_fiber_snmp` is `Ask` and `WriteValues`. `Refuse`, `RefuseLine`, `RollBack` and
`RefuseValues` are what SQLite may refuse. A measurement is only where it comes from
(`rx`: `user` or `device`). `last` is AUTOINCREMENT; `mem` holds the keys of
`fiber_alarm_memory`; `ghosts` (history) those it was seeded with for rows whose
commit was refused, and `begun` counts requests. Left out: positions, capacities,
OIDs, links and history rows, the audit log.

### IfaceAlarm, MtHealth

IfaceAlarm is `poll_mikrotik_ifaces` for the ports of one host, statement by
statement: `Load`, `Begin` (`db_lock`), and for each port `NoTransition` or
`Transition` (memory, then row), `LogDown` or `ResolveDown`, `InsertLog`, `Rate`;
`Finish` commits or rolls back. `txn` is what SQLite makes of the transaction
(none, begun, pinned to a snapshot, writing), `view` what it reads there, `stale`
that others have written since it was pinned: `LogDown` writes through a second
connection (`nms/mikrotik_poll.py:714`), which can write only while the first is not
writing. In normal operation the UPDATE of the row has made it writing, so that the
alert waits for 30 seconds, holds up everyone who needs `db_lock`, and is lost.
Status and counters are two GETs of which either may fail
(`nms/mikrotik_poll.py:588-601`): `answer` is the status, and `Rate` takes a rate that
does not depend on it; the earlier samples of the counters are not kept, so that a
rate may come sooner than in the code.
`StoreFound` is a discovery with the poll it starts, `SetMonitor`, `DeleteRow` and
`Forget` the handlers. `drift` (history) holds ports whose row may have been
overtaken, `hushed` that an UP left an alert alone.

MtHealth is `poll_mikrotik_health`: a sample taken without a lock, limits read one
by one (`ReadWarn`, `ReadCrit`), and the decision under `db_lock`. `uptime` wraps at
`MaxUp`, as sysUpTime does at 2^32 hundredths. CPU, memory and storage go through
the hysteresis of the temperature with one limit each and are left out.

### TrapAlert, SnmpCodec

TrapAlert has the network (`SendTrap`, `LoseTrap`; a datagram that was handled may
stay on the wire, doubled), the thread with `HandleTrap`, and `ReceiverDies`;
`quiet[k]` is the dedupe map, `since[k]` (history) counts the time since the last message of an address and
category, which is all the key holds: a second port of the device is not told of.

SnmpCodec has packets as sequences of octets: what `nms/snmp.py` encodes and decodes
and what `nms/snmp_trap.py` builds and reads, with `RequestAsRead`, `Raw` and
`Response` standing for an agent that keeps to BER. `Cut` drops the end of a
datagram; none is longer than UDP carries (`Datagram`). A text is a sequence of
characters. `CommunitySent` cuts the community to `CommunityMost` (128) of them and
encodes them as UTF-8 (`nms/snmp.py:108`). A text of a varbind is decoded with a mark
for what is no UTF-8, stripped, and passed over beyond `TextMost` (256) octets
(`nms/snmp.py:250-252`); a single GET falls back to Latin-1 and does not strip
(`nms/snmp.py:167-171`); the receiver of traps decodes with marks
(`nms/snmp_trap.py:183`, `230`). The properties say exactly that: a text that is short
enough and has no white space at its ends arrives as it was. Names are what goes wrong:
two arcs go into the first octet, whatever they are (`encode_oid`, `nms/snmp.py:52`), so
that 1.40 and more is sent as a name under 2, one from 2.48 on as the start of
a longer number, and one from 2.40 on is read as another (`nms/snmp.py:189`); the
properties except these names. The values of an agent are those the code has a reading
for (`Answerable`): no counters of 64 bits. The oper status of a trap is looked
for under the column `.10` (`nms/snmp_trap.py:36`), which is ifInOctets; the builder
puts it there too, so that the two agree.

### AlertWorkflow, ServiceCheck, SslWatch

AlertWorkflow: a trigger page takes its alarms one by one, `LookUp` and `CreateAlert`
(two statements of `get_or_create_alert`); `SetAcknowledged` and `ResolveAlert` are
the endpoints, `JobOpens` and `JobResolves` the interface poll; `ReadCandidates`,
`SendEscalation` and `MarkEscalated` are the escalation, whose message names twenty
(`PageLimit`) and marks all, the others without having named them. `pages` (history)
counts the messages of an alert.

ServiceCheck: `LookForService` and `InsertService` of a request that adds a monitor,
`DeleteService`, and runs of `LoadServices`, `ProbeServices` and `StoreResults`.
`StatusOf` says what each kind of probe takes for an answer. SslWatch: `LoadLevel`,
`FetchCertificate`, `StoreLevel` and `Announce` of any number of runs. The connection
verifies the certificate (`Verified`), so that one that has expired is not fetched:
its row keeps the level it had, and the level for expired ones is never stored.

### LimitSettings, DbBackup, Discovery, MaintenanceWindows, PowerMeter

LimitSettings: `SubmitLimits` is a request, `ReadLimit` takes one limit it did not
send from the table, and `WriteLimits` or `RefuseLimits` comes later. DbBackup: the job of 00:05 (`FiveAfter`), the thread that
a start leaves behind for half a minute (`StartProgram`, `CatchUp`), `BackupDatabase`
and `Rotate` of either, beside each other, files made by hand, and days and ends of the
program in between. A restore is no action: it refuses every file before it touches the
database (see below). Discovery: `StartScan`, `Probe` for each address, `Compare`, `Tell`,
`StoreList`. A message names the first `NamedMost` (20) new and missing devices (`First`),
while the list stores all; `unnamed` (history) holds those the last message about them
left out, which no later one makes up for.
MaintenanceWindows: `PlanWindow` (the look-up) and `InsertWindow`, and `Active`, the
map of active windows. PowerMeter: a
reading is stamped before `db_lock` and compared with the row inserted last (by id,
while rows are cleaned by time); `overtaken` and `slips` (history) count the two ways
an hour is accounted for twice. Energies are doubled to keep them whole.

## Runs

| run | question | result |
|---|---|---|
| `host_safety` | one host, two OLTs on it, every statement and commit may be refused, two restarts, unreadable database | memory consistent in itself, at most one open outage, outages detected |
| `host_recovery` | the same with a database that accepts | outages survive restarts, announced once, refinement of OutageLedger, recoveries recorded, parents follow hosts |
| `host_parent_race` | "no race gap" of the docstring `nms/monitor.py:376` | violated: a stale copy puts a withdrawn parent back |
| `fiber_table` | one ONT, all writers interleaved, refused writes, a restart | outage record agrees with the status column |
| `fiber_incident` | two ONTs on one OLT, muting, ping monitor on the same map, a restart | incidents alternate, members silent, no repeated alert, incidents end |
| `fiber_converge` | fairness, checks and imports | memory, status and outage come back to the measurement |
| `fiber_check_race` | the docstring "anti duplikat" `nms/fiber_poll.py:843` | violated: check and poll announce the same measurement |
| `fiber_tables` | two threads, four requests, names that differ in case only, two files, refused writes and commits | ONTs follow renames, one lost update per import at most, typed values kept, new ids unknown to the memory |
| `mt_backup` | one router, job and request, two exports, two keys, one mishap | versions differ, flag and newest version agree, one warning, convergence |
| `snmp_walk` | three rows and a foreign one, limits 2 and 64, loss, delay, duplication, rogue agent | no row twice, stable rows returned, every walk ends |
| `components` | ten components, each by itself (`MCComponents`) | agents are noticed, alerts of ports and rates are what the property says, reboots and limits, quiet times, limits in order, backups kept, lists, windows, packets, energies |
| `followup` | three components with fairness (`MCFollowUp`) | alerts escalated once and in the end, monitors bounded and converging, levels announced and followed |

`components` and `followup` hold components that share no state. Interleaving them
would show no more than each shows by itself, so a behaviour is one component's, the
scene: it is chosen at the start, the others stay in their first state. An action of
a scene is the module's own action; the actions of the other scenes are excluded by
`Moves`. Deadlock is checked in every run but these two, where scenes end: every
packet of SnmpCodec is read at last, the days and the time of DbBackup,
MaintenanceWindows and PowerMeter are bounded. In the other runs a self-loop (`Rest`)
stands for the end where requests are bounded.

Properties that answer one question are one conjunction with named parts, and a run
checks the conjunction: `OutageIsRemembered` is `DownSinceMatches` and
`AtMostOneOpenEvent`; `OutageSurvives` is `DownHasOpenEvent` and `AnnouncedOnce`;
`IncidentsStand` is `NoMemberBesideIncident` and `IncidentAlternates`; `OntConverges`
is `DowntimeCloses` and `MemoryConverges`; `VersionsAreExports` is `VersionsDiffer`
and `BackupOkIsNewest`; `RowsAreHonest` is `RowsOnce` and `RowsWereThere`;
`NamesAreFollowed` is `NoneLeftBehind` and `GroupsStay`; `OthersAreKept` is
`ImportKeepsNames` and `TypedValuesKept`; `AgentsAreHeard` is `SilentIsOffline` and
`AlarmsWereAnnounced`; `PortsAreConsistent` is `OneOpenUtilization`,
`DownAlertIsExplained` and `TableFollowsMemory`; `HealthAlarmsEarned` is `RebootIsReal`
and `CriticalIsWarned`; `PacketsUnderstood` is `TrapUnderstood`, `RequestUnderstood` and
`AnswerUnderstood`; `AlertsAreCounted` is `PagedOnce` and `DuplicatesBounded`;
`MonitorsStayApart` is `NewServiceHasNoPast` and `MonitorsBounded`. The mutants of
`PROJECT.json` break each part by itself.

The type invariants of `components` are checked by its run (`ComponentsTypeOK`) and
proved; those of the other modules are proved and not checked once more.

### Bounds

Hosts, agents and routers do not influence each other in the code except
through `fiber_parent_down`, whose users are checked with two OLTs of one host and
two ONTs of one OLT; the theorems below cover any number. `Cooldown` 2 lets a
second outage fall into and out of the cooldown of the first. Two restarts allow
one between detection and commit and another before the recovery; one suffices
where the memory has no history of its own. `ParentMin` stands for
the setting `fiber_parent_min`, which `_fiber_parent_min` cuts to 2..50 (5 when it
is not set); 2 is the smallest value it can have. `mt_backup_keep` is 3 or 4, the smallest
values pruning distinguishes. In SnmpWalk three rows and `RepsMax` 4 allow a
halving from 4 to 2 to 1, a limit reached inside and at the end of an answer,
and the end of the column before the end of the MIB. In FiberRegistry two threads
share `MaxRequests` 4 requests: two overlapping ones, one that prepared what they
work on and one after them, among them every pair of handlers; no more than
`MaxOnt` 4 ids are needed for four requests, and `MaxDir` 2 allows a second row
whose name differs from the first one's in case only. Threads are symmetric, and
the properties of that run are safety properties.

| scene | instance | enough because |
|---|---|---|
| agents | one host, one metric, two restarts, a window of five minutes | metrics share nothing but the report; one minute is one tick |
| ports | two ports, one of them handled, one mishap (refused statement, refused commit, restart), rows switched off and deleted only without one | an alert of one port is met by the UP of the other |
| polls | the same, without handlers and mishaps, with the poll a discovery starts | two polls and a discovery are all that overlap |
| health | a counter of 0..2, temperatures 2, 7, 10 against limits (4,6) and (8,10), hysteresis 4 | a wrap, every side of every limit, a temperature between two saves |
| traps | one source, three categories, two communities, quiet time 2, two datagrams on the wire, one failed message | keys are independent; one message within the quiet time and one after |
| limits | the three limits of the received power, two values for two of them, two requests | a pair and a chain; two saves of different halves |
| backup | three days, two files kept, one made by hand, starts and ends of the program at any time | a rotation, a rotation past failures, job and catch-up together |
| discovery | two devices, two runs, messages that name one of a kind, one lapse | one comes while the other goes; both come at once and one is left out |
| maintenance | one host, two requests, times 0..4, windows up to 3 long, deleted when 1 old | windows touch, overlap, include each other |
| codec | lengths and numbers around 127, 128, 255, 256 and 2^31 - 1, one and two names, nine cuts, `CommunityMost` 122, `TextMost` 128, characters of one to four octets, texts with spaces around, broken off and ill-formed | every form of a length and of an integer; a community that is cut among its wide characters; a text one too long, one that is stripped, one with marks |
| power | two recorders, one reading or none, time 0..2, three rows ever stored, one clock set back | the pairs of a row with the one before and the one before that |
| alerts | two rows, one alarm of the page and one kind of the poll, two threads, one named per message, one lost run | a message with one too many, a second look-up between look-up and insertion |
| services | every kind of probe but tcp (which is icmp's with a port), two runs, two adders, two ids, one refusal | a deletion during a run and a creation after it |
| certificates | one day of every level and an expired one, two runs, one missed write | every change of level under both orders of the runs, and a certificate that expires or is renewed under them |

### Fairness

`WF_vars(CheckNetwork)`, `WF_vars(Poll)` and the like say that a
scheduled job goes on: APScheduler starts it at its interval with
`max_instances=1`, and everything a job waits for has a timeout (ping, SNMP, SSH,
SQLite). Weak fairness of `Receive \/ Timeout` is the deadline of
`_SnmpLink.receive`. In `followup` the escalation job, the runs of the service check
and of the certificate watch go on (`Escalate`, `Check`, `SslStep`), in threads whose
waits all have timeouts. Handlers, faults, restarts, links, agents, targets and
certificates are never fair: they may happen or not. In `MtBackup` only the nightly
job is fair, not the requests.

The violated runs are disagreements of a docstring with the code;
`PROJECT.json` quotes the lines under `findings`.

### Other disagreements

Met while modelling; they need no run to be seen, and the models follow the code.

* No restore ever succeeds. `restore_database` calls `fetchone()` on a connection
  (`nms/db.py:976`), which has no such method; the AttributeError is answered with
  "Restore gagal" (line 986) before anything is copied.
  `docs/archive/IMPROVEMENT_REPORT.md:291-292` names it as the way to restore. If it
  did copy, it would do so under the live memory of the ping monitor.
* The message "SSL EXPIRED" is never sent. `get_ssl_expiry` connects with a verifying
  context (`app.py:773`), an expired certificate fails the handshake, and the run passes
  over a row without an answer (`app.py:821-822`). `app.py:748`, `app.py:865-868` and
  `tests/test_features.py:452` provide for it.
* The discovery message names twenty new and twenty missing devices at most
  (`app.py:1082`, `1084`), while the list that the next run compares with holds all
  (`app.py:1086-1091`): what was left out is never announced.

## Theorems

TLAPS checks every proof for all values of the constants that satisfy the named
assumptions of the modules.

* `HostMonitorProofs`: `TypeCorrect`, `DownSinceTheorem` and `OneEventTheorem`
  hold with database faults. The inductive invariant says that the phase of
  the job, its targets and the memory fit together: an insertion happens only
  where no unresolved row is. Together they are `RememberedTheorem`.
  `RecordedTheorem` and `AnnouncedOnceTheorem` (together `SurvivesTheorem`) and
  `LedgerTheorem` (initial states to initial states, steps to steps or stutters)
  assume `Faults = FALSE`, without which they are false: memory moves before the
  write.
* `FiberAlarmProofs`: `FiberTypeCorrect`; `DowntimeFollowsTheorem` for any number
  of ONTs, threads and faults; `IncidentTheorem` (with `Faults = FALSE`) from
  the fact that a synthetic entry stands exactly for an announced incident
  (`SyntheticIsOpen`); `NoMemberTheorem`, with the former `IncidentsTheorem`;
  `AlertedOnceTheorem` (with
  `Faults = FALSE` and no request threads) from `AlertedIsHeld`: what was
  alarmed for a row is what memory and column hold, and a poll in flight has loaded
  that very row.
* `MtBackupProofs`: `BackupTypeCorrect`, `VersionsDifferTheorem` and
  `BackupOkTheorem` (together `VersionsTheorem`), `StoredWithinKeepTheorem`, and
  `OneWarningTheorem`, whose invariant `WarningInv` relates the warnings handed to
  Telegram with the newest log row. `PrunedProperties` and `StoredProperties` say what the operators on
  version sequences do.
* `SnmpWalkProofs`: `WalkTypeCorrect`; `RowsOnceTheorem` for any agent, also a
  rogue one: a GETBULK walk ascends (`Ordered`), a GETNEXT walk compares with all
  rows it has; `RowsWereThereTheorem`, with the former `HonestTheorem`, and
  `StableRowsTheorem`: the inductive
  invariant `WalkInv` says that whatever on the socket matches the waiting
  request leads on from the row the walk has come to (`Honest`, `Led`), and that
  no stable row behind it is missing (`Caught`). `LedRows` is the step: a prefix
  of an answer that leads on keeps all of this.
* `FiberRegistryProofs`: `RegistryTypeCorrect`; `NewRowHasNoMemoryTheorem`, whose
  inductive invariant `OrderInv` says that requests hold committed ids only, that
  the open transaction belongs to the holder of `db_lock` and adds rows behind the
  committed ones only, and that every id in the memory is a ghost or not above
  those; `NoneLeftBehindTheorem` and `GroupsStayTheorem` (together
  `NamesTheorem`) follow from the types and
  from `EndsNames`, which says what the write of a rename or a deletion does to the
  names; `OthersAreKeptTheorem` (`ImportKeepsTheorem` and `TypedValuesTheorem`), whose
  invariant compares the open transaction with the committed rows: rows it has not
  written are as they were when it began, but for the one a rename has changed.
* `ComponentProofs` has one inductive invariant per scene of `components`:
  `AnnouncedTheorem` carries the pending report of an agent in its invariant, and
  `SilentTheorem` needs `OfflineAfter + 2 * Period < Window`, which the code's
  2 + 2 * 1 < 5 minutes satisfies and one missed heartbeat more would not (together
  `HeardTheorem`); `QuietTheorem` and `SpacedTheorem` (a bounded pair of counters);
  `LastGoodTheorem` and `RecentTheorem` (from `BackupInv`, whose part `GoodIsNear` says
  that some good file has no more files after it than backups failed, `FilesArePast`
  that no file is of a day to come, and `EmptyHasFailed` that an empty file tells of a
  failure of that day); `DiscoveryTheorem` (`OneBetween`: unless two runs overlapped,
  one at most is between reading and storing the list, and what it told is what it
  stores, but for the devices no message named);
  `LimitsTheorem`, whose invariant says of every request what it has put together
  and that nobody has written a limit of the pair since, or that the pair was
  crossed; `RebootTheorem` and `CriticalTheorem` (together `HealthTheorem`; what the
  sample in flight knows of the counter and of the limits); `WindowsTheorem` (active windows map injectively to
  the requests that wrote them, `ActiveIsInjective`); and four theorems of
  IfaceAlarm from `PortInv`: `UtilizationTheorem`, `DownAlertsTheorem` (`Smooth`:
  without a mishap the transaction is writing when `LogDown` runs), `FollowTheorem`
  (`Followed`: memory agrees with the view of the transaction and, where it rolls
  back, `drift` grows) and `ExplainedTheorem` (`Explained`); all but the second are
  `PortsTheorem`. `EnergyTheorem` bounds a sum over the rows by their times: its
  invariant `RowsInv` says that rows rise, that the newest of them is kept, that times
  have passed, and that the energy of each row is explained by the row before it.
  `ComponentsTypeCorrect` joins the type invariants of the scenes: a behaviour of the
  composition is one of each component (`EachComponent`), because a step of it moves
  one of them and leaves the others alone (`MovesOrStays`).
* `CodecProofs`: `PacketTypeCorrect`, that whatever is built out of the constants is a
  sequence of octets, and `PacketsCorrect`, that the other end reads what was written,
  for all names, numbers, values and texts of any characters whose packet fits into a
  datagram: the community as far as it is sent, texts as decoded and stripped. `Fit`,
  what a payload of a given size may hold, is closed under concatenation and under
  wrapping into an element. The argument goes from the inside out. A number, a length
  and an arc are read as they were written (`OctetsRead`, `ReadLong`, `ArcTurns`). An
  element is read wherever it stands (`ElementIs`, `ReadOne`), and texts put together
  tell the items of all of them one after the other (`Told`, `ToldBoth`, `ToldFlat`),
  since a recursive reader of `a \o b` continues behind `a` where one of `b` begins.
  A character is read from the octets it was written in (`Utf8Forms`, `CharacterRead`),
  and so a text (`Utf8Read`); the decoder takes at least one octet at a time
  (`TakenSome`), which bounds what it makes of any other sequence (`CharactersType`).
  Varbinds change what is known of a trap step by step (`Takes`, `Says`). With these
  `V1Decoded`, `V2cDecoded`, `RequestRead`, `VarbindsRead` and `PositionsRead` open one
  kind of packet each; `CutRead` says that the first element of a packet that lost its
  end is refused. The invariant `CarriedInv` says that what arrives is what was built
  or a true beginning of it. `_extract_snmp_values` descends into elements, so
  `AnswerValues` is defined over places in texts, and every step leads to a `LowerThan`
  that is smaller. Recursive functions are reasoned about by sets of numbers for which
  a claim holds (`Recursion`, `InductBelow`): induction with the claim as an operator is
  not available, a set of the numbers that satisfy it is.
* `FollowUpProofs`: `LevelTheorem`, `NewServiceTheorem` (no run holds an id that was
  not given), `MonitorsTheorem` (with the former `ApartTheorem`) and `DuplicatesTheorem`,
  which count by the cardinality of finite sets: rows and requests about to insert one are no more than
  requests, because a look-up after an insertion finds it; and `PagedTheorem`, whose
  invariant ties the messages of an alert to the mark, to the run that is about to set
  it and to the runs that were lost (with `DuplicatesTheorem`, `CountedTheorem`).

Only model-checked: the liveness properties (`DownIsDetected`,
`RecoveryClosesEvent`, `ParentFollowsHost`, `DowntimeCloses`, `MemoryConverges`,
`IncidentClears`, `BackupConverges`, `WalkEnds`, `OverdueIsEscalated`,
`StatusConverges`, `LevelFollowsCertificate`), because the prover has no
backend for fairness and ENABLED. RECURSIVE operators are not used.

## Not modelled

* FiberAlarm: the simulator as a source of measurements, messages about
  degradation, flapping and trends, the renaming of an OLT (FiberRegistry has it
  for the tables).
* AgentAlarm: rows that `poll_snmp_bandwidth` adds to `agent_metrics`, changed
  thresholds, the rounding before the comparison of a restart.
* FiberRegistry: columns that no handler relates to another row, muting, reading
  pages.
* IfaceAlarm, MtHealth: history rows, how a rate comes from two samples, flap counts, the metrics that follow the
  temperature's pattern.
* SnmpCodec: counters of 64 bits, the formatting of values, specific traps other
  than 0 (a number above 127 is written into one octet and would be read as
  negative).
* AlertWorkflow: notes, filters, exports. ServiceCheck: latencies and uptime.
* SslWatch: a certificate that expires between the handshake and the reading of the
  clock, for which alone the level of expired ones could be reached.
* DbBackup: the contents of a backup, a directory that cannot be written or read.
  Retention of the tables beside `maintenance_windows` and `power_metrics`.
* The clock of the program may be set; only PowerMeter has that as an action.
* The PostgreSQL translation of `nms/database.py`: statements are refused or
  accepted as SQLite does.
* The evaluation of `nms/fiber.py`, the trend and the anomaly detection are
  arithmetic without state, the latter two statistics on floating point; FiberAlarm
  takes the evaluation as its input. Users, sessions and the second factor are
  outside of what this project is about. Pure I/O and stateless helpers, as the
  table above lists them.

## Plan

1. `FiberEval` (`nms/fiber.py`): the evaluation against a reference definition over
   bounded inputs, and its order in the thresholds, to discharge what FiberAlarm
   assumes of an evaluation. It needs a scene in `components`.
2. The dedupe of trend alerts (`nms/fiber_poll.py`), and the bandwidth poll as a
   second writer of `agent_metrics`.
