----------------------------- MODULE HostMonitor -----------------------------
(***************************************************************************)
(* The ping monitor of nms/monitor.py with the handlers of app.py that     *)
(* share its state.  check_network is a scheduled job of one instance that *)
(* runs in four phases: it loads the targets, pings them without a lock,   *)
(* reads the maintenance map without the lock, and then, under db_lock,    *)
(* turns the results into transitions of the in-process memory, rows of    *)
(* down_events and a queue of Telegram messages that it sends after the    *)
(* lock is released.  Request handlers run between any two phases, and the *)
(* process may be restarted between them; a restart rebuilds the memory    *)
(* from the unresolved rows of down_events.                                *)
(***************************************************************************)
EXTENDS Integers, SequencesExt

CONSTANTS
    Hosts,        \* addresses that may be registered in table hosts
    Olts,         \* OLT keys of table olts
    OltIp,        \* the address of each OLT, matched with a ping target
    Cooldown,     \* DOWN_COOLDOWN_S, in ticks of the clock
    Faults,       \* may SQLite refuse a statement or a commit as locked?
    MaxRestarts   \* bound on the number of restarts of the process

ASSUME HostAssumption == Hosts # {}
ASSUME OltAssumption == OltIp \in [Olts -> Hosts]
ASSUME CooldownAssumption == Cooldown \in Nat \ {0}
ASSUME FaultsAssumption == Faults \in BOOLEAN
ASSUME RestartAssumption == MaxRestarts \in Nat

VARIABLES
    hosts,               \* rows of table hosts
    down_events,         \* is_maintenance of the unresolved rows, by host
    maintenance,         \* hosts with a maintenance window open now
    reachable,           \* hosts that answer a ping now
    status_memory,       \* "absent" where the dictionary has no key
    down_since,          \* keys of the dictionary
    last_down_telegram,  \* ticks until the cooldown of the last DOWN ends
    fiber_parent_down,   \* OLT keys that suppress their ONTs' alarms (ping)
    pc,                  \* phase of check_network
    targets,             \* its local variables
    unanswered,          \* targets whose ping failed in this run
    maint_map,
    telegram_queue,      \* message queued for a host in this run
    refresh,             \* phase of refresh_fiber_parent_map
    down_ips,            \* its local variable
    announced,           \* history: hosts whose current outage was announced
    restarts             \* history: number of restarts

db     == <<hosts, down_events>>
memory == <<status_memory, down_since, last_down_telegram, fiber_parent_down>>
job    == <<pc, targets, unanswered, maint_map, telegram_queue>>
poll   == <<refresh, down_ips>>
world  == <<maintenance, reachable>>
vars   == <<db, memory, job, poll, world, announced, restarts>>

Phases  == {"idle", "loaded", "pinged", "mapped", "applied"}
Silence == [h \in Hosts |-> "none"]

TypeOK ==
    /\ hosts \subseteq Hosts
    /\ down_events \in [Hosts -> Seq({"plain", "maint"})]
    /\ maintenance \subseteq Hosts
    /\ reachable \subseteq Hosts
    /\ status_memory \in [Hosts -> {"absent", "up", "down"}]
    /\ down_since \subseteq Hosts
    /\ last_down_telegram \in [Hosts -> 0..Cooldown]
    /\ fiber_parent_down \subseteq Olts
    /\ pc \in Phases
    /\ targets \subseteq Hosts
    /\ unanswered \subseteq Hosts
    /\ maint_map \subseteq Hosts
    /\ telegram_queue \in [Hosts -> {"none", "DOWN", "PULIH"}]
    /\ refresh \in {"idle", "read"}
    /\ down_ips \subseteq Hosts
    /\ announced \subseteq Hosts
    /\ restarts \in 0..MaxRestarts

IsDown(h) == status_memory[h] = "down"

Init ==
    /\ hosts \in SUBSET Hosts
    /\ down_events = [h \in Hosts |-> <<>>]
    /\ maintenance = {}
    /\ reachable = Hosts
    /\ status_memory = [h \in Hosts |-> IF h \in hosts THEN "up" ELSE "absent"]
    /\ down_since = {}
    /\ last_down_telegram = [h \in Hosts |-> 0]
    /\ fiber_parent_down = {}
    /\ pc = "idle"
    /\ targets = {} /\ unanswered = {} /\ maint_map = {}
    /\ telegram_queue = Silence
    /\ refresh = "idle" /\ down_ips = {}
    /\ announced = {}
    /\ restarts = 0

-----------------------------------------------------------------------------
(* check_network, phase by phase                                           *)

\* The targets are read once; a target without a status starts as not down.
LoadTargets ==
    /\ pc = "idle"
    /\ hosts # {}
    /\ pc' = "loaded"
    /\ targets' = hosts
    /\ status_memory' = [h \in Hosts |->
          IF h \in hosts /\ status_memory[h] = "absent"
          THEN "up" ELSE status_memory[h]]
    /\ UNCHANGED <<db, down_since, last_down_telegram, fiber_parent_down,
                   unanswered, maint_map, telegram_queue, poll, world,
                   announced, restarts>>

\* The pool of ping threads has finished; ping_host turns every failure of
\* its own into a lost ping, so every target has a result.
PingTargets ==
    /\ pc = "loaded"
    /\ pc' = "pinged"
    /\ unanswered' = targets \ reachable
    /\ UNCHANGED <<db, memory, targets, maint_map, telegram_queue, poll, world,
                   announced, restarts>>

\* get_active_maintenance_map answers an empty map when the database fails.
ReadMaintenance ==
    /\ pc = "pinged"
    /\ pc' = "mapped"
    /\ \/ maint_map' = maintenance
       \/ Faults /\ maint_map' = {}
    /\ UNCHANGED <<db, memory, targets, unanswered, telegram_queue, poll, world,
                   announced, restarts>>

\* Mutant: a host in maintenance is not judged at all.
GoesDownOutsideMaintenance ==
    {h \in targets : h \in unanswered /\ ~IsDown(h) /\ h \notin maint_map}

GoesDown  == {h \in targets : h \in unanswered /\ ~IsDown(h)}
ComesUp   == {h \in targets : h \notin unanswered /\ IsDown(h)}

\* Recovery of an outage whose unresolved row was opened in maintenance; the
\* row is consulted only when the memory has lost the start of the outage.
WasMaintEvent(h) ==
    /\ h \notin down_since
    /\ down_events[h] # <<>>
    /\ Last(down_events[h]) = "maint"

\* A refused statement abandons the rest of that host's processing.
AnnounceDown(refused) ==
    {h \in GoesDown \ refused : h \notin maint_map /\ last_down_telegram[h] = 0}
AnnounceUp(refused) ==
    {h \in ComesUp \ refused : h \notin maint_map /\ ~WasMaintEvent(h)}

EventKind(h) == IF h \in maint_map THEN "maint" ELSE "plain"

\* Mutants: a row is inserted without looking for an unresolved one; no row is
\* inserted in maintenance; a row opened in maintenance is not resolved.
EventsWithoutSelect(refused) ==
    [h \in Hosts |->
        CASE h \in GoesDown \ refused -> Append(down_events[h], EventKind(h))
          [] h \in ComesUp \ refused  -> <<>>
          [] OTHER -> down_events[h]]
EventsOutsideMaintenance(refused) ==
    [h \in Hosts |->
        CASE h \in GoesDown \ refused /\ down_events[h] = <<>> /\ h \notin maint_map
               -> <<"plain">>
          [] h \in ComesUp \ refused -> <<>>
          [] OTHER -> down_events[h]]
EventsKeepMaintenance(refused) ==
    [h \in Hosts |->
        CASE h \in GoesDown \ refused /\ down_events[h] = <<>>
               -> <<EventKind(h)>>
          [] h \in ComesUp \ refused
               -> SelectSeq(down_events[h], LAMBDA kind : kind = "maint")
          [] OTHER -> down_events[h]]

EventsAfter(refused) ==
    [h \in Hosts |->
        CASE h \in GoesDown \ refused /\ down_events[h] = <<>>
               -> <<EventKind(h)>>
          [] h \in ComesUp \ refused -> <<>>
          [] OTHER -> down_events[h]]

StatusAfter ==
    [h \in Hosts |-> CASE h \in GoesDown -> "down"
                       [] h \in ComesUp  -> "up"
                       [] OTHER          -> status_memory[h]]

\* A DOWN that is announced registers the OLTs behind the host as parents, a
\* PULIH that is announced withdraws them.
ParentsAfter(refused) ==
    (fiber_parent_down \cup {o \in Olts : OltIp[o] \in AnnounceDown(refused)})
        \ {o \in Olts : OltIp[o] \in AnnounceUp(refused)}

\* The block under db_lock.  Memory and queue are changed host by host, ahead
\* of the commit: neither a refused statement nor a failed commit undoes them.
ApplyResults(refused, committed) ==
    /\ pc = "mapped"
    /\ pc' = "applied"
    /\ status_memory' = StatusAfter
    /\ down_since' = (down_since \cup GoesDown) \ ComesUp
    /\ last_down_telegram' = [h \in Hosts |->
          IF h \in AnnounceDown(refused) THEN Cooldown ELSE last_down_telegram[h]]
    /\ fiber_parent_down' = ParentsAfter(refused)
    /\ telegram_queue' = [h \in Hosts |->
          CASE h \in AnnounceDown(refused) -> "DOWN"
            [] h \in AnnounceUp(refused)   -> "PULIH"
            [] OTHER                       -> "none"]
    /\ down_events' = IF committed THEN EventsAfter(refused) ELSE down_events
    /\ announced' = (announced \cup AnnounceDown(refused)) \ ComesUp
    /\ UNCHANGED <<hosts, targets, unanswered, maint_map, poll, world, restarts>>

\* The queue is sent outside the lock; a channel that fails is only logged.
SendQueue ==
    /\ pc = "applied"
    /\ pc' = "idle"
    /\ telegram_queue' = Silence
    /\ targets' = {} /\ unanswered' = {} /\ maint_map' = {}
    /\ UNCHANGED <<db, memory, poll, world, announced, restarts>>

CheckNetwork ==
    \/ LoadTargets
    \/ PingTargets
    \/ ReadMaintenance
    \/ ApplyResults({}, TRUE)
    \/ /\ Faults
       /\ \E refused \in SUBSET targets, committed \in BOOLEAN :
             ApplyResults(refused, committed)
    \/ SendQueue

-----------------------------------------------------------------------------
(* refresh_fiber_parent_map, run by the fiber poll and by request threads   *)

RefreshRead ==
    /\ refresh = "idle"
    /\ refresh' = "read"
    /\ down_ips' = {h \in Hosts : IsDown(h)}
    /\ UNCHANGED <<db, memory, job, world, announced, restarts>>

\* Mutant: the refresh only adds parents.
RefreshWriteAddsOnly ==
    /\ refresh = "read"
    /\ refresh' = "idle"
    /\ down_ips' = {}
    /\ fiber_parent_down' =
          fiber_parent_down \cup {o \in Olts : OltIp[o] \in down_ips}
    /\ UNCHANGED <<db, status_memory, down_since, last_down_telegram, job, world,
                   announced, restarts>>

\* Keeps exactly the OLTs of the addresses read before, also when there are
\* none; when table olts cannot be read the map is left as it was.
RefreshWrite ==
    /\ refresh = "read"
    /\ refresh' = "idle"
    /\ down_ips' = {}
    /\ \/ fiber_parent_down' = {o \in Olts : OltIp[o] \in down_ips}
       \/ Faults /\ down_ips # {} /\ UNCHANGED fiber_parent_down
    /\ UNCHANGED <<db, status_memory, down_since, last_down_telegram, job, world,
                   announced, restarts>>

RefreshParents == RefreshRead \/ RefreshWrite

-----------------------------------------------------------------------------
(* Request handlers                                                         *)

\* api_add_host, and the imports that insert into table hosts.
AddHost(h) ==
    /\ h \notin hosts
    /\ hosts' = hosts \cup {h}
    /\ announced' = announced \ {h}
    /\ UNCHANGED <<down_events, memory, job, poll, world, restarts>>

\* api_delete_host drops the row and the host's memory, not its down_events.
DeleteHost(h) ==
    /\ h \in hosts
    /\ hosts' = hosts \ {h}
    /\ status_memory' = [status_memory EXCEPT ![h] = "absent"]
    /\ down_since' = down_since \ {h}
    /\ last_down_telegram' = [last_down_telegram EXCEPT ![h] = 0]
    /\ announced' = announced \ {h}
    /\ UNCHANGED <<down_events, fiber_parent_down, job, poll, world, restarts>>

\* Mutants: deleting an unresolved row leaves the memory, or the start, behind.
DeleteEventRowOnly(h, i) ==
    /\ i \in DOMAIN down_events[h]
    /\ down_events' = [down_events EXCEPT ![h] = RemoveAt(@, i)]
    /\ UNCHANGED <<hosts, memory, job, poll, world, announced, restarts>>
DeleteEventKeepsStart(h, i) ==
    /\ i \in DOMAIN down_events[h]
    /\ down_events' = [down_events EXCEPT ![h] = <<>>]
    /\ status_memory' = [status_memory EXCEPT ![h] = "up"]
    /\ announced' = announced \ {h}
    /\ UNCHANGED <<hosts, down_since, last_down_telegram, fiber_parent_down, job,
                   poll, world, restarts>>

\* delete_event of an unresolved row: when it was the last one the host is up
\* again as far as the memory is concerned.
DeleteEvent(h, i) ==
    /\ i \in DOMAIN down_events[h]
    /\ down_events' = [down_events EXCEPT ![h] = RemoveAt(@, i)]
    /\ IF Len(down_events[h]) = 1
       THEN /\ status_memory' = [status_memory EXCEPT ![h] = "up"]
            /\ down_since' = down_since \ {h}
            /\ announced' = announced \ {h}
       ELSE UNCHANGED <<status_memory, down_since, announced>>
    /\ UNCHANGED <<hosts, last_down_telegram, fiber_parent_down, job, poll,
                   world, restarts>>

\* clear_events
ClearEvents ==
    /\ down_events' = [h \in Hosts |-> <<>>]
    /\ status_memory' = [h \in Hosts |->
          IF status_memory[h] = "absent" THEN "absent" ELSE "up"]
    /\ down_since' = {}
    /\ announced' = {}
    /\ UNCHANGED <<hosts, last_down_telegram, fiber_parent_down, job, poll,
                   world, restarts>>

-----------------------------------------------------------------------------
(* Restart, time and the network                                            *)

\* Mutant: the unresolved rows are not read back.
RebuiltWithoutEvents ==
    [h \in Hosts |-> IF h \in hosts THEN "up" ELSE "absent"]

\* What rebuild_alarm_memory makes of the unresolved rows of a registered host.
RebuiltStatus ==
    [h \in Hosts |-> IF h \notin hosts THEN "absent"
                     ELSE IF down_events[h] # <<>> THEN "down" ELSE "up"]

\* The process dies at any point and starts again; the queue, the cooldowns
\* and the parent map die with it.  When the database cannot be read the
\* monitor starts with an empty memory, when only down_events cannot be read
\* with every host up.
Restart ==
    /\ restarts < MaxRestarts
    /\ restarts' = restarts + 1
    /\ \/ status_memory' = RebuiltStatus
       \/ /\ Faults
          /\ status_memory' \in {[h \in Hosts |-> "absent"],
                [h \in Hosts |-> IF h \in hosts THEN "up" ELSE "absent"]}
    /\ down_since' = {h \in Hosts : status_memory'[h] = "down"}
    /\ last_down_telegram' = [h \in Hosts |-> 0]
    /\ fiber_parent_down' = {}
    /\ pc' = "idle"
    /\ targets' = {} /\ unanswered' = {} /\ maint_map' = {}
    /\ telegram_queue' = Silence
    /\ refresh' = "idle" /\ down_ips' = {}
    /\ UNCHANGED <<db, world, announced>>

Tick ==
    /\ \E h \in Hosts : last_down_telegram[h] > 0
    /\ last_down_telegram' = [h \in Hosts |->
          IF last_down_telegram[h] > 0 THEN last_down_telegram[h] - 1 ELSE 0]
    /\ UNCHANGED <<db, status_memory, down_since, fiber_parent_down, job, poll,
                   world, announced, restarts>>

\* A window of host h is created or its time begins, is deleted or its time ends.
ToggleMaintenance(h) ==
    /\ maintenance' = IF h \in maintenance THEN maintenance \ {h}
                                           ELSE maintenance \cup {h}
    /\ UNCHANGED <<db, memory, job, poll, reachable, announced, restarts>>

ToggleLink(h) ==
    /\ reachable' = IF h \in reachable THEN reachable \ {h}
                                       ELSE reachable \cup {h}
    /\ UNCHANGED <<db, memory, job, poll, maintenance, announced, restarts>>

Handlers ==
    \/ \E h \in Hosts : AddHost(h) \/ DeleteHost(h)
    \/ \E h \in Hosts : \E i \in DOMAIN down_events[h] : DeleteEvent(h, i)
    \/ ClearEvents

Environment ==
    \/ Restart
    \/ Tick
    \/ \E h \in Hosts : ToggleMaintenance(h) \/ ToggleLink(h)

Next == CheckNetwork \/ RefreshParents \/ Handlers \/ Environment

Spec == Init /\ [][Next]_vars

\* The scheduler starts check_network every 30 s and the fiber poll, which
\* refreshes the parents, every 120 s; every ping has a timeout.
FairSpec == Spec /\ WF_vars(CheckNetwork) /\ WF_vars(RefreshParents)

-----------------------------------------------------------------------------
(* Properties                                                               *)

\* The start of an outage is remembered exactly as long as the host is held
\* to be down, whatever the database does.  So the branch of check_network
\* that asks the row for is_maintenance is never taken, and an outage opened
\* in maintenance is announced as recovered when the window has closed.
DownSinceMatches == \A h \in Hosts : h \in down_since <=> IsDown(h)

\* A host never has two unresolved rows in down_events, although the memory
\* that guards the insertion is lost, reset and rebuilt behind its back.
AtMostOneOpenEvent == \A h \in Hosts : Len(down_events[h]) <= 1

\* Memory and table each have one outage of a host at most, with one start,
\* whatever the database refuses.
OutageIsRemembered == DownSinceMatches /\ AtMostOneOpenEvent

\* While SQLite accepts the writes, a host held to be down has an unresolved
\* row in down_events: the monitor's memory can be rebuilt after a crash.
DownHasOpenEvent == \A h \in Hosts : IsDown(h) => down_events[h] # <<>>

\* While SQLite accepts the writes, the outage of a registered host is queued
\* for Telegram at most once, restarts between its start and its end included.
AnnouncedOnce ==
    [][\A h \in Hosts :
          telegram_queue[h] = "none" /\ telegram_queue'[h] = "DOWN"
             => h \notin announced]_vars

\* An outage survives restarts as one: its row is there to be read back, and
\* it is not announced a second time.
OutageSurvives == []DownHasOpenEvent /\ AnnouncedOnce

\* A registered host that stops answering, and does not answer again, is held
\* to be down after finitely many runs.
DownIsDetected ==
    \A h \in Hosts :
        (h \in hosts /\ h \notin reachable)
            ~> (IsDown(h) \/ h \in reachable \/ h \notin hosts)

\* A registered host held to be down that answers, and goes on answering, gets
\* its recovery recorded: no unresolved row of down_events is left behind.
RecoveryClosesEvent ==
    \A h \in Hosts :
        (h \in hosts /\ h \in reachable /\ IsDown(h))
            ~> (down_events[h] = <<>> \/ h \notin reachable \/ h \notin hosts)

\* The parents that suppress ONT alarms follow the hosts they stand for: an
\* OLT whose address is down becomes a parent, also when its DOWN was held
\* back by maintenance, cooldown or a restart, and one whose address is not
\* down stops being one, also when its host was deleted or its event erased.
ParentFollowsHost ==
    \A o \in Olts :
        /\ IsDown(OltIp[o]) ~> (o \in fiber_parent_down \/ ~IsDown(OltIp[o]))
        /\ o \in fiber_parent_down
              ~> (o \notin fiber_parent_down \/ IsDown(OltIp[o]))

\* "check_network also registers and unregisters directly so that there is no
\* race gap" (monitor.py, refresh_fiber_parent_map): no OLT becomes a parent
\* again while the PULIH message of its address is on its way.
NoParentBehindPulih ==
    [][\A o \in Olts :
          o \notin fiber_parent_down /\ o \in fiber_parent_down'
             => telegram_queue[OltIp[o]] # "PULIH"]_vars

\* Memory and table down_events implement the outage ledger.
Ledger == INSTANCE OutageLedger
    WITH opinion <- status_memory,
         open    <- {h \in Hosts : down_events[h] # <<>>}

\* While SQLite accepts the writes, every step of the monitor, its handlers and
\* its restarts is a step of the ledger or leaves it alone.
ImplementsLedger == Ledger!Spec
=============================================================================
