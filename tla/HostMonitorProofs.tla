--------------------------- MODULE HostMonitorProofs ---------------------------
(***************************************************************************)
(* Theorems about HostMonitor for any set of hosts and OLTs, any cooldown  *)
(* and any number of restarts.                                             *)
(***************************************************************************)
EXTENDS HostMonitor, SequenceTheorems, TLAPS

-----------------------------------------------------------------------------
(* The monitor is type correct, whatever the database does: in particular a *)
(* cooldown never leaves its range and a dictionary never gains a key that  *)
(* is not an address.                                                       *)

LEMMA ApplyType ==
    ASSUME TypeOK, NEW refused \in SUBSET targets, NEW committed \in BOOLEAN,
           ApplyResults(refused, committed)
    PROVE  TypeOK'
<1> USE CooldownAssumption DEF TypeOK
<1>1. GoesDown \subseteq Hosts /\ ComesUp \subseteq Hosts
  BY DEF GoesDown, ComesUp
<1>2. AnnounceDown(refused) \subseteq Hosts /\ AnnounceUp(refused) \subseteq Hosts
  BY <1>1 DEF AnnounceDown, AnnounceUp
<1>3. StatusAfter \in [Hosts -> {"absent", "up", "down"}]
  BY DEF StatusAfter
<1>4. ParentsAfter(refused) \subseteq Olts
  BY DEF ParentsAfter
<1>5. EventsAfter(refused) \in [Hosts -> Seq({"plain", "maint"})]
  <2> SUFFICES ASSUME NEW h \in Hosts PROVE EventsAfter(refused)[h] \in Seq({"plain", "maint"})
    BY DEF EventsAfter
  <2>1. <<EventKind(h)>> \in Seq({"plain", "maint"})
    BY DEF EventKind
  <2>2. <<>> \in Seq({"plain", "maint"}) /\ down_events[h] \in Seq({"plain", "maint"})
    OBVIOUS
  <2>3. QED
    BY <2>1, <2>2 DEF EventsAfter
<1>6. status_memory' \in [Hosts -> {"absent", "up", "down"}]
      /\ fiber_parent_down' \subseteq Olts
      /\ down_events' \in [Hosts -> Seq({"plain", "maint"})]
  BY <1>3, <1>4, <1>5 DEF ApplyResults
<1>7. last_down_telegram' \in [Hosts -> 0..Cooldown]
      /\ telegram_queue' \in [Hosts -> {"none", "DOWN", "PULIH"}]
  BY DEF ApplyResults
<1>8. down_since' \subseteq Hosts /\ announced' \subseteq Hosts
  BY <1>1, <1>2 DEF ApplyResults
<1>9. QED
  BY <1>6, <1>7, <1>8 DEF ApplyResults, poll, world, Phases

LEMMA RemoveAtType ==
    ASSUME NEW S, NEW s \in Seq(S), NEW i \in DOMAIN s
    PROVE  RemoveAt(s, i) \in Seq(S) /\ Len(RemoveAt(s, i)) = Len(s) - 1
<1> DEFINE before == SubSeq(s, 1, i - 1)
           after  == SubSeq(s, i + 1, Len(s))
<1>1. i \in 1..Len(s) /\ Len(s) \in Nat
  OBVIOUS
<1>2. before \in Seq(S) /\ Len(before) = i - 1
  BY <1>1
<1>3. after \in Seq(S) /\ Len(after) = Len(s) - i
  BY <1>1
<1>4. before \o after \in Seq(S) /\ Len(before \o after) = Len(before) + Len(after)
  <2> HIDE DEF before, after
  <2>1. QED
    BY <1>2, <1>3, ConcatProperties
<1>5. RemoveAt(s, i) = before \o after
  BY DEF RemoveAt
<1> HIDE DEF before, after
<1>6. QED
  BY <1>1, <1>2, <1>3, <1>4, <1>5

LEMMA DeleteEventType ==
    ASSUME TypeOK, NEW h \in Hosts, NEW i \in DOMAIN down_events[h],
           DeleteEvent(h, i)
    PROVE  TypeOK'
<1> USE DEF TypeOK
<1>1. RemoveAt(down_events[h], i) \in Seq({"plain", "maint"})
  BY RemoveAtType
<1>2. down_events' = [down_events EXCEPT ![h] = RemoveAt(down_events[h], i)]
  BY DEF DeleteEvent
<1>3. down_events' \in [Hosts -> Seq({"plain", "maint"})]
  BY <1>1, <1>2
<1>4. status_memory' \in [Hosts -> {"absent", "up", "down"}]
      /\ down_since' \subseteq Hosts /\ announced' \subseteq Hosts
  BY DEF DeleteEvent
<1>5. QED
  BY <1>3, <1>4 DEF DeleteEvent, job, poll, world

LEMMA TypeCorrectStep ==
    ASSUME TypeOK, [Next]_vars
    PROVE  TypeOK'
<1> USE CooldownAssumption, RestartAssumption
<1>1. CASE LoadTargets
  BY <1>1 DEF LoadTargets, TypeOK, db, poll, world, Phases
<1>2. CASE PingTargets
  BY <1>2 DEF PingTargets, TypeOK, db, memory, poll, world, Phases
<1>3. CASE ReadMaintenance
  BY <1>3 DEF ReadMaintenance, TypeOK, db, memory, poll, world, Phases
<1>4. ASSUME NEW refused \in SUBSET targets, NEW committed \in BOOLEAN,
             ApplyResults(refused, committed)
      PROVE  TypeOK'
  BY <1>4, ApplyType
<1>5. CASE SendQueue
  BY <1>5 DEF SendQueue, TypeOK, db, memory, poll, world, Phases, Silence
<1>6. CASE RefreshRead
  BY <1>6 DEF RefreshRead, TypeOK, db, memory, job, world
<1>7. CASE RefreshWrite
  BY <1>7 DEF RefreshWrite, TypeOK, db, job, world
<1>8. ASSUME NEW h \in Hosts, AddHost(h) PROVE TypeOK'
  BY <1>8 DEF AddHost, TypeOK, memory, job, poll, world
<1>9. ASSUME NEW h \in Hosts, DeleteHost(h) PROVE TypeOK'
  BY <1>9 DEF DeleteHost, TypeOK, job, poll, world
<1>10. ASSUME NEW h \in Hosts, NEW i \in DOMAIN down_events[h], DeleteEvent(h, i)
       PROVE  TypeOK'
  BY <1>10, DeleteEventType
<1>11. CASE ClearEvents
  <2>1. down_events' \in [Hosts -> Seq({"plain", "maint"})]
    BY <1>11 DEF ClearEvents
  <2>2. QED
    BY <1>11, <2>1 DEF ClearEvents, TypeOK, job, poll, world
<1>12. CASE Restart
  <2>1. status_memory' \in [Hosts -> {"absent", "up", "down"}]
    BY <1>12 DEF Restart, RebuiltStatus
  <2>2. QED
    BY <1>12, <2>1 DEF Restart, TypeOK, db, world, Phases, Silence
<1>13. CASE Tick
  BY <1>13 DEF Tick, TypeOK, db, job, poll, world
<1>14. ASSUME NEW h \in Hosts, ToggleMaintenance(h) PROVE TypeOK'
  BY <1>14 DEF ToggleMaintenance, TypeOK, db, memory, job, poll
<1>15. ASSUME NEW h \in Hosts, ToggleLink(h) PROVE TypeOK'
  BY <1>15 DEF ToggleLink, TypeOK, db, memory, job, poll
<1>16. CASE UNCHANGED vars
  BY <1>16 DEF vars, TypeOK, db, memory, job, poll, world
<1>17. {} \in SUBSET targets
  OBVIOUS
<1>18. QED
  BY <1>1, <1>2, <1>3, <1>4, <1>5, <1>6, <1>7, <1>8, <1>9, <1>10, <1>11, <1>12,
     <1>13, <1>14, <1>15, <1>16, <1>17
     DEF Next, CheckNetwork, RefreshParents, Handlers, Environment

\* Type correctness, for every instance.
THEOREM TypeCorrect == Spec => []TypeOK
<1>1. Init => TypeOK
  BY CooldownAssumption, RestartAssumption DEF Init, TypeOK, Phases, Silence
<1>2. TypeOK /\ [Next]_vars => TypeOK'
  BY TypeCorrectStep
<1>3. QED
  BY <1>1, <1>2, PTL DEF Spec

-----------------------------------------------------------------------------
(* The start of an outage is in down_since exactly while the host is down.  *)
(* Holds under database faults too: both are memory, changed ahead of it.   *)

LEMMA ApplyStatus ==
    ASSUME TypeOK, NEW refused, NEW committed,
           ApplyResults(refused, committed), NEW h \in Hosts
    PROVE  /\ IsDown(h)' <=> \/ h \in GoesDown
                             \/ IsDown(h) /\ h \notin ComesUp
           /\ h \in GoesDown => h \in targets /\ ~IsDown(h) /\ h \notin ComesUp
           /\ h \in ComesUp => h \in targets /\ IsDown(h)
BY DEF ApplyResults, StatusAfter, GoesDown, ComesUp, IsDown, TypeOK

THEOREM DownSinceTheorem == Spec => []DownSinceMatches
<1>1. Init => DownSinceMatches
  BY DEF Init, DownSinceMatches, IsDown
<1>2. TypeOK /\ DownSinceMatches /\ [Next]_vars => DownSinceMatches'
  <2> SUFFICES ASSUME TypeOK, DownSinceMatches, [Next]_vars, NEW h \in Hosts
               PROVE  (h \in down_since <=> IsDown(h))'
    BY DEF DownSinceMatches
  <2>0. h \in down_since <=> IsDown(h)
    BY DEF DownSinceMatches
  <2>1. ASSUME NEW refused \in SUBSET targets, NEW committed \in BOOLEAN,
               ApplyResults(refused, committed)
        PROVE  (h \in down_since <=> IsDown(h))'
    BY <2>0, <2>1, ApplyStatus DEF ApplyResults
  <2>2. CASE LoadTargets
    BY <2>0, <2>2 DEF LoadTargets, IsDown
  <2>3. ASSUME NEW g \in Hosts, DeleteHost(g)
        PROVE  (h \in down_since <=> IsDown(h))'
    BY <2>0, <2>3 DEF DeleteHost, IsDown, TypeOK
  <2>4. ASSUME NEW g \in Hosts, NEW i \in DOMAIN down_events[g], DeleteEvent(g, i)
        PROVE  (h \in down_since <=> IsDown(h))'
    BY <2>0, <2>4 DEF DeleteEvent, IsDown, TypeOK
  <2>5. CASE ClearEvents
    BY <2>0, <2>5 DEF ClearEvents, IsDown, TypeOK
  <2>6. CASE Restart
    BY <2>6 DEF Restart, IsDown
  <2>7. CASE UNCHANGED <<status_memory, down_since>>
    BY <2>0, <2>7 DEF IsDown
  <2>8. ASSUME \/ PingTargets \/ ReadMaintenance \/ SendQueue \/ RefreshRead
               \/ RefreshWrite \/ Tick \/ UNCHANGED vars
               \/ \E g \in Hosts : \/ AddHost(g) \/ ToggleMaintenance(g)
                                  \/ ToggleLink(g)
        PROVE  UNCHANGED <<status_memory, down_since>>
    BY <2>8 DEF PingTargets, ReadMaintenance, SendQueue, RefreshRead, RefreshWrite,
                Tick, AddHost, ToggleMaintenance, ToggleLink, vars, memory
  <2>9. {} \in SUBSET targets
    OBVIOUS
  <2>10. QED
    BY <2>1, <2>2, <2>3, <2>4, <2>5, <2>6, <2>7, <2>8, <2>9
       DEF Next, CheckNetwork, RefreshParents, Handlers, Environment
<1>3. QED
  BY <1>1, <1>2, TypeCorrect, PTL DEF Spec

-----------------------------------------------------------------------------
(* At most one unresolved row per host, database faults included.           *)

THEOREM OneEventTheorem == Spec => []AtMostOneOpenEvent
<1>1. Init => AtMostOneOpenEvent
  BY DEF Init, AtMostOneOpenEvent
<1>2. TypeOK /\ AtMostOneOpenEvent /\ [Next]_vars => AtMostOneOpenEvent'
  <2> SUFFICES ASSUME TypeOK, AtMostOneOpenEvent, [Next]_vars, NEW h \in Hosts
               PROVE  Len(down_events'[h]) <= 1
    BY DEF AtMostOneOpenEvent
  <2>0. Len(down_events[h]) <= 1
    BY DEF AtMostOneOpenEvent
  <2>1. ASSUME NEW refused \in SUBSET targets, NEW committed \in BOOLEAN,
               ApplyResults(refused, committed)
        PROVE  Len(down_events'[h]) <= 1
    <3> DEFINE e == EventsAfter(refused)[h]
    <3>0. GoesDown \cap ComesUp = {}
      BY DEF GoesDown, ComesUp
    <3>1. ASSUME h \in GoesDown \ refused /\ down_events[h] = <<>> PROVE Len(e) <= 1
      <4>1. e = <<EventKind(h)>>
        BY <3>0, <3>1 DEF EventsAfter
      <4>2. QED
        BY <4>1
    <3>2. ASSUME h \in ComesUp \ refused /\ ~(h \in GoesDown \ refused)
          PROVE  Len(e) <= 1
      <4>1. e = <<>>
        BY <3>2 DEF EventsAfter
      <4>2. QED
        BY <4>1
    <3>3. ASSUME ~(h \in GoesDown \ refused /\ down_events[h] = <<>>),
                 h \notin ComesUp \ refused
          PROVE  Len(e) <= 1
      <4>1. e = down_events[h]
        BY <3>3 DEF EventsAfter
      <4>2. QED
        BY <4>1, <2>0
    <3>4. Len(e) <= 1
      BY <3>0, <3>1, <3>2, <3>3
    <3>5. QED
      BY <2>0, <2>1, <3>4 DEF ApplyResults
  <2>2. ASSUME NEW g \in Hosts, NEW i \in DOMAIN down_events[g], DeleteEvent(g, i)
        PROVE  Len(down_events'[h]) <= 1
    <3>1. down_events' = [down_events EXCEPT ![g] = RemoveAt(down_events[g], i)]
      BY <2>2 DEF DeleteEvent
    <3>2. Len(RemoveAt(down_events[g], i)) = Len(down_events[g]) - 1
      BY RemoveAtType DEF TypeOK
    <3>3. Len(down_events[g]) \in Nat /\ Len(down_events[g]) <= 1
      BY DEF TypeOK, AtMostOneOpenEvent
    <3>4. QED
      BY <3>1, <3>2, <3>3, <2>0 DEF TypeOK
  <2>3. CASE ClearEvents
    BY <2>3 DEF ClearEvents
  <2>4. CASE UNCHANGED down_events
    BY <2>0, <2>4
  <2>5. ASSUME \/ LoadTargets \/ PingTargets \/ ReadMaintenance \/ SendQueue
               \/ RefreshRead \/ RefreshWrite \/ Restart \/ Tick \/ UNCHANGED vars
               \/ \E g \in Hosts : \/ AddHost(g) \/ DeleteHost(g)
                                  \/ ToggleMaintenance(g) \/ ToggleLink(g)
        PROVE  UNCHANGED down_events
    BY <2>5 DEF LoadTargets, PingTargets, ReadMaintenance, SendQueue, RefreshRead,
                RefreshWrite, Restart, Tick, AddHost, DeleteHost, ToggleMaintenance,
                ToggleLink, vars, db
  <2>6. {} \in SUBSET targets
    OBVIOUS
  <2>7. QED
    BY <2>1, <2>2, <2>3, <2>4, <2>5, <2>6
       DEF Next, CheckNetwork, RefreshParents, Handlers, Environment
<1>3. QED
  BY <1>1, <1>2, TypeCorrect, PTL DEF Spec

-----------------------------------------------------------------------------
(* What holds while SQLite accepts the writes.  DownHasOpenEvent is inductive; *)
(* AnnouncedBacked strengthens AnnouncedOnce: an announced outage is still     *)
(* held to be going on, unless its host was unregistered under a running check. *)

AnnouncedBacked ==
    \A h \in announced : IsDown(h) \/ (h \notin hosts /\ h \notin targets)

\* The effect of the locked block when every statement and the commit succeed.
LEMMA ApplyEvents ==
    ASSUME TypeOK, ApplyResults({}, TRUE), NEW h \in Hosts
    PROVE  down_events'[h] # <<>> <=>
               (h \in GoesDown \/ down_events[h] # <<>>) /\ h \notin ComesUp
<1>1. GoesDown \cap ComesUp = {}
  BY DEF GoesDown, ComesUp
<1>2. down_events'[h] = EventsAfter({})[h]
  BY DEF ApplyResults
<1>3. CASE h \in GoesDown /\ down_events[h] = <<>>
  BY <1>1, <1>2, <1>3 DEF EventsAfter
<1>4. CASE h \in ComesUp
  BY <1>1, <1>2, <1>4 DEF EventsAfter
<1>5. CASE ~(h \in GoesDown /\ down_events[h] = <<>>) /\ h \notin ComesUp
  BY <1>2, <1>5 DEF EventsAfter
<1>6. QED
  BY <1>3, <1>4, <1>5

\* Deleting a row: the memory is reset exactly when no row is left.
LEMMA DeleteEventLeft ==
    ASSUME TypeOK, NEW g \in Hosts, NEW i \in DOMAIN down_events[g],
           DeleteEvent(g, i), NEW h \in Hosts
    PROVE  /\ h # g => down_events'[h] = down_events[h]
                       /\ status_memory'[h] = status_memory[h]
           /\ down_events[g] # <<>>
           /\ down_events'[g] = <<>> => status_memory'[g] = "up" /\ g \notin announced'
           /\ down_events'[g] # <<>> => UNCHANGED <<status_memory, announced>>
           /\ announced' \subseteq announced
<1>1. down_events[g] \in Seq({"plain", "maint"}) /\ Len(down_events[g]) \in Nat
  BY DEF TypeOK
<1>2. down_events'[g] = RemoveAt(down_events[g], i)
  BY DEF DeleteEvent, TypeOK
<1>3. Len(down_events'[g]) = Len(down_events[g]) - 1
      /\ down_events'[g] \in Seq({"plain", "maint"})
  BY <1>1, <1>2, RemoveAtType
<1>4. down_events'[g] = <<>> <=> Len(down_events[g]) = 1
  <2>1. down_events'[g] = <<>> <=> Len(down_events'[g]) = 0
    BY <1>3, EmptySeq
  <2>2. QED
    BY <1>1, <1>3, <2>1
<1>5. down_events[g] # <<>>
  BY <1>1, <1>3
<1>6. QED
  BY <1>4, <1>5 DEF DeleteEvent, TypeOK

LEMMA RecordedStep ==
    ASSUME ~Faults, TypeOK, DownHasOpenEvent, [Next]_vars
    PROVE  DownHasOpenEvent'
<1> SUFFICES ASSUME NEW h \in Hosts, IsDown(h)' PROVE down_events'[h] # <<>>
  BY DEF DownHasOpenEvent
<1>0. IsDown(h) => down_events[h] # <<>>
  BY DEF DownHasOpenEvent
<1>1. CASE ApplyResults({}, TRUE)
  BY <1>0, <1>1, ApplyStatus, ApplyEvents
<1>2. CASE LoadTargets
  BY <1>0, <1>2 DEF LoadTargets, IsDown, db
<1>3. ASSUME NEW g \in Hosts, DeleteHost(g) PROVE down_events'[h] # <<>>
  BY <1>0, <1>3 DEF DeleteHost, IsDown, TypeOK
<1>4. ASSUME NEW g \in Hosts, NEW i \in DOMAIN down_events[g], DeleteEvent(g, i)
      PROVE  down_events'[h] # <<>>
  BY <1>0, <1>4, DeleteEventLeft DEF IsDown
<1>5. CASE ClearEvents
  BY <1>5 DEF ClearEvents, IsDown
<1>6. CASE Restart
  BY <1>6 DEF Restart, RebuiltStatus, IsDown, db
<1>7. CASE UNCHANGED <<status_memory, down_events>>
  BY <1>0, <1>7 DEF IsDown
<1>8. ASSUME \/ PingTargets \/ ReadMaintenance \/ SendQueue \/ RefreshRead
             \/ RefreshWrite \/ Tick \/ UNCHANGED vars
             \/ \E g \in Hosts : \/ AddHost(g) \/ ToggleMaintenance(g)
                                \/ ToggleLink(g)
      PROVE  UNCHANGED <<status_memory, down_events>>
  BY <1>8 DEF PingTargets, ReadMaintenance, SendQueue, RefreshRead, RefreshWrite,
              Tick, AddHost, ToggleMaintenance, ToggleLink, vars, memory, db
<1>9. QED
  BY <1>1, <1>2, <1>3, <1>4, <1>5, <1>6, <1>7, <1>8
     DEF Next, CheckNetwork, RefreshParents, Handlers, Environment

\* An outage the monitor believes in is on record, so it survives a crash.
THEOREM RecordedTheorem == ASSUME ~Faults PROVE Spec => []DownHasOpenEvent
<1>1. Init => DownHasOpenEvent
  BY DEF Init, DownHasOpenEvent, IsDown
<1>2. TypeOK /\ DownHasOpenEvent /\ [Next]_vars => DownHasOpenEvent'
  BY RecordedStep
<1>3. QED
  BY <1>1, <1>2, TypeCorrect, PTL DEF Spec

LEMMA BackedStep ==
    ASSUME ~Faults, TypeOK, DownHasOpenEvent, AnnouncedBacked, [Next]_vars
    PROVE  AnnouncedBacked'
<1> SUFFICES ASSUME NEW h \in announced', h \in Hosts
             PROVE  (IsDown(h) \/ (h \notin hosts /\ h \notin targets))'
  <2>1. announced' \subseteq Hosts
    BY TypeCorrectStep DEF TypeOK
  <2>2. QED
    BY <2>1 DEF AnnouncedBacked
<1>0. h \in announced => IsDown(h) \/ (h \notin hosts /\ h \notin targets)
  BY DEF AnnouncedBacked
<1>1. CASE ApplyResults({}, TRUE)
  <2>1. AnnounceDown({}) \subseteq GoesDown
    BY DEF AnnounceDown
  <2>2. QED
    BY <1>0, <1>1, <2>1, ApplyStatus DEF ApplyResults
<1>2. CASE LoadTargets
  BY <1>0, <1>2 DEF LoadTargets, IsDown, db
<1>3. CASE SendQueue
  BY <1>0, <1>3 DEF SendQueue, IsDown, db, memory
<1>4. ASSUME NEW g \in Hosts, AddHost(g)
      PROVE  (IsDown(h) \/ (h \notin hosts /\ h \notin targets))'
  BY <1>0, <1>4 DEF AddHost, IsDown, memory, job
<1>5. ASSUME NEW g \in Hosts, DeleteHost(g)
      PROVE  (IsDown(h) \/ (h \notin hosts /\ h \notin targets))'
  BY <1>0, <1>5 DEF DeleteHost, IsDown, TypeOK, job
<1>6. ASSUME NEW g \in Hosts, NEW i \in DOMAIN down_events[g], DeleteEvent(g, i)
      PROVE  (IsDown(h) \/ (h \notin hosts /\ h \notin targets))'
  <2>1. UNCHANGED <<hosts, targets>>
    BY <1>6 DEF DeleteEvent, job
  <2>2. QED
    BY <1>0, <1>6, <2>1, DeleteEventLeft DEF IsDown
<1>7. CASE ClearEvents
  BY <1>7 DEF ClearEvents
<1>8. CASE Restart
  <2>1. h \in hosts /\ h \in announced => down_events[h] # <<>>
    BY <1>0 DEF DownHasOpenEvent
  <2>2. QED
    BY <1>8, <2>1 DEF Restart, RebuiltStatus, IsDown, db
<1>9. CASE UNCHANGED <<status_memory, announced, hosts, targets>>
  BY <1>0, <1>9 DEF IsDown
<1>10. ASSUME \/ PingTargets \/ ReadMaintenance \/ RefreshRead \/ RefreshWrite
              \/ Tick \/ UNCHANGED vars
              \/ \E g \in Hosts : ToggleMaintenance(g) \/ ToggleLink(g)
       PROVE  UNCHANGED <<status_memory, announced, hosts, targets>>
  BY <1>10 DEF PingTargets, ReadMaintenance, RefreshRead, RefreshWrite, Tick,
               ToggleMaintenance, ToggleLink, vars, memory, db, job
<1>11. QED
  BY <1>1, <1>2, <1>3, <1>4, <1>5, <1>6, <1>7, <1>8, <1>9, <1>10
     DEF Next, CheckNetwork, RefreshParents, Handlers, Environment

LEMMA BackedInvariant == ASSUME ~Faults PROVE Spec => []AnnouncedBacked
<1>1. Init => AnnouncedBacked
  BY DEF Init, AnnouncedBacked
<1>2. TypeOK /\ DownHasOpenEvent /\ AnnouncedBacked /\ [Next]_vars => AnnouncedBacked'
  BY BackedStep
<1>3. QED
  BY <1>1, <1>2, TypeCorrect, RecordedTheorem, PTL DEF Spec

\* The outage of a registered host is announced at most once.
THEOREM AnnouncedOnceTheorem == ASSUME ~Faults PROVE Spec => AnnouncedOnce
<1> DEFINE Once == \A h \in Hosts :
                      telegram_queue[h] = "none" /\ telegram_queue'[h] = "DOWN"
                         => h \notin announced
<1>1. TypeOK /\ AnnouncedBacked /\ [Next]_vars => Once
  <2> SUFFICES ASSUME TypeOK, AnnouncedBacked, [Next]_vars, NEW h \in Hosts,
                      telegram_queue[h] = "none", telegram_queue'[h] = "DOWN"
               PROVE  h \notin announced
    OBVIOUS
  <2>1. CASE ApplyResults({}, TRUE)
    <3>1. h \in AnnounceDown({})
      BY <2>1 DEF ApplyResults
    <3>2. h \in GoesDown
      BY <3>1 DEF AnnounceDown
    <3>3. QED
      BY <3>2 DEF GoesDown, AnnouncedBacked
  <2>2. CASE UNCHANGED telegram_queue \/ telegram_queue' = Silence
    BY <2>2 DEF Silence
  <2>3. ASSUME \/ LoadTargets \/ PingTargets \/ ReadMaintenance \/ SendQueue
               \/ RefreshRead \/ RefreshWrite \/ ClearEvents \/ Restart \/ Tick
               \/ UNCHANGED vars
               \/ \E g \in Hosts : \/ AddHost(g) \/ DeleteHost(g)
                                  \/ ToggleMaintenance(g) \/ ToggleLink(g)
                                  \/ \E i \in DOMAIN down_events[g] : DeleteEvent(g, i)
        PROVE  UNCHANGED telegram_queue \/ telegram_queue' = Silence
    BY <2>3 DEF LoadTargets, PingTargets, ReadMaintenance, SendQueue, RefreshRead,
                RefreshWrite, ClearEvents, Restart, Tick, AddHost, DeleteHost,
                DeleteEvent, ToggleMaintenance, ToggleLink, vars, job
  <2>4. QED
    BY <2>1, <2>2, <2>3
       DEF Next, CheckNetwork, RefreshParents, Handlers, Environment
<1>2. TypeOK /\ AnnouncedBacked /\ [Next]_vars => [Once]_vars
  BY <1>1
<1>3. QED
  BY <1>2, TypeCorrect, BackedInvariant, PTL DEF Spec, AnnouncedOnce

-----------------------------------------------------------------------------
(* The monitor implements the outage ledger.                                *)

OnRecord == {h \in Hosts : down_events[h] # <<>>}

LEMMA LedgerStep ==
    ASSUME ~Faults, TypeOK, DownHasOpenEvent, [Next]_vars
    PROVE  [Ledger!Next]_(Ledger!ledger)
<1> SUFFICES Ledger!Next \/ UNCHANGED <<status_memory, OnRecord>>
  BY DEF Ledger!ledger, OnRecord
<1>1. CASE ApplyResults({}, TRUE)
  <2>1. GoesDown \in SUBSET Hosts /\ ComesUp \in SUBSET Hosts
    BY DEF GoesDown, ComesUp, TypeOK
  <2>2. \A h \in GoesDown : status_memory[h] # "down"
    BY DEF GoesDown, IsDown
  <2>3. \A h \in ComesUp : status_memory[h] = "down"
    BY DEF ComesUp, IsDown
  <2>4. status_memory' = [h \in Hosts |-> IF h \in GoesDown THEN "down"
                             ELSE IF h \in ComesUp THEN "up" ELSE status_memory[h]]
    <3>1. GoesDown \cap ComesUp = {}
      BY DEF GoesDown, ComesUp
    <3>2. \A h \in Hosts : StatusAfter[h] =
             IF h \in GoesDown THEN "down"
             ELSE IF h \in ComesUp THEN "up" ELSE status_memory[h]
      BY <3>1 DEF StatusAfter
    <3>3. QED
      BY <1>1, <3>2 DEF ApplyResults, StatusAfter
  <2>5. OnRecord' = (OnRecord \cup GoesDown) \ ComesUp
    BY <1>1, <2>1, ApplyEvents DEF OnRecord
  <2>6. PICK D \in SUBSET Hosts, U \in SUBSET Hosts : D = GoesDown /\ U = ComesUp
    BY <2>1
  <2>7. Ledger!Judge(D, U)
    BY <2>2, <2>3, <2>4, <2>5, <2>6 DEF Ledger!Judge, OnRecord
  <2>8. QED
    BY <2>7 DEF Ledger!Next
<1>2. CASE LoadTargets
  <2> DEFINE W == {h \in hosts : status_memory[h] = "absent"}
  <2>1. W \in SUBSET Hosts
    BY DEF TypeOK
  <2>2. Ledger!Watch(W)
    BY <1>2 DEF LoadTargets, Ledger!Watch, db
  <2>3. QED
    BY <2>1, <2>2 DEF Ledger!Next
<1>3. ASSUME NEW g \in Hosts, DeleteHost(g) PROVE Ledger!Next
  <2>1. Ledger!Forget(g)
    BY <1>3 DEF DeleteHost, Ledger!Forget
  <2>2. QED
    BY <2>1 DEF Ledger!Next
<1>4. ASSUME NEW g \in Hosts, NEW i \in DOMAIN down_events[g], DeleteEvent(g, i)
      PROVE  Ledger!Next \/ UNCHANGED <<status_memory, OnRecord>>
  <2>1. CASE down_events'[g] = <<>>
    <3>1. OnRecord' = OnRecord \ {g}
      BY <1>4, <2>1, DeleteEventLeft DEF OnRecord
    <3>2. status_memory' = [h \in Hosts |-> IF h \in {g} THEN "up" ELSE status_memory[h]]
      <4>1. status_memory' = [status_memory EXCEPT ![g] = "up"]
            \/ UNCHANGED status_memory
        BY <1>4 DEF DeleteEvent
      <4>2. status_memory'[g] = "up"
        BY <1>4, <2>1, DeleteEventLeft
      <4>3. QED
        BY <4>1, <4>2 DEF TypeOK
    <3>3. Ledger!Strike({g})
      BY <3>1, <3>2 DEF Ledger!Strike, OnRecord
    <3>4. QED
      BY <3>3 DEF Ledger!Next
  <2>2. CASE down_events'[g] # <<>>
    BY <1>4, <2>2, DeleteEventLeft DEF OnRecord
  <2>3. QED
    BY <2>1, <2>2
<1>5. CASE ClearEvents
  <2> DEFINE K == {h \in OnRecord : status_memory[h] # "absent"}
  <2>1. OnRecord' = OnRecord \ OnRecord
    BY <1>5 DEF ClearEvents, OnRecord
  <2>2. status_memory' = [h \in Hosts |-> IF h \in K THEN "up" ELSE status_memory[h]]
    BY <1>5 DEF ClearEvents, OnRecord, DownHasOpenEvent, IsDown, TypeOK
  <2>3. \A h \in OnRecord : status_memory'[h] # "down"
    BY <1>5 DEF ClearEvents, OnRecord
  <2>4. K \in SUBSET OnRecord /\ OnRecord \in SUBSET Hosts
    BY DEF OnRecord
  <2>5. PICK E \in SUBSET Hosts : E = OnRecord
    BY <2>4
  <2>6. Ledger!Strike(E)
    BY <2>1, <2>2, <2>3, <2>4, <2>5 DEF Ledger!Strike, OnRecord
  <2>7. QED
    BY <2>6 DEF Ledger!Next
<1>6. CASE Restart
  <2>1. \A h \in Hosts : RebuiltStatus[h] =
           IF h \notin hosts THEN "absent" ELSE IF h \in OnRecord THEN "down" ELSE "up"
    BY DEF RebuiltStatus, OnRecord
  <2>2. Ledger!Recall(hosts)
    BY <1>6, <2>1 DEF Restart, RebuiltStatus, Ledger!Recall, OnRecord, db
  <2>3. QED
    BY <2>2 DEF Ledger!Next, TypeOK
<1>7. ASSUME \/ PingTargets \/ ReadMaintenance \/ SendQueue \/ RefreshRead
             \/ RefreshWrite \/ Tick \/ UNCHANGED vars
             \/ \E g \in Hosts : \/ AddHost(g) \/ ToggleMaintenance(g)
                                \/ ToggleLink(g)
      PROVE  UNCHANGED <<status_memory, OnRecord>>
  BY <1>7 DEF PingTargets, ReadMaintenance, SendQueue, RefreshRead, RefreshWrite,
              Tick, AddHost, ToggleMaintenance, ToggleLink, vars, memory, db, OnRecord
<1>8. QED
  BY <1>1, <1>2, <1>3, <1>4, <1>5, <1>6, <1>7
     DEF Next, CheckNetwork, RefreshParents, Handlers, Environment

\* Every step of the monitor, its handlers and its restarts is a step of the
\* outage ledger or a stutter, as long as SQLite accepts the writes.
THEOREM LedgerTheorem == ASSUME ~Faults PROVE Spec => ImplementsLedger
<1>1. Init => Ledger!Init
  BY DEF Init, Ledger!Init
<1>2. TypeOK /\ DownHasOpenEvent /\ [Next]_vars => [Ledger!Next]_(Ledger!ledger)
  BY LedgerStep
<1>3. QED
  BY <1>1, <1>2, TypeCorrect, RecordedTheorem, PTL
     DEF Spec, ImplementsLedger, Ledger!Spec

\* Both facts about what is remembered of an outage, for any hosts, restarts
\* and refused writes (nms/monitor.py:176-342).
THEOREM RememberedTheorem == Spec => []OutageIsRemembered
<1>1. DownSinceMatches /\ AtMostOneOpenEvent => OutageIsRemembered
  BY DEF OutageIsRemembered
<1>2. QED
  BY <1>1, DownSinceTheorem, OneEventTheorem, PTL

\* While SQLite accepts the writes, an outage is recorded and announced once,
\* for any hosts and restarts (nms/monitor.py:176-350, app.py:959-1059).
THEOREM SurvivesTheorem == ASSUME ~Faults PROVE Spec => OutageSurvives
BY RecordedTheorem, AnnouncedOnceTheorem DEF OutageSurvives
=============================================================================
