------------------------------ MODULE PowerMeter ------------------------------
(***************************************************************************)
(* Power readings of one host (nms/power.py, app.py): the job and the      *)
(* requests that poll its power_oid, and those that hand in a reading,     *)
(* each note the time, wait for db_lock, and store a row with the energy   *)
(* since the row before, the mean of the two readings times the time       *)
(* between them.  Energies are doubled here, to keep them whole.           *)
(***************************************************************************)
EXTENDS Integers, Sequences

CONSTANTS
    Recorders,    \* the job and the requests
    RawReadings,  \* what the meter answers
    HandIns,      \* readings handed in: watts, or none with a voltage only
    Scales,       \* power_scale
    GapMax,       \* hours that one row accounts for at most
    Retention,    \* hours that rows are kept
    MaxClock,     \* bound on the local time
    MaxReadings,  \* bound on the rows ever stored
    MaxSlips      \* bound on the times the clock is set back

ASSUME PowerAssumption ==
    /\ GapMax \in Nat /\ Retention \in Nat
    /\ MaxClock \in Nat /\ MaxReadings \in Nat /\ MaxSlips \in Nat
    /\ RawReadings \subseteq Int /\ Scales \subseteq Nat
    /\ \A h \in HandIns : h \in Seq(Int) /\ Len(h) <= 1

VARIABLES
    clock,      \* local time
    metrics,    \* power_metrics of the host, by id: [time, watts, energy]
    lastId,     \* AUTOINCREMENT: the id of the row stored last
    scale,      \* hosts.power_scale, none while there is no power_oid
    recorder,   \* [at, scale, watts, time] of every recorder
    overtaken,  \* history: a row was stored after one of a later time was
    slips       \* history: times the clock was set back

powerVars == <<clock, metrics, lastId, scale, recorder, overtaken, slips>>

Idle == [at |-> "idle", scale |-> 1, watts |-> << >>, time |-> 0]

PowerInit ==
    /\ clock = 0 /\ metrics = << >> /\ lastId = 0 /\ scale = << >>
    /\ recorder = [r \in Recorders |-> Idle]
    /\ overtaken = FALSE /\ slips = 0

-----------------------------------------------------------------------------
PowerTick ==
    /\ clock < MaxClock /\ clock' = clock + 1
    /\ UNCHANGED <<metrics, lastId, scale, recorder, overtaken, slips>>

ClockSetBack ==
    /\ clock > 0 /\ slips < MaxSlips
    /\ clock' = clock - 1 /\ slips' = slips + 1
    /\ UNCHANGED <<metrics, lastId, scale, recorder, overtaken>>

SetPowerOid(s) ==
    /\ scale' = s
    /\ UNCHANGED <<clock, metrics, lastId, recorder, overtaken, slips>>

Move(r, state) ==
    /\ recorder' = [recorder EXCEPT ![r] = state]
    /\ UNCHANGED <<clock, scale, slips>>

\* The host's scale is read before it is asked.
AskMeter(r) ==
    /\ recorder[r] = Idle /\ scale # << >>
    /\ Move(r, [Idle EXCEPT !.at = "asked", !.scale = scale[1]])
    /\ UNCHANGED <<metrics, lastId, overtaken>>

Stamped(watts) == [Idle EXCEPT !.at = "stamped", !.watts = watts, !.time = clock]

MeterAnswers(r, raw) ==
    /\ recorder[r].at = "asked"
    /\ Move(r, Stamped(<<raw * recorder[r].scale>>))
    /\ UNCHANGED <<metrics, lastId, overtaken>>

HandIn(r, watts) ==
    /\ recorder[r] = Idle
    /\ Move(r, Stamped(watts))
    /\ UNCHANGED <<metrics, lastId, overtaken>>

\* No answer, no number, or a row the database refuses.
GiveUp(r) ==
    /\ recorder[r] # Idle
    /\ Move(r, Idle)
    /\ UNCHANGED <<metrics, lastId, overtaken>>

\* Mutant: the oldest row is taken for the row before.
PreviousOldest == metrics[CHOOSE i \in DOMAIN metrics : \A j \in DOMAIN metrics : i <= j]
\* ORDER BY id DESC LIMIT 1
Previous == metrics[CHOOSE i \in DOMAIN metrics : \A j \in DOMAIN metrics : j <= i]

Gap(from, to) ==
    IF to <= from THEN 0 ELSE IF to - from > GapMax THEN GapMax ELSE to - from

Energy(watts, time) ==
    IF DOMAIN metrics = {} THEN 0
    ELSE IF Previous.watts = << >> \/ watts = << >> THEN 0
    ELSE IF Previous.watts[1] + watts[1] < 0 THEN 0
    ELSE (Previous.watts[1] + watts[1]) * Gap(Previous.time, time)

\* record_power_metric under db_lock.
StoreMetric(r) ==
    LET w == recorder[r].watts
        t == recorder[r].time
    IN /\ recorder[r].at = "stamped"
       /\ lastId < MaxReadings
       /\ lastId' = lastId + 1
       /\ metrics' = [i \in DOMAIN metrics \cup {lastId + 1} |->
                         IF i = lastId + 1
                         THEN [time |-> t, watts |-> w, energy |-> Energy(w, t)]
                         ELSE metrics[i]]
       /\ overtaken' = (overtaken \/ \E o \in Recorders :
                            recorder[o].at = "stamped" /\ recorder[o].time < t)
       /\ Move(r, Idle)

\* cleanup_old_data deletes by the time of a row, not by its id.
Recent == {i \in DOMAIN metrics : metrics[i].time >= clock - Retention}

CleanMetrics ==
    /\ Recent # DOMAIN metrics
    /\ metrics' = [i \in Recent |-> metrics[i]]
    /\ UNCHANGED <<clock, lastId, scale, recorder, overtaken, slips>>

PowerNext ==
    \/ PowerTick \/ ClockSetBack \/ CleanMetrics
    \/ \E s \in {<<n>> : n \in Scales} \cup {<< >>} : SetPowerOid(s)
    \/ \E r \in Recorders :
          \/ AskMeter(r) \/ GiveUp(r) \/ StoreMetric(r)
          \/ \E raw \in RawReadings : MeterAnswers(r, raw)
          \/ \E watts \in HandIns : HandIn(r, watts)

PowerSpec == PowerInit /\ [][PowerNext]_powerVars

-----------------------------------------------------------------------------
(* Properties                                                               *)

Watts == {w \in Seq(Int) : Len(w) <= 1}
Metric == [time : 0..MaxClock, watts : Watts, energy : Nat]

PowerTypeOK ==
    /\ clock \in 0..MaxClock /\ slips \in 0..MaxSlips /\ overtaken \in BOOLEAN
    /\ lastId \in 0..MaxReadings /\ scale \in {<<n>> : n \in Scales} \cup {<< >>}
    /\ DOMAIN metrics \subseteq 1..lastId
    /\ metrics = [i \in DOMAIN metrics |-> metrics[i]]
    /\ \A i \in DOMAIN metrics : metrics[i] \in Metric
    /\ recorder \in [Recorders -> [at : {"idle", "asked", "stamped"}, scale : Nat,
                                   watts : Watts, time : 0..MaxClock]]

\* The highest reading in the rows from i to j, and 0 if none is above it.
ReadingsOf(i, j) ==
    {metrics[k].watts[1] : k \in {k \in DOMAIN metrics \cap i..j : metrics[k].watts # << >>}}
Peak(i, j) ==
    CHOOSE p \in {0} \cup ReadingsOf(i, j) : \A w \in {0} \cup ReadingsOf(i, j) : w <= p

\* The energy in the rows after i and up to j.
EnergyOf(k) == IF k \in DOMAIN metrics THEN metrics[k].energy ELSE 0
EnergyAfter(i) ==
    LET sum[k \in Nat] == IF k <= i THEN 0 ELSE sum[k - 1] + EnergyOf(k) IN sum
Total(i, j) == EnergyAfter(i)[j]

(* Between any two rows no more energy is accounted for than the highest   *)
(* reading makes in the time between them, and in none more than GapMax    *)
(* hours of it, whoever polls beside whom and whatever rows are cleaned    *)
(* away.  The exceptions, where an hour is counted twice: a recorder that  *)
(* waited for db_lock while one that came later stored its row, and a      *)
(* clock that was set back.                                                *)
EnergyBounded ==
    slips = 0 /\ ~overtaken =>
        \A i, j \in DOMAIN metrics : i < j =>
            /\ metrics[j].energy <= 2 * Peak(i, j) * GapMax
            /\ Total(i, j) <= 2 * Peak(i, j) * (metrics[j].time - metrics[i].time)
=============================================================================
