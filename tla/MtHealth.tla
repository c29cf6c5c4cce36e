------------------------------- MODULE MtHealth -------------------------------
(***************************************************************************)
(* The health poll of one MikroTik host (nms/mikrotik_poll.py): a sample   *)
(* of sysUpTime and temperature taken without a lock, the limits read from *)
(* the settings one after the other, and then, under db_lock, the reboot   *)
(* and the hysteresis alarms decided against what memory holds.  Messages  *)
(* are sent when the lock is free again.  CPU, memory and storage go       *)
(* through the same hysteresis as the temperature with one limit each.     *)
(*                                                                         *)
(* The job runs once at a time; settings, deletions and restarts come in   *)
(* between.                                                                *)
(***************************************************************************)
EXTENDS Integers

CONSTANTS
    MaxUp,    \* _MT_TICK_MAX_S: the counter of the uptime starts over after it
    Near,     \* _MT_WRAP_NEAR_S
    Fresh,    \* _MT_WRAP_FRESH_S
    Temps,    \* temperatures of the device
    Limits,   \* pairs [warn, crit] the settings may be saved as
    Hyst      \* MT_TEMP_HYST

ASSUME HealthAssumption ==
    /\ MaxUp \in Nat /\ Near \in 1..MaxUp /\ Fresh \in 1..MaxUp
    /\ Temps \subseteq Nat /\ Hyst \in Nat
    /\ \A l \in Limits : l.warn \in Nat /\ l.crit \in Nat /\ l.warn < l.crit

VARIABLES
    device,    \* its uptime; restarted, unseen: history since the sample in memory
    limits,    \* temp_threshold and temp_crit
    sampler,   \* the poll: its sample and the limits it has read
    sysup,     \* mt_sysup, -1 without an entry
    hot,       \* mt_alarm_memory: the alarms that are on
    rebooted,  \* history: the last reboot message told of a reboot there was
    mixed      \* history: the last alarms came from limits never saved together

healthVars == <<device, limits, sampler, sysup, hot, rebooted, mixed>>

NoSample == -1
Alarms   == {"temp_warn", "temp_crit"}
NoPoll   == [at |-> "idle", up |-> NoSample, temp |-> NoSample, any |-> FALSE,
             warn |-> 0, crit |-> 0, ghost |-> FALSE, restarted |-> FALSE, unseen |-> 0]
Least(a, b) == IF a < b THEN a ELSE b
Long == Least(Near, Fresh) + 1  \* long enough to miss that the counter started over

HealthTypeOK ==
    /\ device \in [up : 0..MaxUp, restarted : BOOLEAN, unseen : 0..Long]
    /\ limits \in Limits
    /\ sampler \in [at : {"idle", "sampled", "warn", "crit"}, up : {NoSample} \cup 0..MaxUp,
                    temp : {NoSample} \cup Temps, any : BOOLEAN,
                    warn : Nat, crit : Nat, ghost : BOOLEAN, restarted : BOOLEAN, unseen : 0..Long]
    /\ sysup \in {NoSample} \cup 0..MaxUp
    /\ hot \subseteq Alarms
    /\ rebooted \in BOOLEAN /\ mixed \in BOOLEAN

HealthInit ==
    /\ device = [up |-> 0, restarted |-> FALSE, unseen |-> 0]
    /\ limits \in Limits
    /\ sampler = NoPoll
    /\ sysup = NoSample
    /\ hot = {}
    /\ rebooted = TRUE /\ mixed = FALSE

-----------------------------------------------------------------------------
(* The device                                                               *)

\* Unseen counts the time since the sample, of the poll or in memory.
OneLater(n) == Least(n + 1, Long)

DeviceRuns ==
    /\ device' = [device EXCEPT !.up = (@ + 1) % (MaxUp + 1), !.unseen = OneLater(@)]
    /\ sampler' = IF sampler = NoPoll THEN NoPoll ELSE [sampler EXCEPT !.unseen = OneLater(@)]
    /\ UNCHANGED <<limits, sysup, hot, rebooted, mixed>>

DeviceRestarts ==
    /\ device' = [device EXCEPT !.up = 0, !.restarted = TRUE]
    /\ sampler' = IF sampler = NoPoll THEN NoPoll ELSE [sampler EXCEPT !.restarted = TRUE]
    /\ UNCHANGED <<limits, sysup, hot, rebooted, mixed>>

-----------------------------------------------------------------------------
(* Settings, deletion, restart                                              *)

SaveLimits ==
    /\ limits' \in Limits
    /\ UNCHANGED <<device, sampler, sysup, hot, rebooted, mixed>>

\* Memory is emptied under db_lock; a poll that has its sample goes on.  The
\* address may be given to another device afterwards.
ReplaceHost ==
    /\ sysup' = NoSample
    /\ hot' = {}
    /\ sampler' = IF sampler = NoPoll THEN NoPoll ELSE [sampler EXCEPT !.ghost = TRUE]
    /\ \E u \in 0..MaxUp : device' = [device EXCEPT !.up = u]
    /\ UNCHANGED <<limits, rebooted, mixed>>

StopHealth ==
    /\ sysup' = NoSample
    /\ hot' = {}
    /\ sampler' = NoPoll
    /\ UNCHANGED <<device, limits, rebooted, mixed>>

-----------------------------------------------------------------------------
(* poll_mikrotik_health                                                     *)

\* What the device does not answer for is missing; any stands for the other
\* values, processor, memory and storage.
Sample ==
    /\ sampler = NoPoll
    /\ \E up \in {NoSample, device.up}, temp \in {NoSample} \cup Temps, any \in BOOLEAN :
          sampler' = [NoPoll EXCEPT !.at = "sampled", !.up = up, !.temp = temp,
                                 !.any = any \/ temp # NoSample]
    /\ UNCHANGED <<device, limits, sysup, hot, rebooted, mixed>>

ReadWarn ==
    /\ sampler.at = "sampled"
    /\ sampler' = [sampler EXCEPT !.at = "warn", !.warn = limits.warn]
    /\ UNCHANGED <<device, limits, sysup, hot, rebooted, mixed>>

ReadCrit ==
    /\ sampler.at = "warn"
    /\ sampler' = [sampler EXCEPT !.at = "crit", !.crit = limits.crit]
    /\ UNCHANGED <<device, limits, sysup, hot, rebooted, mixed>>

\* Mutant: a counter that starts over is taken for a reboot.
RebootKindNoWrap(prev, cur) == IF cur >= prev THEN "none" ELSE "reboot"
\* _mt_reboot_kind
RebootKind(prev, cur) ==
    IF cur >= prev THEN "none"
    ELSE IF prev > MaxUp - Near /\ cur < Fresh THEN "wrap" ELSE "reboot"

\* _flip
Hot(on, limit, temp) ==
    IF temp = NoSample THEN on ELSE IF on THEN temp > limit - Hyst ELSE temp >= limit

\* Mutant: the warning goes as soon as the temperature is below its limit.
HotAfterNoHyst ==
    {k \in Alarms : IF k = "temp_warn" THEN Hot(FALSE, sampler.warn, sampler.temp)
                    ELSE Hot(k \in hot, sampler.crit, sampler.temp)}
HotAfter ==
    {k \in Alarms :
        Hot(k \in hot, IF k = "temp_warn" THEN sampler.warn ELSE sampler.crit, sampler.temp)}

\* A host that answered with nothing but its uptime is passed over.  The uptime is remembered
\* before the row is inserted; a refused row leaves the alarms alone, a
\* refused commit does not take memory back.
StoreSample ==
    /\ sampler.at = "crit"
    /\ sampler' = NoPoll
    /\ IF ~sampler.any THEN UNCHANGED <<device, sysup, hot, rebooted, mixed>>
       ELSE
        /\ IF sampler.up = NoSample THEN UNCHANGED <<device, sysup, rebooted>>
           ELSE
            /\ sysup' = sampler.up
            /\ rebooted' =
                  \/ sysup = NoSample
                  \/ RebootKind(sysup, sampler.up) # "reboot"
                  \/ sampler.ghost \/ device.restarted \/ device.unseen = Long
            /\ device' = [device EXCEPT !.restarted = sampler.restarted \/ sampler.ghost,
                                        !.unseen = sampler.unseen]
        /\ \/ /\ hot' = HotAfter
              /\ mixed' = ((mixed \/ sampler.warn >= sampler.crit) /\ hot' # {})
           \/ UNCHANGED <<hot, mixed>>
    /\ UNCHANGED limits

HealthNext ==
    \/ DeviceRuns \/ DeviceRestarts
    \/ SaveLimits \/ ReplaceHost \/ StopHealth
    \/ Sample \/ ReadWarn \/ ReadCrit \/ StoreSample

HealthSpec == HealthInit /\ [][HealthNext]_healthVars

-----------------------------------------------------------------------------
(* A reboot is told of only if the device did restart since the sample it  *)
(* is compared with: a counter that starts over is told apart as long as   *)
(* the device was seen near both ends, and a poll that outlives the           *)
(* deletion of its host is the only one to compare two devices             *)
(* (nms/mikrotik.py:20-32, nms/mikrotik_poll.py:435-474).                  *)
RebootIsReal == rebooted

(* The critical alarm of the temperature is never on without the warning,  *)
(* whatever limits are saved in between, unless a poll took its limits        *)
(* from two different saves (nms/mikrotik_poll.py:395-412, 538-560).       *)
CriticalIsWarned == "temp_crit" \in hot /\ ~mixed => "temp_warn" \in hot

(* What is told of a device's health, it has earned                        *)
(* (nms/mikrotik_poll.py:435-600).                                         *)
HealthAlarmsEarned == RebootIsReal /\ CriticalIsWarned
=============================================================================
