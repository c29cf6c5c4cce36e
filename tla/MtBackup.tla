------------------------------ MODULE MtBackup -------------------------------
(***************************************************************************)
(* Configuration backups of MikroTik routers.  A worker, the nightly job   *)
(* poll_mt_backups (nms/mikrotik_poll.py) or the thread of a "backup now"  *)
(* request (nms/mikrotik_routes.py), reads the rows of its hosts, exports  *)
(* the routers without a lock and stores all it got in one transaction     *)
(* under db_lock.  A router is known by the host key it first showed; one  *)
(* that shows another key is warned of once.                               *)
(***************************************************************************)
EXTENDS Integers, Sequences

CONSTANTS
    Hosts,        \* addresses that may be registered
    Keys, NoKey,  \* host keys of routers; the empty column ssh_hostkey
    Configs,      \* exports of at most 2 MB, told apart by their sha256
    Fail,         \* any failed or oversized export
    Mismatch,     \* MT_SSHKEY_MISMATCH_MSG
    Job,          \* poll_mt_backups
    Requests,     \* threads that serve "backup now"
    Settings,     \* values an admin gives mt_backup_keep
    Routers,      \* states a router can be in
    MaxMishaps    \* bound on refused transactions and restarts of the process

ASSUME KeyAssumption == NoKey \notin Keys
ASSUME ResultAssumption == Fail # Mismatch /\ {Fail, Mismatch} \cap Configs = {}
ASSUME WorkerAssumption == Job \notin Requests
ASSUME NumberAssumption ==
    /\ Settings \subseteq Nat /\ Settings # {}
    /\ MaxMishaps \in Nat
ASSUME RouterAssumption ==
    Routers \subseteq [reach : {"ok", "login", "down"}, key : Keys, config : Configs]

VARIABLES
    router,         \* the routers: reachability, key, configuration
    hosts,          \* rows of table hosts
    backup_enable,  \* hosts that opted in
    ssh_hostkey,    \* key trusted for each host
    backup_ok,      \* hosts whose last backup is marked as good
    mt_backups,     \* versions stored for each host, oldest first
    key_log,        \* newest TRUSTED or MISMATCH row of system_logs
    mt_backup_keep, \* the setting
    tasks,          \* what each worker holds for each host
    exported,       \* history: last export written for each host
    warnings,       \* history: warnings since the key was trusted
    unlogged,       \* history: hosts with a warning whose row was rolled back
    mishaps         \* history: their number

columns == <<backup_enable, ssh_hostkey, backup_ok>>
history == <<exported, warnings, unlogged>>
vars == <<router, hosts, columns, mt_backups, key_log, mt_backup_keep, tasks,
          history, mishaps>>

Workers == Requests \cup {Job}
Task == [stage : {"idle", "row", "done"}, expected : Keys \cup {NoKey},
         new_key : Keys \cup {NoKey}, result : Configs \cup {Fail, Mismatch}]
NoTask == [stage |-> "idle", expected |-> NoKey, new_key |-> NoKey, result |-> Fail]
Newest(s) == s[Len(s)]

TypeOK ==
    /\ router \in [Hosts -> Routers]
    /\ hosts \subseteq Hosts /\ backup_enable \subseteq Hosts
    /\ ssh_hostkey \in [Hosts -> Keys \cup {NoKey}]
    /\ backup_ok \subseteq hosts
    /\ mt_backups \in [Hosts -> Seq(Configs)]
    /\ key_log \in [Hosts -> {"none", "trusted", "mismatch"}]
    /\ mt_backup_keep \in Settings
    /\ tasks \in [Workers -> [Hosts -> Task]]
    /\ exported \in [Hosts -> Configs \cup {Fail}]
    /\ warnings \in [Hosts -> Nat]
    /\ unlogged \subseteq Hosts
    /\ mishaps \in 0..MaxMishaps

Init ==
    /\ router \in [Hosts -> Routers]
    /\ hosts \in SUBSET Hosts
    /\ backup_enable = {} /\ backup_ok = {}
    /\ ssh_hostkey = [h \in Hosts |-> NoKey]
    /\ mt_backups = [h \in Hosts |-> <<>>]
    /\ key_log = [h \in Hosts |-> "none"]
    /\ mt_backup_keep \in Settings
    /\ tasks = [w \in Workers |-> [h \in Hosts |-> NoTask]]
    /\ exported = [h \in Hosts |-> Fail]
    /\ warnings = [h \in Hosts |-> 0]
    /\ unlogged = {}
    /\ mishaps = 0

-----------------------------------------------------------------------------
(* Reading the rows and exporting the routers                               *)

Staged(w, stage) == {h \in Hosts : tasks[w][h].stage = stage}
Idle(w) == Staged(w, "idle") = Hosts

Candidates == hosts \cap backup_enable

Read(w, S) ==
    /\ Idle(w)
    /\ S # {}
    /\ tasks' = [tasks EXCEPT ![w] = [h \in Hosts |->
          IF h \in S THEN [NoTask EXCEPT !.stage = "row", !.expected = ssh_hostkey[h]]
                     ELSE NoTask]]
    /\ UNCHANGED <<router, hosts, columns, mt_backups, key_log, mt_backup_keep,
                   history, mishaps>>

LoadCandidates == Read(Job, Candidates)
LoadRow(r, h)  == h \in hosts /\ Read(r, {h})

\* What fetch_mikrotik_config finds under the host key policy: the first key
\* is handed to on_new_key as soon as it is seen, also when the login fails.
NewKey(t, r) == IF r.reach # "down" /\ t.expected = NoKey THEN r.key ELSE NoKey
Fetched(t, r) ==
    IF r.reach = "down" THEN Fail
    ELSE IF t.expected \notin {NoKey, r.key} THEN Mismatch
    ELSE IF r.reach = "login" THEN Fail
    ELSE r.config

Fetch(w, h) ==
    /\ tasks[w][h].stage = "row"
    /\ tasks' = [tasks EXCEPT ![w][h] =
          [stage |-> "done", expected |-> NoKey,
           new_key |-> NewKey(@, router[h]), result |-> Fetched(@, router[h])]]
    /\ UNCHANGED <<router, hosts, columns, mt_backups, key_log, mt_backup_keep,
                   history, mishaps>>

-----------------------------------------------------------------------------
(* Storing under db_lock                                                    *)

\* _mt_backup_keep
Keep == IF mt_backup_keep < 3 THEN 3
        ELSE IF mt_backup_keep > 50 THEN 50 ELSE mt_backup_keep

\* Mutant: one version too many is kept.
PrunedLate(s) ==
    IF Len(s) > Keep + 1 THEN SubSeq(s, Len(s) - Keep, Len(s)) ELSE s
\* Mutant: the oldest versions are kept.
PrunedNewest(s) == IF Len(s) > Keep THEN SubSeq(s, 1, Keep) ELSE s
Pruned(s) == IF Len(s) > Keep THEN SubSeq(s, Len(s) - Keep + 1, Len(s)) ELSE s

\* Mutant: every export becomes a version.
StoredAlways(s, result) ==
    IF result \notin Configs THEN s ELSE Pruned(Append(s, result))
\* Mutant: an export that was stored before is not stored again.
StoredOnce(s, result) ==
    IF result \notin Configs \/ \E i \in 1..Len(s) : s[i] = result THEN s
    ELSE Pruned(Append(s, result))
Stored(s, result) ==
    IF result \notin Configs THEN s
    ELSE IF s # <<>> /\ Newest(s) = result THEN s
    ELSE Pruned(Append(s, result))

Exports(w) == {h \in Hosts : tasks[w][h].result \in Configs}
\* Mutant: the log is not asked for an earlier warning.
WarnsAlways(w) == {h \in Hosts : tasks[w][h].result = Mismatch}
Warns(w) == {h \in Hosts : tasks[w][h].result = Mismatch /\ key_log[h] # "mismatch"}
Trusts(w) == {h \in Hosts : tasks[w][h].new_key # NoKey}

Marks(w, S) == S \cap hosts \cap Exports(w)

\* Every host of the worker was fetched; nothing is held after the block.
Finish(w) ==
    /\ Staged(w, "row") = {} /\ Staged(w, "done") # {}
    /\ tasks' = [tasks EXCEPT ![w] = [h \in Hosts |-> NoTask]]
    /\ UNCHANGED <<router, hosts, backup_enable, mt_backup_keep>>

\* The writes for the hosts of S.  An UPDATE of hosts finds no row when the
\* host was deleted meanwhile; the other two tables take what they are given.
Write(w, S) ==
    /\ ssh_hostkey' = [h \in Hosts |->
          IF h \in S \cap hosts \cap Trusts(w) THEN tasks[w][h].new_key
                                               ELSE ssh_hostkey[h]]
    /\ mt_backups' = [h \in Hosts |->
          IF h \in S THEN Stored(mt_backups[h], tasks[w][h].result)
                     ELSE mt_backups[h]]
    /\ backup_ok' = (backup_ok \ S) \cup Marks(w, S)
    /\ key_log' = [h \in Hosts |->
          IF h \in S \cap Warns(w) THEN "mismatch"
          ELSE IF h \in S \cap Trusts(w) THEN "trusted" ELSE key_log[h]]
    /\ exported' = [h \in Hosts |->
          IF h \in S \cap Exports(w) THEN tasks[w][h].result ELSE exported[h]]
    /\ warnings' = [h \in Hosts |->
          IF h \in S \cap Warns(w) THEN warnings[h] + 1
          ELSE IF h \in S \cap Trusts(w) THEN 0 ELSE warnings[h]]
    /\ unlogged' = unlogged \ (S \cap Trusts(w))

Store(w) ==
    /\ Finish(w)
    /\ Write(w, Staged(w, "done"))
    /\ UNCHANGED mishaps

Mishap == mishaps < MaxMishaps /\ mishaps' = mishaps + 1

\* The first write of some hosts is refused as locked, which is caught for
\* each host: the others are stored.
StoreSome(w) ==
    /\ Mishap
    /\ Finish(w)
    /\ \E S \in SUBSET Staged(w, "done") : S # Staged(w, "done") /\ Write(w, S)

\* The commit is refused: the job still sends what it queued, a request does not.
RefuseCommit(w) ==
    /\ Mishap
    /\ Finish(w)
    /\ LET sent == IF w = Job THEN Warns(w) \cap Staged(w, "done") ELSE {}
       IN  /\ warnings' = [h \in Hosts |->
                 IF h \in sent THEN warnings[h] + 1 ELSE warnings[h]]
           /\ unlogged' = unlogged \cup sent
    /\ UNCHANGED <<ssh_hostkey, backup_ok, mt_backups, key_log, exported>>

-----------------------------------------------------------------------------
(* Hosts, settings, routers and restarts                                    *)

AddHost(h) ==
    /\ h \notin hosts
    /\ hosts' = hosts \cup {h}
    /\ \/ backup_enable' = backup_enable \cup {h}
       \/ backup_enable' = backup_enable \ {h}
    /\ ssh_hostkey' = [ssh_hostkey EXCEPT ![h] = NoKey]
    /\ UNCHANGED <<router, backup_ok, mt_backups, key_log, mt_backup_keep,
                   tasks, history, mishaps>>

SwitchBackup(h) ==
    /\ h \in hosts
    /\ \/ h \in backup_enable /\ backup_enable' = backup_enable \ {h}
       \/ h \notin backup_enable /\ backup_enable' = backup_enable \cup {h}
    /\ UNCHANGED <<router, hosts, ssh_hostkey, backup_ok, mt_backups, key_log,
                   mt_backup_keep, tasks, history, mishaps>>

\* api_delete_host drops the versions and keeps the rows of system_logs.
DeleteHost(h) ==
    /\ h \in hosts
    /\ hosts' = hosts \ {h}
    /\ backup_enable' = backup_enable \ {h}
    /\ backup_ok' = backup_ok \ {h}
    /\ ssh_hostkey' = [ssh_hostkey EXCEPT ![h] = NoKey]
    /\ mt_backups' = [mt_backups EXCEPT ![h] = <<>>]
    /\ exported' = [exported EXCEPT ![h] = Fail]
    /\ UNCHANGED <<router, key_log, mt_backup_keep, tasks, warnings, unlogged,
                   mishaps>>

\* api_mt_hostkey_reset logs MT_SSHKEY_RESET, which the warning does not read.
ResetKey(h) ==
    /\ h \in hosts
    /\ ssh_hostkey' = [ssh_hostkey EXCEPT ![h] = NoKey]
    /\ UNCHANGED <<router, hosts, backup_enable, backup_ok, mt_backups, key_log,
                   mt_backup_keep, tasks, history, mishaps>>

\* cleanup_old_data drops rows of system_logs after 90 days.
CleanLog(h) ==
    /\ key_log[h] # "none"
    /\ key_log' = [key_log EXCEPT ![h] = "none"]
    /\ warnings' = [warnings EXCEPT ![h] = 0]
    /\ unlogged' = unlogged \ {h}
    /\ UNCHANGED <<router, hosts, columns, mt_backups, mt_backup_keep, tasks,
                   exported, mishaps>>

SetKeep ==
    /\ mt_backup_keep' \in Settings \ {mt_backup_keep}
    /\ UNCHANGED <<router, hosts, columns, mt_backups, key_log, tasks, history,
                   mishaps>>

ChangeRouter(h) ==
    /\ \E r \in Routers \ {router[h]} : router' = [router EXCEPT ![h] = r]
    /\ UNCHANGED <<hosts, columns, mt_backups, key_log, mt_backup_keep, tasks,
                   history, mishaps>>

Restart ==
    /\ Mishap
    /\ tasks' = [w \in Workers |-> [h \in Hosts |-> NoTask]]
    /\ UNCHANGED <<router, hosts, columns, mt_backups, key_log, mt_backup_keep,
                   history>>

Next ==
    \/ LoadCandidates
    \/ \E r \in Requests, h \in Hosts : LoadRow(r, h)
    \/ \E w \in Workers, h \in Hosts : Fetch(w, h)
    \/ \E w \in Workers : Store(w) \/ StoreSome(w) \/ RefuseCommit(w)
    \/ \E h \in Hosts : AddHost(h) \/ SwitchBackup(h) \/ DeleteHost(h)
    \/ \E h \in Hosts : ResetKey(h) \/ CleanLog(h) \/ ChangeRouter(h)
    \/ SetKeep
    \/ Restart

Spec == Init /\ [][Next]_vars

\* The job is started every night, its fetches end by their timeouts and it
\* stores what it has, also when SQLite refuses some of it.
FairSpec ==
    /\ Spec
    /\ WF_vars(LoadCandidates)
    /\ \A h \in Hosts : WF_vars(Fetch(Job, h))
    /\ WF_vars(Store(Job) \/ StoreSome(Job) \/ RefuseCommit(Job))

-----------------------------------------------------------------------------
(* Properties                                                               *)

\* A version is stored for a change only: whichever of the job and a request
\* stores first, the one that comes second with the same export adds nothing.
VersionsDiffer ==
    \A h \in Hosts : \A i \in 1..(Len(mt_backups[h]) - 1) :
        mt_backups[h][i] # mt_backups[h][i + 1]

\* A host marked as backed up has its last export as the newest version, also
\* after a host was deleted and added, and after old versions were dropped.
BackupOkIsNewest ==
    \A h \in backup_ok :
        /\ mt_backups[h] # <<>>
        /\ Newest(mt_backups[h]) = exported[h]

\* Every version is a change, and the newest is the last export.
VersionsAreExports == VersionsDiffer /\ BackupOkIsNewest

\* No more than the configured number of versions is left by a backup that
\* adds one, also after the setting was lowered.
StoredWithinKeep ==
    [][\A h \in Hosts :
          mt_backups'[h] # mt_backups[h] => Len(mt_backups'[h]) <= Keep]_vars

\* "satu alert saja per periode mismatch (sampai di-reset lalu di-trust ulang)":
\* a changed key is warned of once until a key is trusted again or the log is
\* cleaned, except after a warning whose row was rolled back.
OneWarning ==
    \A h \in Hosts \ unlogged : warnings[h] <= 1

\* A router that stays reachable with a key that is or can be trusted, on a
\* host that stays opted in, has its configuration backed up for good.
Settled(h, r) ==
    /\ h \in Candidates
    /\ router[h] = r /\ r.reach = "ok"
    /\ ssh_hostkey[h] \in {NoKey, r.key}
BackedUp(h, r) == mt_backups[h] # <<>> /\ Newest(mt_backups[h]) = r.config

BackupConverges ==
    \A h \in Hosts, r \in Routers : <>[]Settled(h, r) => <>[]BackedUp(h, r)
=============================================================================
