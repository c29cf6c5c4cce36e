--------------------------- MODULE MtBackupProofs ----------------------------
(***************************************************************************)
(* Theorems about MtBackup for any hosts, keys, exports, requests, values  *)
(* of mt_backup_keep and any number of refused transactions and restarts.  *)
(***************************************************************************)
EXTENDS MtBackup, SequenceTheorems, TLAPS

USE KeyAssumption, ResultAssumption, WorkerAssumption, NumberAssumption,
    RouterAssumption

-----------------------------------------------------------------------------
(* The versions of one host                                                 *)

Differ(s) == \A i \in 1..(Len(s) - 1) : s[i] # s[i + 1]

\* Pruning keeps the newest version, the order of the versions, and no more than
\* Keep of them.
LEMMA PrunedProperties ==
  ASSUME NEW s \in Seq(Configs), s # <<>>, Differ(s), mt_backup_keep \in Nat
  PROVE  /\ Pruned(s) \in Seq(Configs)
         /\ Pruned(s) # <<>>
         /\ Len(Pruned(s)) <= Keep
         /\ Newest(Pruned(s)) = Newest(s)
         /\ Differ(Pruned(s))
<1>1. Keep \in Nat /\ Keep >= 3
  BY DEF Keep
<1>2. Len(s) \in Nat /\ Len(s) > 0
  BY EmptySeq
<1>3. CASE Len(s) > Keep
  <2> DEFINE m == Len(s) - Keep + 1
             t == SubSeq(s, m, Len(s))
  <2>1. Pruned(s) = t
    BY <1>3 DEF Pruned
  <2>2. m \in Int /\ m >= 1 /\ m <= Len(s) /\ Len(s) - m + 1 = Keep
    BY <1>1, <1>2, <1>3
  <2>3. \A i \in m..Len(s) : s[i] \in Configs
    <3>1. \A i \in m..Len(s) : i \in 1..Len(s)
      BY <1>2, <2>2
    <3>2. QED
      BY <3>1, ElementOfSeq
  <2>4. /\ t \in Seq(Configs)
        /\ Len(t) = IF m <= Len(s) THEN Len(s) - m + 1 ELSE 0
        /\ \A i \in 1..(Len(s) - m + 1) : t[i] = s[m + i - 1]
    <3> HIDE DEF m
    <3>1. QED
      BY <1>2, <2>2, <2>3, SubSeqProperties
  <2>5. Len(t) = Keep /\ \A i \in 1..Keep : t[i] = s[m + i - 1]
    <3> HIDE DEF m, t
    <3>1. QED
      BY <2>2, <2>4
  <2>6. t # <<>>
    <3> HIDE DEF t
    <3>1. Len(<<>>) = 0
      BY EmptySeq
    <3>2. Len(t) # 0
      BY <1>1, <2>5
    <3>3. QED
      BY <3>1, <3>2
  <2>7. Newest(t) = Newest(s)
    <3> HIDE DEF t
    <3>1. Keep \in 1..Keep /\ m + Keep - 1 = Len(s)
      BY <1>1, <1>2
    <3>2. QED
      BY <2>5, <3>1 DEF Newest
  <2>8. Differ(t)
    <3> SUFFICES ASSUME NEW i \in 1..(Len(t) - 1) PROVE t[i] # t[i + 1]
      BY DEF Differ
    <3> HIDE DEF m, t
    <3>1. i \in 1..Keep /\ i + 1 \in 1..Keep
      BY <1>1, <2>5
    <3>2. t[i] = s[m + i - 1] /\ t[i + 1] = s[m + i]
      BY <2>5, <3>1, <2>2, m + (i + 1) - 1 = m + i
    <3>3. m + i - 1 \in 1..(Len(s) - 1) /\ (m + i - 1) + 1 = m + i
      BY <1>1, <1>2, <2>2, <3>1
    <3>4. QED
      BY <3>2, <3>3 DEF Differ
  <2>9. QED
    BY <1>1, <2>1, <2>4, <2>5, <2>6, <2>7, <2>8
<1>4. CASE ~(Len(s) > Keep)
  BY <1>1, <1>2, <1>4 DEF Pruned
<1>5. QED
  BY <1>3, <1>4

\* What the store of one result does to the versions of its host.
LEMMA StoredProperties ==
  ASSUME NEW s \in Seq(Configs), Differ(s), mt_backup_keep \in Nat, NEW r
  PROVE  /\ Stored(s, r) \in Seq(Configs)
         /\ Differ(Stored(s, r))
         /\ r \in Configs => Stored(s, r) # <<>> /\ Newest(Stored(s, r)) = r
         /\ r \notin Configs => Stored(s, r) = s
         /\ Stored(s, r) # s => Len(Stored(s, r)) <= Keep
<1>1. CASE r \notin Configs \/ (s # <<>> /\ Newest(s) = r)
  BY <1>1 DEF Stored
<1>2. CASE r \in Configs /\ ~(s # <<>> /\ Newest(s) = r)
  <2> DEFINE a == Append(s, r)
  <2>1. Stored(s, r) = Pruned(a)
    BY <1>2 DEF Stored
  <2>2. /\ a \in Seq(Configs) /\ a # <<>> /\ Len(a) = Len(s) + 1
        /\ \A i \in 1..Len(s) : a[i] = s[i]
        /\ a[Len(s) + 1] = r
    BY <1>2, AppendProperties
  <2>3. Newest(a) = r
    BY <2>2 DEF Newest
  <2>4. Differ(a)
    <3> SUFFICES ASSUME NEW i \in 1..(Len(a) - 1) PROVE a[i] # a[i + 1]
      BY DEF Differ
    <3> HIDE DEF a
    <3>1. Len(s) \in Nat /\ i \in 1..Len(s)
      BY <2>2
    <3>2. CASE i < Len(s)
      BY <2>2, <3>1, <3>2, i \in 1..(Len(s) - 1), i + 1 \in 1..Len(s) DEF Differ
    <3>3. CASE i = Len(s)
      <4>1. s # <<>>
        BY <3>1, EmptySeq
      <4>2. QED
        BY <1>2, <2>2, <3>1, <3>3, <4>1 DEF Newest
    <3>4. QED
      BY <3>1, <3>2, <3>3
  <2>5. QED
    <3> HIDE DEF a
    <3>1. QED
      BY <1>2, <2>1, <2>2, <2>3, <2>4, PrunedProperties
<1>3. QED
  BY <1>1, <1>2

-----------------------------------------------------------------------------
(* Type correctness                                                         *)

LEMMA NoTaskType == NoTask \in Task
  BY DEF NoTask, Task

\* The writes for the hosts of S keep the columns, versions and the log in
\* their types, and what they do to the versions is Stored.
LEMMA WriteTypes ==
  ASSUME TypeOK, VersionsDiffer, NEW w \in Workers, NEW S \in SUBSET Hosts, Write(w, S)
  PROVE  /\ ssh_hostkey' \in [Hosts -> Keys \cup {NoKey}]
         /\ mt_backups' \in [Hosts -> Seq(Configs)]
         /\ backup_ok' \subseteq hosts
         /\ key_log' \in [Hosts -> {"none", "trusted", "mismatch"}]
         /\ exported' \in [Hosts -> Configs \cup {Fail}]
         /\ warnings' \in [Hosts -> Nat]
         /\ unlogged' \subseteq Hosts
<1>1. \A h \in Hosts : tasks[w][h] \in Task
  BY DEF TypeOK
<1>2. ssh_hostkey' \in [Hosts -> Keys \cup {NoKey}]
  BY <1>1 DEF Write, TypeOK, Task
<1>3. mt_backups' \in [Hosts -> Seq(Configs)]
  <2>1. \A h \in Hosts : Stored(mt_backups[h], tasks[w][h].result) \in Seq(Configs)
    BY StoredProperties DEF TypeOK, VersionsDiffer, Differ
  <2>2. QED
    BY <2>1 DEF Write, TypeOK
<1>4. backup_ok' \subseteq hosts
  BY DEF Write, Marks, TypeOK
<1>5. key_log' \in [Hosts -> {"none", "trusted", "mismatch"}]
  BY DEF Write, TypeOK
<1>6. exported' \in [Hosts -> Configs \cup {Fail}]
  BY DEF Write, TypeOK, Exports
<1>7. warnings' \in [Hosts -> Nat]
  BY DEF Write, TypeOK
<1>8. unlogged' \subseteq Hosts
  BY DEF Write, TypeOK
<1>9. QED
  BY <1>2, <1>3, <1>4, <1>5, <1>6, <1>7, <1>8

\* The versions after the writes, and the flag that vouches for them.
LEMMA WriteVersions ==
  ASSUME TypeOK, VersionsDiffer, BackupOkIsNewest,
         NEW w \in Workers, NEW S \in SUBSET Hosts, Write(w, S)
  PROVE  /\ VersionsDiffer'
         /\ BackupOkIsNewest'
         /\ \A h \in Hosts :
               mt_backups'[h] # mt_backups[h] => Len(mt_backups'[h]) <= Keep
<1> DEFINE r(h) == tasks[w][h].result
<1>1. \A h \in Hosts :
        /\ Differ(Stored(mt_backups[h], r(h)))
        /\ r(h) \in Configs => /\ Stored(mt_backups[h], r(h)) # <<>>
                              /\ Newest(Stored(mt_backups[h], r(h))) = r(h)
        /\ r(h) \notin Configs => Stored(mt_backups[h], r(h)) = mt_backups[h]
        /\ Stored(mt_backups[h], r(h)) # mt_backups[h]
              => Len(Stored(mt_backups[h], r(h))) <= Keep
  BY StoredProperties DEF TypeOK, VersionsDiffer, Differ
<1>2. \A h \in Hosts : mt_backups'[h] = IF h \in S THEN Stored(mt_backups[h], r(h))
                                                   ELSE mt_backups[h]
  BY DEF Write
<1>3. VersionsDiffer'
  BY <1>1, <1>2 DEF VersionsDiffer, Differ
<1>4. BackupOkIsNewest'
  <2> SUFFICES ASSUME NEW h \in backup_ok'
               PROVE  mt_backups'[h] # <<>> /\ Newest(mt_backups'[h]) = exported'[h]
    BY DEF BackupOkIsNewest, Newest
  <2>1. h \in Hosts
    BY DEF Write, Marks, TypeOK
  <2>2. CASE h \in S
    <3>1. r(h) \in Configs /\ exported'[h] = r(h)
      BY <2>1, <2>2 DEF Write, Marks, Exports
    <3>2. QED
      BY <1>1, <1>2, <2>1, <2>2, <3>1
  <2>3. CASE h \notin S
    <3>1. h \in backup_ok /\ exported'[h] = exported[h]
      BY <2>1, <2>3 DEF Write, Marks
    <3>2. QED
      BY <1>2, <2>1, <2>3, <3>1 DEF BackupOkIsNewest
  <2>4. QED
    BY <2>2, <2>3
<1>5. \A h \in Hosts :
        mt_backups'[h] # mt_backups[h] => Len(mt_backups'[h]) <= Keep
  BY <1>1, <1>2
<1>6. QED
  BY <1>3, <1>4, <1>5

-----------------------------------------------------------------------------
(* The invariant of the tables                                              *)

BackupInv == TypeOK /\ VersionsDiffer /\ BackupOkIsNewest

\* The steps that store: the versions change by Write or not at all.
Stores(w) == Store(w) \/ StoreSome(w) \/ RefuseCommit(w)

LEMMA StoreEffect ==
  ASSUME BackupInv, NEW w \in Workers, Stores(w)
  PROVE  /\ BackupInv'
         /\ \A h \in Hosts :
               mt_backups'[h] # mt_backups[h] => Len(mt_backups'[h]) <= Keep
<1>1. tasks' \in [Workers -> [Hosts -> Task]]
  <2>1. Finish(w)
    BY DEF Stores, Store, StoreSome, RefuseCommit
  <2>2. [h \in Hosts |-> NoTask] \in [Hosts -> Task]
    BY NoTaskType
  <2>3. QED
    BY <2>1, <2>2 DEF Finish, BackupInv, TypeOK
<1>2. mishaps' \in 0..MaxMishaps
  BY DEF Stores, Store, StoreSome, RefuseCommit, Mishap, BackupInv, TypeOK
<1>3. UNCHANGED <<router, hosts, backup_enable, mt_backup_keep>>
  BY DEF Stores, Store, StoreSome, RefuseCommit, Finish
<1>4. ASSUME NEW S \in SUBSET Hosts, Write(w, S)
      PROVE  /\ BackupInv'
             /\ \A h \in Hosts :
                   mt_backups'[h] # mt_backups[h] => Len(mt_backups'[h]) <= Keep
  <2>1. TypeOK'
    BY <1>1, <1>2, <1>3, <1>4, WriteTypes DEF BackupInv, TypeOK
  <2>2. QED
    BY <1>4, <2>1, WriteVersions DEF BackupInv
<1>5. CASE Store(w)
  BY <1>4, <1>5 DEF Store, Staged
<1>6. CASE StoreSome(w)
  <2>1. PICK S \in SUBSET Staged(w, "done") : Write(w, S)
    BY <1>6 DEF StoreSome
  <2>2. S \in SUBSET Hosts
    BY DEF Staged
  <2>3. QED
    BY <1>4, <2>1, <2>2
<1>7. CASE RefuseCommit(w)
  <2>1. UNCHANGED <<ssh_hostkey, backup_ok, mt_backups, key_log, exported>>
    BY <1>7 DEF RefuseCommit
  <2>2. warnings' \in [Hosts -> Nat] /\ unlogged' \subseteq Hosts
    BY <1>7 DEF RefuseCommit, BackupInv, TypeOK, Staged, Warns
  <2>3. TypeOK'
    BY <1>1, <1>2, <1>3, <2>1, <2>2 DEF BackupInv, TypeOK
  <2>4. QED
    BY <2>1, <2>3 DEF BackupInv, VersionsDiffer, BackupOkIsNewest, Newest
<1>8. QED
  BY <1>5, <1>6, <1>7 DEF Stores

LEMMA FetchTypes ==
  ASSUME TypeOK, NEW w \in Workers, NEW h \in Hosts, Fetch(w, h)
  PROVE  tasks' \in [Workers -> [Hosts -> Task]]
<1> DEFINE t == tasks[w][h]
           n == [stage |-> "done", expected |-> NoKey,
                 new_key |-> NewKey(t, router[h]), result |-> Fetched(t, router[h])]
<1>1. router[h] \in Routers
  BY DEF TypeOK
<1>2. router[h].key \in Keys /\ router[h].config \in Configs
  BY <1>1
<1>3. n \in Task
  BY <1>2 DEF NewKey, Fetched, Task
<1>4. tasks' = [tasks EXCEPT ![w] = [tasks[w] EXCEPT ![h] = n]]
  BY DEF Fetch, TypeOK
<1>5. [tasks[w] EXCEPT ![h] = n] \in [Hosts -> Task]
  <2> HIDE DEF n
  <2>1. QED
    BY <1>3 DEF TypeOK
<1>6. QED
  BY <1>4, <1>5 DEF TypeOK

LEMMA ReadTypes ==
  ASSUME TypeOK, NEW w \in Workers, NEW S, Read(w, S)
  PROVE  TypeOK'
<1>1. \A h \in Hosts :
        [NoTask EXCEPT !.stage = "row", !.expected = ssh_hostkey[h]] \in Task
  BY DEF NoTask, Task, TypeOK
<1>2. tasks' \in [Workers -> [Hosts -> Task]]
  BY <1>1, NoTaskType DEF Read, TypeOK
<1>3. QED
  BY <1>2 DEF Read, TypeOK, columns, history

\* The steps other than those that store.
LEMMA OtherSteps ==
  ASSUME BackupInv, [Next]_vars, \A w \in Workers : ~Stores(w)
  PROVE  BackupInv'
<1> USE DEF BackupInv
<1>1. ASSUME NEW w \in Workers, NEW S, Read(w, S) PROVE BackupInv'
  BY <1>1, ReadTypes DEF Read, columns, history, VersionsDiffer, BackupOkIsNewest, Newest
<1>2. ASSUME NEW w \in Workers, NEW h \in Hosts, Fetch(w, h) PROVE BackupInv'
  BY <1>2, FetchTypes
  DEF Fetch, TypeOK, columns, history, VersionsDiffer, BackupOkIsNewest, Newest
<1>3. ASSUME NEW h \in Hosts, AddHost(h) PROVE BackupInv'
  BY <1>3 DEF AddHost, TypeOK, history, VersionsDiffer, BackupOkIsNewest, Newest
<1>4. ASSUME NEW h \in Hosts, SwitchBackup(h) PROVE BackupInv'
  BY <1>4 DEF SwitchBackup, TypeOK, history, VersionsDiffer, BackupOkIsNewest, Newest
<1>5. ASSUME NEW h \in Hosts, DeleteHost(h) PROVE BackupInv'
  <2>1. mt_backups' \in [Hosts -> Seq(Configs)]
    <3>1. <<>> \in Seq(Configs)
      BY EmptySeq
    <3>2. QED
      BY <1>5, <3>1 DEF DeleteHost, TypeOK
  <2>2. TypeOK'
    BY <1>5, <2>1 DEF DeleteHost, TypeOK
  <2>3. VersionsDiffer'
    <3>1. Len(<<>>) = 0
      BY EmptySeq
    <3>2. \A g \in Hosts : mt_backups'[g] = IF g = h THEN <<>> ELSE mt_backups[g]
      BY <1>5 DEF DeleteHost, TypeOK
    <3>3. QED
      BY <3>1, <3>2 DEF VersionsDiffer
  <2>4. BackupOkIsNewest'
    <3>1. \A g \in backup_ok' : /\ g \in backup_ok
                               /\ mt_backups'[g] = mt_backups[g]
                               /\ exported'[g] = exported[g]
      BY <1>5 DEF DeleteHost, TypeOK
    <3>2. QED
      BY <3>1 DEF BackupOkIsNewest, Newest
  <2>5. QED
    BY <2>2, <2>3, <2>4
<1>6. ASSUME NEW h \in Hosts, ResetKey(h) PROVE BackupInv'
  BY <1>6 DEF ResetKey, TypeOK, history, VersionsDiffer, BackupOkIsNewest, Newest
<1>7. ASSUME NEW h \in Hosts, CleanLog(h) PROVE BackupInv'
  BY <1>7 DEF CleanLog, TypeOK, columns, VersionsDiffer, BackupOkIsNewest, Newest
<1>8. ASSUME NEW h \in Hosts, ChangeRouter(h) PROVE BackupInv'
  BY <1>8 DEF ChangeRouter, TypeOK, columns, history, VersionsDiffer,
              BackupOkIsNewest, Newest
<1>9. CASE SetKeep
  BY <1>9 DEF SetKeep, TypeOK, columns, history, VersionsDiffer, BackupOkIsNewest,
              Newest
<1>10. CASE Restart
  BY <1>10, NoTaskType DEF Restart, Mishap, TypeOK, columns, history, VersionsDiffer,
                           BackupOkIsNewest, Newest
<1>11. CASE UNCHANGED vars
  BY <1>11 DEF vars, TypeOK, columns, history, VersionsDiffer, BackupOkIsNewest, Newest
<1>12. CASE LoadCandidates
  BY <1>1, <1>12 DEF LoadCandidates, Workers
<1>13. ASSUME NEW r \in Requests, NEW h \in Hosts, LoadRow(r, h) PROVE BackupInv'
  BY <1>1, <1>13 DEF LoadRow, Workers
<1>14. QED
  BY <1>2, <1>3, <1>4, <1>5, <1>6, <1>7, <1>8, <1>9, <1>10, <1>11, <1>12, <1>13
  DEF Next, Stores

LEMMA BackupInvariant == Spec => []BackupInv
<1>1. Init => BackupInv
  <2>1. <<>> \in Seq(Configs) /\ Len(<<>>) = 0
    BY EmptySeq
  <2>2. Init => TypeOK
    BY <2>1, NoTaskType DEF Init, TypeOK
  <2>3. Init => VersionsDiffer /\ BackupOkIsNewest
    BY <2>1 DEF Init, VersionsDiffer, BackupOkIsNewest
  <2>4. QED
    BY <2>2, <2>3 DEF BackupInv
<1>2. BackupInv /\ [Next]_vars => BackupInv'
  BY StoreEffect, OtherSteps
<1>3. QED
  BY <1>1, <1>2, PTL DEF Spec

\* Every step of the job, of the requests, of the admin and of the routers keeps
\* the variables in their types; a host that is deleted loses its flag.
THEOREM BackupTypeCorrect == Spec => []TypeOK
BY BackupInvariant, PTL DEF BackupInv

\* Neighbouring versions of a host differ, however the job and any number of
\* requests interleave their exports with the stores.
THEOREM VersionsDifferTheorem == Spec => []VersionsDiffer
BY BackupInvariant, PTL DEF BackupInv

\* A host marked as backed up has its last export as the newest version.
THEOREM BackupOkTheorem == Spec => []BackupOkIsNewest
BY BackupInvariant, PTL DEF BackupInv

\* A step that changes the versions leaves at most Keep of them.
THEOREM StoredWithinKeepTheorem == Spec => StoredWithinKeep
<1> DEFINE Kept == \A h \in Hosts :
                     mt_backups'[h] # mt_backups[h] => Len(mt_backups'[h]) <= Keep
<1>1. BackupInv /\ [Next]_vars => [Kept]_vars
  <2> SUFFICES ASSUME BackupInv, [Next]_vars PROVE Kept \/ UNCHANGED vars
    OBVIOUS
  <2>1. ASSUME NEW w \in Workers, Stores(w) PROVE Kept
    BY <2>1, StoreEffect
  <2>2. CASE UNCHANGED mt_backups
    BY <2>2
  <2>3. ASSUME NEW h \in Hosts, DeleteHost(h) PROVE Kept
    <3>1. Keep \in Nat /\ Keep >= 3 /\ Len(<<>>) = 0
      BY EmptySeq DEF Keep, BackupInv, TypeOK
    <3>2. \A g \in Hosts : mt_backups'[g] = IF g = h THEN <<>> ELSE mt_backups[g]
      BY <2>3 DEF DeleteHost, BackupInv, TypeOK
    <3>3. \A g \in Hosts : mt_backups'[g] # mt_backups[g] => Len(mt_backups'[g]) = 0
      BY <3>1, <3>2, Zenon
    <3>4. QED
      BY <3>1, <3>3
  <2>4. QED
    BY <2>1, <2>2, <2>3
    DEF Next, Stores, LoadCandidates, LoadRow, Read, Fetch, AddHost, SwitchBackup,
        ResetKey, CleanLog, SetKeep, ChangeRouter, Restart, vars
<1>2. QED
  BY <1>1, BackupInvariant, PTL DEF Spec, StoredWithinKeep

-----------------------------------------------------------------------------
(* One warning of a changed key                                             *)

\* A key is handed to on_new_key only where none was expected, and then no key
\* is refused; a warning not yet in the log has not been sent, unless the row
\* was rolled back.
Handed ==
    \A w \in Workers, h \in Hosts :
        tasks[w][h].new_key # NoKey => tasks[w][h].result # Mismatch
Logged ==
    \A h \in Hosts \ unlogged :
        warnings[h] <= IF key_log[h] = "mismatch" THEN 1 ELSE 0
WarningInv == BackupInv /\ Handed /\ Logged

LEMMA HandedStep ==
  ASSUME BackupInv, Handed, [Next]_vars PROVE Handed'
<1>1. NoTask.new_key = NoKey
  BY DEF NoTask
<1>2. ASSUME NEW w \in Workers, NEW S, Read(w, S) PROVE Handed'
  <2>1. \A v \in Workers, h \in Hosts :
          tasks'[v][h] = tasks[v][h] \/ tasks'[v][h].new_key = NoKey
    BY <1>2 DEF Read, NoTask, BackupInv, TypeOK
  <2>2. QED
    BY <2>1 DEF Handed
<1>3. ASSUME NEW w \in Workers, NEW h \in Hosts, Fetch(w, h) PROVE Handed'
  <2> DEFINE t == tasks[w][h]
  <2>1. /\ tasks'[w][h].new_key = NewKey(t, router[h])
        /\ tasks'[w][h].result = Fetched(t, router[h])
    BY <1>3 DEF Fetch, BackupInv, TypeOK
  <2>2. \A v \in Workers, g \in Hosts :
          v # w \/ g # h => tasks'[v][g] = tasks[v][g]
    BY <1>3 DEF Fetch, BackupInv, TypeOK
  <2>3. router[h].config \in Configs
    BY DEF BackupInv, TypeOK
  <2>4. NewKey(t, router[h]) # NoKey => Fetched(t, router[h]) # Mismatch
    BY <2>3 DEF NewKey, Fetched
  <2>5. QED
    BY <2>1, <2>2, <2>4 DEF Handed
<1>4. ASSUME NEW w \in Workers, Finish(w) PROVE Handed'
  <2>1. \A v \in Workers, h \in Hosts :
          tasks'[v][h] = tasks[v][h] \/ tasks'[v][h] = NoTask
    BY <1>4 DEF Finish, BackupInv, TypeOK
  <2>2. QED
    BY <1>1, <2>1 DEF Handed
<1>5. CASE Restart
  BY <1>1, <1>5 DEF Restart, Handed
<1>6. CASE UNCHANGED tasks
  BY <1>6 DEF Handed
<1>7. QED
  BY <1>2, <1>3, <1>4, <1>5, <1>6
  DEF Next, Store, StoreSome, RefuseCommit, LoadCandidates, LoadRow, AddHost,
      SwitchBackup, DeleteHost, ResetKey, CleanLog, SetKeep, ChangeRouter, vars,
      Workers

LEMMA LoggedStore ==
  ASSUME WarningInv, NEW w \in Workers, Stores(w) PROVE Logged'
<1>1. \A h \in Hosts : warnings[h] \in Nat
  BY DEF WarningInv, BackupInv, TypeOK
<1>2. ASSUME NEW S \in SUBSET Hosts, Write(w, S) PROVE Logged'
  <2> SUFFICES ASSUME NEW h \in Hosts \ unlogged'
               PROVE  warnings'[h] <= IF key_log'[h] = "mismatch" THEN 1 ELSE 0
    BY DEF Logged
  <2>1. CASE h \in S \cap Warns(w)
    <3>1. h \notin Trusts(w)
      BY <2>1 DEF Warns, Trusts, WarningInv, Handed
    <3>2. h \notin unlogged /\ key_log[h] # "mismatch"
      BY <1>2, <2>1, <3>1 DEF Write, Warns
    <3>3. warnings[h] = 0
      BY <1>1, <3>2 DEF WarningInv, Logged
    <3>4. warnings'[h] = warnings[h] + 1 /\ key_log'[h] = "mismatch"
      BY <1>2, <2>1 DEF Write
    <3>5. QED
      BY <3>3, <3>4
  <2>2. CASE h \notin S \cap Warns(w) /\ h \in S \cap Trusts(w)
    BY <1>2, <2>2 DEF Write
  <2>3. CASE h \notin S \cap Warns(w) /\ h \notin S \cap Trusts(w)
    <3>1. h \notin unlogged /\ warnings'[h] = warnings[h] /\ key_log'[h] = key_log[h]
      BY <1>2, <2>3 DEF Write
    <3>2. QED
      BY <3>1 DEF WarningInv, Logged
  <2>4. QED
    BY <2>1, <2>2, <2>3
<1>3. CASE Store(w)
  BY <1>2, <1>3 DEF Store, Staged
<1>4. CASE StoreSome(w)
  <2>1. PICK S \in SUBSET Staged(w, "done") : Write(w, S)
    BY <1>4 DEF StoreSome
  <2>2. S \in SUBSET Hosts
    BY DEF Staged
  <2>3. QED
    BY <1>2, <2>1, <2>2
<1>5. CASE RefuseCommit(w)
  <2> SUFFICES ASSUME NEW h \in Hosts \ unlogged'
               PROVE  warnings'[h] <= IF key_log'[h] = "mismatch" THEN 1 ELSE 0
    BY DEF Logged
  <2>1. /\ h \notin unlogged
        /\ warnings'[h] = warnings[h]
        /\ key_log'[h] = key_log[h]
    BY <1>5 DEF RefuseCommit
  <2>2. QED
    BY <2>1 DEF WarningInv, Logged
<1>6. QED
  BY <1>3, <1>4, <1>5 DEF Stores

LEMMA LoggedOther ==
  ASSUME WarningInv, [Next]_vars, \A w \in Workers : ~Stores(w) PROVE Logged'
<1>1. CASE UNCHANGED <<warnings, unlogged, key_log>>
  BY <1>1 DEF WarningInv, Logged
<1>2. ASSUME NEW h \in Hosts, CleanLog(h) PROVE Logged'
  BY <1>2 DEF CleanLog, WarningInv, Logged, BackupInv, TypeOK
<1>3. QED
  BY <1>1, <1>2
  DEF Next, Stores, LoadCandidates, LoadRow, Read, Fetch, AddHost, SwitchBackup,
      DeleteHost, ResetKey, SetKeep, ChangeRouter, Restart, vars, history

\* A changed key is warned of once in a period, whichever workers meet it and
\* however many rows of the log are dropped, unless the row of the warning was
\* rolled back.
THEOREM OneWarningTheorem == Spec => []OneWarning
<1>1. Init => Handed /\ Logged
  BY DEF Init, Handed, Logged, NoTask
<1>2. WarningInv /\ BackupInv' /\ [Next]_vars => WarningInv'
  BY HandedStep, LoggedStore, LoggedOther DEF WarningInv
<1>3. WarningInv => OneWarning
  <2> SUFFICES ASSUME WarningInv, NEW h \in Hosts \ unlogged PROVE warnings[h] <= 1
    BY DEF OneWarning
  <2>1. warnings[h] \in Nat
    BY DEF WarningInv, BackupInv, TypeOK
  <2>2. warnings[h] <= 0 \/ warnings[h] <= 1
    BY DEF WarningInv, Logged
  <2>3. QED
    BY <2>1, <2>2
<1>4. Init /\ BackupInv => WarningInv
  BY <1>1 DEF WarningInv
<1>5. QED
  BY <1>2, <1>3, <1>4, BackupInvariant, PTL DEF Spec

\* Versions differ and the newest is the last export, for any routers and
\* requests (nms/mikrotik_poll.py:1016-1058).
THEOREM VersionsTheorem == Spec => []VersionsAreExports
<1>1. VersionsDiffer /\ BackupOkIsNewest => VersionsAreExports
  BY DEF VersionsAreExports
<1>2. QED
  BY <1>1, VersionsDifferTheorem, BackupOkTheorem, PTL
=============================================================================
