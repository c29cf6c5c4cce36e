--------------------------- MODULE ComponentProofs ---------------------------
(***************************************************************************)
(* Theorems about components that share no state with one another, for any *)
(* instance of each: the traps, the limits of the settings, discovery, the *)
(* backups of the database, the health poll, the interface poll, the       *)
(* maintenance windows, the power readings and the agents.                 *)
(***************************************************************************)
EXTENDS MCComponents, CodecProofs, FiniteSetTheorems

-----------------------------------------------------------------------------
(* TrapAlert                                                                *)

\* The datagrams under way are finitely many, so that they can be counted, and
\* a key is quiet for exactly the time since its last message.
TrapInv == TrapTypeOK /\ IsFiniteSet(wire) /\ QuietBecauseAnnounced

LEMMA TrapNumbers == Quiet \in Nat /\ Quiet > 0 /\ WireLimit \in Nat /\ MaxFailed \in Nat
<1>1. Quiet \in Nat /\ Quiet # 0 /\ WireLimit \in Nat /\ MaxFailed \in Nat
  BY TrapAssumption
<1>2. QED
  BY <1>1

\* The two counters of a key, put together.
Balanced(q, s) ==
    /\ q \in [Keys -> 0..Quiet] /\ s \in [Keys -> 0..Quiet]
    /\ \A k \in Keys : q[k] + s[k] = Quiet

LEMMA BalancedStart == Balanced([k \in Keys |-> 0], [k \in Keys |-> Quiet])
<1>1. 0 \in 0..Quiet /\ Quiet \in 0..Quiet /\ 0 + Quiet = Quiet
  BY TrapNumbers
<1>2. QED
  BY <1>1 DEF Balanced

LEMMA BalancedInv ==
  TrapInv <=>
    /\ wire \subseteq Trap /\ Cardinality(wire) <= WireLimit /\ IsFiniteSet(wire)
    /\ expected \in Communities \cup {""}
    /\ Balanced(quiet, since)
    /\ receiver \in BOOLEAN
    /\ failed \in 0..MaxFailed
BY DEF TrapInv, TrapTypeOK, QuietBecauseAnnounced, Balanced

LEMMA TrapInvInit == TrapInit => TrapInv
<1> USE TrapNumbers
<1>1. IsFiniteSet({}) /\ Cardinality({}) = 0
  BY FS_EmptySet
<1>2. QED
  <2>1. Cardinality({}) <= WireLimit /\ 0 \in 0..MaxFailed
    BY <1>1
  <2>2. QED
    BY <1>1, <2>1, BalancedStart, BalancedInv DEF TrapInit

\* What the wire may become keeps it finite and within its bound.
LEMMA WireKept ==
  ASSUME TrapInv, NEW t \in Trap,
         \/ wire' = wire
         \/ wire' = wire \ {t}
         \/ wire' = wire \cup {t} /\ Cardinality(wire) < WireLimit
  PROVE  wire' \subseteq Trap /\ Cardinality(wire') <= WireLimit /\ IsFiniteSet(wire')
<1> USE TrapNumbers
<1>1. wire \subseteq Trap /\ IsFiniteSet(wire) /\ Cardinality(wire) \in Nat
      /\ Cardinality(wire) <= WireLimit
  BY FS_CardinalityType DEF TrapInv, TrapTypeOK
<1>2. CASE wire' = wire
  BY <1>1, <1>2
<1>3. CASE wire' = wire \ {t}
  <2>1. IsFiniteSet(wire \ {t}) /\ Cardinality(wire \ {t}) \in {Cardinality(wire), Cardinality(wire) - 1}
    BY <1>1, FS_RemoveElement
  <2>2. Cardinality(wire \ {t}) \in Nat
    BY <2>1, FS_CardinalityType
  <2>3. QED
    BY <1>1, <1>3, <2>1, <2>2
<1>4. CASE wire' = wire \cup {t} /\ Cardinality(wire) < WireLimit
  <2>1. IsFiniteSet(wire \cup {t}) /\ Cardinality(wire \cup {t}) \in {Cardinality(wire), Cardinality(wire) + 1}
    BY <1>1, FS_AddElement
  <2>2. Cardinality(wire \cup {t}) \in Nat
    BY <2>1, FS_CardinalityType
  <2>3. QED
    BY <1>1, <1>4, <2>1, <2>2
<1>5. QED
  BY <1>2, <1>3, <1>4

LEMMA TrapInvNext == TrapInv /\ [TrapNext]_trapVars => TrapInv'
<1> USE TrapNumbers
<1> SUFFICES ASSUME TrapInv, [TrapNext]_trapVars PROVE TrapInv'
  OBVIOUS
<1> USE DEF TrapInv
<1>1. ASSUME NEW trap \in Trap, SendTrap(trap) PROVE TrapInv'
  BY <1>1, WireKept DEF SendTrap, TrapTypeOK, QuietBecauseAnnounced
<1>2. ASSUME NEW trap \in Trap, LoseTrap(trap) PROVE TrapInv'
  BY <1>2, WireKept DEF LoseTrap, TrapTypeOK, QuietBecauseAnnounced
<1>3. ASSUME NEW trap \in Trap, HandleTrap(trap) PROVE TrapInv'
  <2>1. wire' \subseteq Trap /\ Cardinality(wire') <= WireLimit /\ IsFiniteSet(wire')
    BY <1>3, WireKept DEF HandleTrap
  <2>2. failed' \in 0..MaxFailed
    <3>1. failed \in 0..MaxFailed
      BY DEF TrapTypeOK
    <3>2. failed' = failed \/ (failed < MaxFailed /\ failed' = failed + 1)
      BY <1>3 DEF HandleTrap
    <3>3. QED
      BY <3>1, <3>2
  <2>3. CASE quiet' = quiet /\ since' = since
    BY <1>3, <2>1, <2>2, <2>3 DEF HandleTrap, TrapTypeOK, QuietBecauseAnnounced
  <2>4. CASE /\ Announces(trap)
             /\ quiet' = [quiet EXCEPT ![Key(trap)] = Quiet]
             /\ since' = [since EXCEPT ![Key(trap)] = 0]
    <3>1. Key(trap) \in Keys
      BY <2>4 DEF Announces, Key, Keys, Trap
    <3>2. Balanced(quiet, since)
      BY BalancedInv
    <3>3. Balanced(quiet', since')
      BY <2>4, <3>1, <3>2 DEF Balanced
    <3>4. QED
      BY <1>3, <2>1, <2>2, <3>3 DEF HandleTrap, TrapTypeOK, Balanced, QuietBecauseAnnounced
  <2>5. QED
    BY <1>3, <2>3, <2>4 DEF HandleTrap, QuietAfter
<1>4. ASSUME TrapTick PROVE TrapInv'
  <2>1. Balanced(quiet, since)
    BY BalancedInv
  <2>2. Balanced(quiet', since')
    BY <1>4, <2>1 DEF TrapTick, Balanced
  <2>3. QED
    BY <1>4, <2>2 DEF TrapTick, TrapTypeOK, Balanced, QuietBecauseAnnounced
<1>5. ASSUME NEW c \in Communities \cup {""}, SetCommunity(c) PROVE TrapInv'
  BY <1>5 DEF SetCommunity, TrapTypeOK, QuietBecauseAnnounced
<1>6. ASSUME ReceiverDies PROVE TrapInv'
  BY <1>6 DEF ReceiverDies, TrapTypeOK, QuietBecauseAnnounced
<1>7. ASSUME RestartReceiver PROVE TrapInv'
  <2>1. Balanced(quiet', since')
    BY <1>7, BalancedStart DEF RestartReceiver
  <2>2. QED
    BY <1>7, <2>1 DEF RestartReceiver, TrapTypeOK, Balanced, QuietBecauseAnnounced
<1>8. ASSUME UNCHANGED trapVars PROVE TrapInv'
  BY <1>8 DEF trapVars, TrapTypeOK, QuietBecauseAnnounced
<1>9. QED
  BY <1>1, <1>2, <1>3, <1>4, <1>5, <1>6, <1>7, <1>8 DEF TrapNext

LEMMA TrapInvAlways == TrapSpec => []TrapInv
BY TrapInvInit, TrapInvNext, PTL DEF TrapSpec

\* For any devices, communities and quiet time, whatever the network loses and
\* doubles: a source and category is quiet exactly for the time since its last
\* message.
THEOREM QuietTheorem == TrapSpec => []QuietBecauseAnnounced
<1>1. TrapInv => QuietBecauseAnnounced
  BY DEF TrapInv
<1>2. QED
  BY <1>1, TrapInvAlways, PTL

\* Within TRAP_ALERT_DEDUPE_S no second message of a source and category goes
\* out, unless the program was restarted.
THEOREM SpacedTheorem == TrapSpec => TrapsSpaced
<1> USE TrapNumbers
<1>1. ASSUME TrapInv, [TrapNext]_trapVars, NEW k \in Keys, since'[k] = 0, since[k] # 0
      PROVE  since[k] = Quiet
  <2> USE <1>1
  <2>1. /\ quiet[k] \in 0..Quiet /\ since[k] \in 0..Quiet /\ quiet[k] + since[k] = Quiet
        /\ quiet \in [Keys -> 0..Quiet] /\ since \in [Keys -> 0..Quiet]
    BY DEF TrapInv, TrapTypeOK, QuietBecauseAnnounced
  <2>2. ~TrapTick /\ ~RestartReceiver
    BY <2>1 DEF TrapTick, RestartReceiver
  <2>3. ASSUME NEW trap \in Trap, HandleTrap(trap) PROVE since[k] = Quiet
    <3>1. since' # since
      BY <2>1
    <3>2. Announces(trap) /\ since' = [since EXCEPT ![Key(trap)] = 0]
      BY <2>3, <3>1 DEF HandleTrap
    <3>3. Key(trap) = k
      BY <2>1, <3>2
    <3>4. ~(quiet[k] > 0)
      BY <3>2, <3>3 DEF Announces, Muted
    <3>5. QED
      BY <2>1, <3>4
  <2>4. since' # since
    BY <2>1
  <2>5. PICK trap \in Trap : HandleTrap(trap)
    BY <2>2, <2>4 DEF TrapNext, trapVars, SendTrap, LoseTrap, SetCommunity, ReceiverDies
  <2>6. QED
    BY <2>3, <2>5
<1>2. TrapInv /\ [TrapNext]_trapVars =>
        [\A k \in Keys : since'[k] = 0 /\ since[k] # 0 => since[k] = Quiet]_trapVars
  BY <1>1
<1>3. QED
  BY <1>2, TrapInvAlways, PTL DEF TrapSpec, TrapsSpaced

-----------------------------------------------------------------------------
(* DbBackup                                                                 *)

\* As long as fewer than BackupKeep backups failed since the last good one,
\* some good file has no more present files after it than backups failed.
GoodIsNear ==
    failures < BackupKeep =>
        \E g \in Good : Cardinality({e \in Present : e > g}) <= failures
FilesArePast == Present \subseteq 1..day
\* An empty file tells of a backup that failed that day.
EmptyHasFailed == Present \ Good \subseteq failedDays

BackupInv ==
    BackupTypeOK /\ GoodIsNear /\ FilesArePast /\ EmptyHasFailed /\ RecentBackupsKept

LEMMA BackupNumbers ==
  BackupKeep \in Nat /\ BackupKeep > 0 /\ LastDay \in Nat /\ LastDay >= BackupKeep
  /\ MaxManual \in Nat
<1>1. BackupKeep \in Nat /\ BackupKeep # 0 /\ LastDay \in Nat /\ LastDay >= BackupKeep
      /\ MaxManual \in Nat
  BY BackupAssumption
<1>2. QED
  BY <1>1

\* Days are finitely many, and so are those of any files.
LEMMA DaysFinite ==
  ASSUME NEW S \in SUBSET BackupDays
  PROVE  IsFiniteSet(S) /\ Cardinality(S) \in Nat
<1>1. IsFiniteSet(BackupDays)
  BY BackupNumbers, FS_Interval DEF BackupDays
<1>2. IsFiniteSet(S)
  BY <1>1, FS_Subset
<1>3. QED
  BY <1>2, FS_CardinalityType

LEMMA BackupInvInit == BackupInit => BackupInv
<1> SUFFICES ASSUME BackupInit PROVE BackupInv
  OBVIOUS
<1>1. 1 \in 1..LastDay /\ LastDay \in 0..LastDay /\ ~(LastDay < BackupKeep) /\ 0 \in 0..MaxManual
  BY BackupNumbers
<1>2. BackupTypeOK
  BY <1>1 DEF BackupInit, BackupTypeOK, BackupDays, Tasks
<1>3. Present = {}
  BY DEF BackupInit, Present
<1>4. QED
  BY <1>1, <1>2, <1>3
     DEF BackupInit, BackupInv, GoodIsNear, FilesArePast, EmptyHasFailed, RecentBackupsKept

\* Files and what is known of them stay as they are.
LEMMA FilesKept ==
  ASSUME BackupInv, BackupTypeOK', files' = files, failures' = failures, day' = day,
         settled' = settled, failedDays' = failedDays
  PROVE  BackupInv'
BY DEF BackupInv, GoodIsNear, FilesArePast, EmptyHasFailed, RecentBackupsKept, Good, Present

\* The files of the last BackupKeep days are among the newest.
LEMMA RecentAreNewest ==
  ASSUME BackupInv, NEW d \in Present, d > day - BackupKeep
  PROVE  d \in Newest
<1>1. BackupKeep \in Nat /\ day \in Nat /\ Present \subseteq BackupDays /\ Present \subseteq 1..day
  BY BackupNumbers DEF BackupInv, BackupTypeOK, FilesArePast, BackupDays, Present
<1>2. d \in 1..day /\ d \in Nat
  BY <1>1
<1> DEFINE S == {e \in Present : e > d}
<1>a. \A e \in 1..day : e > d => e \in (d + 1)..day
  BY <1>1, <1>2
<1>3. S \subseteq (d + 1)..day
  BY <1>1, <1>a
<1>4. IsFiniteSet((d + 1)..day)
      /\ Cardinality((d + 1)..day) = IF d + 1 > day THEN 0 ELSE day - (d + 1) + 1
  BY <1>1, <1>2, FS_Interval
<1>5. S \in SUBSET BackupDays
  BY <1>1
<1> HIDE DEF S
<1>6. Cardinality(S) <= Cardinality((d + 1)..day) /\ Cardinality(S) \in Nat
  BY <1>3, <1>4, <1>5, FS_Subset, DaysFinite
<1>7. Cardinality((d + 1)..day) < BackupKeep
  BY <1>1, <1>2, <1>4
<1>8. Cardinality(S) < BackupKeep
  BY <1>1, <1>4, <1>6, <1>7
<1>9. QED
  BY <1>8 DEF Newest, S

LEMMA BackupInvNext == BackupInv /\ [BackupNext]_backupVars => BackupInv'
<1> SUFFICES ASSUME BackupInv, [BackupNext]_backupVars PROVE BackupInv'
  OBVIOUS
<1>t. BackupTypeOK /\ day \in 1..LastDay /\ failures \in 0..LastDay
      /\ files \in [BackupDays -> {"absent", "empty", "good"}]
      /\ settled \subseteq BackupDays /\ failedDays \subseteq BackupDays
      /\ task \in [Tasks -> {"idle", "due", "backup", "rotate"}]
  BY DEF BackupInv, BackupTypeOK, BackupDays
<1>n. BackupKeep \in Nat /\ BackupKeep > 0 /\ LastDay \in Nat /\ LastDay >= BackupKeep
      /\ MaxManual \in Nat
  BY BackupNumbers
<1>1. CASE NextDay
  <2>1. BackupTypeOK'
    BY <1>1, <1>t, <1>n DEF NextDay, BackupTypeOK, BackupDays
  <2>2. Good' = Good /\ Present' = Present /\ settled' = settled /\ failedDays' = failedDays
        /\ failures' = failures
    BY <1>1 DEF NextDay, Good, Present
  <2>3. day' = day + 1 /\ 1..day \subseteq 1..(day + 1)
    BY <1>1, <1>t DEF NextDay
  <2>4. GoodIsNear' /\ EmptyHasFailed'
    BY <2>2 DEF BackupInv, GoodIsNear, EmptyHasFailed
  <2>5. FilesArePast'
    BY <2>2, <2>3 DEF BackupInv, FilesArePast
  <2>6. \A d \in BackupDays : d > day' - BackupKeep => d > day - BackupKeep
    BY <1>t, <1>n, <2>3 DEF BackupDays
  <2>7. RecentBackupsKept'
    BY <1>t, <2>2, <2>6 DEF BackupInv, RecentBackupsKept
  <2>8. QED
    BY <2>1, <2>4, <2>5, <2>7 DEF BackupInv
<1>2. CASE FiveAfter
  <2>1. BackupTypeOK'
    BY <1>2, <1>t DEF FiveAfter, BackupTypeOK, Tasks
  <2>2. QED
    BY <1>2, <2>1, FilesKept DEF FiveAfter
<1>3. CASE StartProgram
  <2>1. BackupTypeOK'
    BY <1>3, <1>t DEF StartProgram, BackupTypeOK, Tasks
  <2>2. QED
    BY <1>3, <2>1, FilesKept DEF StartProgram
<1>4. CASE EndProgram
  <2>1. BackupTypeOK'
    BY <1>4, <1>t DEF EndProgram, BackupTypeOK
  <2>2. QED
    BY <1>4, <2>1, FilesKept DEF EndProgram
<1>5. CASE CatchUp
  <2>1. files' = files /\ failures' = failures /\ day' = day /\ failedDays' = failedDays
        /\ early' = early /\ manual' = manual /\ running' = running
    BY <1>5 DEF CatchUp
  <2>2. day \in BackupDays
    BY <1>t DEF BackupDays
  <2>3. BackupTypeOK'
    BY <1>5, <1>t, <2>1, <2>2 DEF CatchUp, BackupTypeOK, Tasks
  <2>4. Good' = Good /\ Present' = Present
    BY <2>1 DEF Good, Present
  <2>5. settled' \subseteq settled \cup {day} /\ (day \in settled' \ settled => day \in Present)
    BY <1>5, <2>2 DEF CatchUp, NoFileOfToday
  <2>6. GoodIsNear' /\ FilesArePast' /\ EmptyHasFailed'
    BY <2>1, <2>4 DEF BackupInv, GoodIsNear, FilesArePast, EmptyHasFailed
  <2>7. RecentBackupsKept'
    BY <2>1, <2>4, <2>5 DEF BackupInv, EmptyHasFailed, RecentBackupsKept
  <2>8. QED
    BY <2>3, <2>6, <2>7 DEF BackupInv
<1>6. ASSUME NEW t \in Tasks, BackupDatabase(t) PROVE BackupInv'
  <2>1. day' = day /\ manual' = manual /\ early' = early /\ running' = running
        /\ task' = [task EXCEPT ![t] = "rotate"] /\ settled' = settled \cup {day}
    BY <1>6 DEF BackupDatabase
  <2>2. day \in BackupDays
    BY <1>t DEF BackupDays
  <2>3. ASSUME files' = [files EXCEPT ![day] = "good"], failures' = 0, failedDays' = failedDays
        PROVE  BackupInv'
    <3>1. /\ files' \in [BackupDays -> {"absent", "empty", "good"}] /\ failures' \in 0..LastDay
      BY <1>t, <1>n, <2>2, <2>3
    <3>2. BackupTypeOK'
      BY <1>t, <2>1, <2>2, <2>3, <3>1 DEF BackupTypeOK
    <3>3. Present' = Present \cup {day} /\ Good' = Good \cup {day}
      BY <1>t, <2>2, <2>3 DEF Present, Good
    <3>4. FilesArePast'
      BY <1>t, <2>1, <3>3 DEF BackupInv, FilesArePast
    <3>5. {e \in Present' : e > day} = {}
      <4>1. \A e \in Present' : e \in 1..day
        BY <2>1, <3>4 DEF FilesArePast
      <4>2. \A e \in 1..day : ~(e > day)
        BY <1>t
      <4>3. QED
        BY <4>1, <4>2
    <3>6. Cardinality({}) = 0
      BY FS_EmptySet
    <3>g. day \in Good'
      BY <3>3
    <3>7. GoodIsNear'
      BY <2>3, <3>g, <3>5, <3>6 DEF GoodIsNear
    <3>8. EmptyHasFailed' /\ RecentBackupsKept'
      BY <2>1, <2>3, <3>3 DEF BackupInv, EmptyHasFailed, RecentBackupsKept
    <3>9. QED
      BY <3>2, <3>4, <3>7, <3>8 DEF BackupInv
  <2>4. ASSUME files' \in {files, [files EXCEPT ![day] = IF @ = "absent" THEN "empty" ELSE @]},
               failures' = IF failures < LastDay THEN failures + 1 ELSE failures,
               failedDays' = failedDays \cup {day}
        PROVE  BackupInv'
    <3>1. /\ files' \in [BackupDays -> {"absent", "empty", "good"}] /\ failures' \in 0..LastDay
      BY <1>t, <1>n, <2>2, <2>4
    <3>2. BackupTypeOK'
      BY <1>t, <2>1, <2>2, <2>4, <3>1 DEF BackupTypeOK
    <3>3. Present' \subseteq Present \cup {day}
      BY <1>t, <2>4 DEF Present
    <3>4. FilesArePast'
      BY <1>t, <2>1, <3>3 DEF BackupInv, FilesArePast
    <3>5. Good' = Good
      BY <1>t, <2>4 DEF Good
    <3>6. GoodIsNear'
      <4> SUFFICES ASSUME failures' < BackupKeep
                   PROVE  \E g \in Good' : Cardinality({e \in Present' : e > g}) <= failures'
        BY DEF GoodIsNear
      <4>1. failures < BackupKeep /\ failures' = failures + 1
        BY <1>t, <1>n, <2>4
      <4>2. PICK g \in Good : Cardinality({e \in Present : e > g}) <= failures
        BY <4>1 DEF BackupInv, GoodIsNear
      <4> DEFINE S == {e \in Present : e > g}
                 T == {e \in Present' : e > g}
      <4>3. S \in SUBSET BackupDays /\ T \in SUBSET BackupDays
        BY DEF Present
      <4>4. T \subseteq S \cup {day}
        BY <3>3
      <4> HIDE DEF S, T
      <4>5. IsFiniteSet(S) /\ Cardinality(S) \in Nat /\ Cardinality(T) \in Nat
        BY <4>3, DaysFinite
      <4>6. /\ IsFiniteSet(S \cup {day})
            /\ Cardinality(S \cup {day}) \in {Cardinality(S), Cardinality(S) + 1}
        BY <4>5, FS_AddElement
      <4>7. Cardinality(T) <= Cardinality(S \cup {day}) /\ Cardinality(S \cup {day}) \in Nat
        BY <4>4, <4>6, FS_Subset, FS_CardinalityType
      <4>8. Cardinality(S) <= failures
        BY <4>2 DEF S
      <4>9. Cardinality(T) <= failures'
        BY <1>t, <4>1, <4>5, <4>6, <4>7, <4>8
      <4>10. QED
        BY <3>5, <4>9 DEF T
    <3>7. EmptyHasFailed' /\ RecentBackupsKept'
      BY <2>1, <2>4, <3>3, <3>5 DEF BackupInv, EmptyHasFailed, RecentBackupsKept
    <3>8. QED
      BY <3>2, <3>4, <3>6, <3>7 DEF BackupInv
  <2>5. QED
    BY <1>6, <2>3, <2>4 DEF BackupDatabase
<1>7. ASSUME NEW t \in Tasks, Rotate(t) PROVE BackupInv'
  <2>1. files' = [d \in BackupDays |-> IF d \in Newest THEN files[d] ELSE "absent"]
        /\ failures' = failures /\ day' = day /\ settled' = settled /\ failedDays' = failedDays
    BY <1>7 DEF Rotate
  <2>2. BackupTypeOK'
    BY <1>7, <1>t DEF Rotate, BackupTypeOK
  <2>3. Present' \subseteq Present /\ Good' = Good \cap Newest /\ Present' \ Good' \subseteq Present \ Good
    BY <2>1 DEF Present, Good
  <2>4. FilesArePast' /\ EmptyHasFailed'
    BY <2>1, <2>3 DEF BackupInv, FilesArePast, EmptyHasFailed
  <2>5. GoodIsNear'
    <3> SUFFICES ASSUME failures < BackupKeep
                 PROVE  \E g \in Good' : Cardinality({e \in Present' : e > g}) <= failures
      BY <2>1 DEF GoodIsNear
    <3>1. PICK g \in Good : Cardinality({e \in Present : e > g}) <= failures
      BY DEF BackupInv, GoodIsNear
    <3> DEFINE S == {e \in Present : e > g}
               T == {e \in Present' : e > g}
    <3>2. S \in SUBSET BackupDays /\ T \in SUBSET BackupDays /\ T \subseteq S
      BY <2>3 DEF Present
    <3>3. g \in BackupDays /\ g \in Present
      BY DEF Good, Present
    <3> HIDE DEF S, T
    <3>4. IsFiniteSet(S) /\ Cardinality(S) \in Nat /\ Cardinality(T) \in Nat
      BY <3>2, DaysFinite
    <3>5. Cardinality(T) <= Cardinality(S)
      BY <3>2, <3>4, FS_Subset
    <3>6. Cardinality(S) <= failures
      BY <3>1 DEF S
    <3>7. Cardinality(T) <= failures /\ Cardinality(S) < BackupKeep
      BY <1>t, <1>n, <3>4, <3>5, <3>6
    <3>8. g \in Newest
      BY <3>3, <3>7 DEF Newest, S
    <3>9. QED
      BY <2>3, <3>7, <3>8 DEF T
  <2>6. RecentBackupsKept'
    <3>1. \A d \in Good : d \in Present
      BY DEF Good, Present
    <3>2. QED
      BY <2>1, <2>3, <3>1, RecentAreNewest DEF BackupInv, RecentBackupsKept
  <2>7. QED
    BY <2>2, <2>4, <2>5, <2>6 DEF BackupInv
<1>8. CASE ManualBackup
  <2>1. BackupTypeOK'
    BY <1>8, <1>t, <1>n DEF ManualBackup, BackupTypeOK
  <2>2. QED
    BY <1>8, <2>1, FilesKept DEF ManualBackup
<1>9. CASE UNCHANGED backupVars
  <2>1. BackupTypeOK'
    BY <1>9, <1>t DEF backupVars, BackupTypeOK
  <2>2. QED
    BY <1>9, <2>1, FilesKept DEF backupVars
<1>10. QED
  BY <1>1, <1>2, <1>3, <1>4, <1>5, <1>6, <1>7, <1>8, <1>9 DEF BackupNext

LEMMA BackupInvAlways == BackupSpec => []BackupInv
BY BackupInvInit, BackupInvNext, PTL DEF BackupSpec

\* For any number of files kept, the rotation leaves a good backup unless that
\* many backups failed in a row.
THEOREM LastGoodTheorem == BackupSpec => []LastGoodBackupKept
<1>1. BackupInv => LastGoodBackupKept
  BY DEF BackupInv, GoodIsNear, LastGoodBackupKept
<1>2. QED
  BY <1>1, BackupInvAlways, PTL

\* For any number of files kept and any starts of the program: of the last so
\* many days, each on which the job ran or the program was started has a good
\* backup, unless one of that day failed.
THEOREM RecentTheorem == BackupSpec => []RecentBackupsKept
<1>1. BackupInv => RecentBackupsKept
  BY DEF BackupInv
<1>2. QED
  BY <1>1, BackupInvAlways, PTL

-----------------------------------------------------------------------------
(* Discovery                                                                *)

\* Runs that have read the list and not yet stored it.
Between == {r \in Runs : scan[r].at \in {"compared", "told"}}

\* Unless two runs were between reading and storing the list at a time, the one
\* that is has read the list as it still is, and what was told is the list, or,
\* once the message went out, what this run has found.
OneBetween ==
    ~overlapped =>
        /\ \A r, u \in Between : r = u
        /\ \A r \in Between : scan[r].old = listed
        /\ \A r \in Between : scan[r].at = "told" =>
              \A d \in Devices \ (lapsed \cup unnamed) :
                 d \in told <=> d \in scan[r].found
        /\ (\A r \in Runs : scan[r].at # "told")
              => \A d \in Devices \ (lapsed \cup unnamed) : d \in told <=> d \in listed

DiscoveryInv == DiscoveryTypeOK /\ OneBetween

LEMMA DiscoveryInvInit == DiscoveryInit => DiscoveryInv
<1>1. MaxLapses \in Nat
  BY DiscoveryAssumption
<1>2. 0 \in 0..MaxLapses
  BY <1>1
<1> SUFFICES ASSUME DiscoveryInit PROVE DiscoveryInv
  OBVIOUS
<1>3. DiscoveryTypeOK
  BY <1>2 DEF DiscoveryInit, DiscoveryTypeOK, NoScan
<1>4. Between = {}
  BY DEF DiscoveryInit, Between, NoScan
<1>5. QED
  BY <1>3, <1>4 DEF DiscoveryInit, DiscoveryInv, OneBetween

LEMMA DiscoveryInvNext == DiscoveryInv /\ [DiscoveryNext]_discoveryVars => DiscoveryInv'
<1> SUFFICES ASSUME DiscoveryInv, [DiscoveryNext]_discoveryVars PROVE DiscoveryInv'
  OBVIOUS
<1>t. DiscoveryTypeOK /\ OneBetween /\ MaxLapses \in Nat
  BY DiscoveryAssumption DEF DiscoveryInv
<1>1. ASSUME NEW r \in Runs, StartScan(r) PROVE DiscoveryInv'
  <2>1. DiscoveryTypeOK'
    BY <1>1, <1>t DEF StartScan, DiscoveryTypeOK, NoScan
  <2>2. \A u \in Runs : u # r => scan'[u] = scan[u]
    BY <1>1, <1>t DEF StartScan, DiscoveryTypeOK
  <2>3. scan[r].at = "idle" /\ scan'[r].at = "asking"
    BY <1>1, <1>t DEF StartScan, DiscoveryTypeOK, NoScan
  <2>4. QED
    BY <1>1, <1>t, <2>1, <2>2, <2>3 DEF StartScan, DiscoveryInv, OneBetween, Between
<1>2. ASSUME NEW r \in Runs, NEW d \in Devices, NEW said, Probe(r, d, said)
      PROVE  DiscoveryInv'
  <2>1. DiscoveryTypeOK'
    BY <1>2, <1>t DEF Probe, DiscoveryTypeOK
  <2>2. \A u \in Runs : u # r => scan'[u] = scan[u]
    BY <1>2, <1>t DEF Probe, DiscoveryTypeOK
  <2>3. scan[r].at = "asking" /\ scan'[r].at \in {"asking", "scanned"}
    BY <1>2, <1>t DEF Probe, DiscoveryTypeOK
  <2>4. QED
    BY <1>2, <1>t, <2>1, <2>2, <2>3 DEF Probe, DiscoveryInv, OneBetween, Between
<1>3. ASSUME NEW r \in Runs, Compare(r) PROVE DiscoveryInv'
  <2>1. DiscoveryTypeOK'
    BY <1>3, <1>t DEF Compare, DiscoveryTypeOK
  <2>2. \A u \in Runs : u # r => scan'[u] = scan[u]
    BY <1>3, <1>t DEF Compare, DiscoveryTypeOK
  <2>3. /\ scan[r].at = "scanned" /\ scan'[r].at = "compared" /\ scan'[r].old = listed
        /\ listed' = listed /\ told' = told /\ lapsed' = lapsed /\ unnamed' = unnamed
        /\ ~overlapped' => ~overlapped /\ \A u \in Runs \ {r} : scan[u].at \notin {"compared", "told"}
    BY <1>3, <1>t DEF Compare, DiscoveryTypeOK
  <2>4. OneBetween'
    BY <1>t, <2>2, <2>3 DEF OneBetween, Between
  <2>5. QED
    BY <2>1, <2>4 DEF DiscoveryInv
<1>4. ASSUME NEW r \in Runs, Tell(r) PROVE DiscoveryInv'
  <2>1. DiscoveryTypeOK'
    BY <1>4, <1>t DEF Tell, DiscoveryTypeOK, Added, Removed, NamedIn, LeftOut, First
  <2>2. \A u \in Runs : u # r => scan'[u] = scan[u]
    BY <1>4, <1>t DEF Tell, DiscoveryTypeOK
  <2>3. /\ scan[r].at = "compared" /\ scan'[r].at = "told" /\ scan'[r].old = scan[r].old
        /\ scan'[r].found = scan[r].found
        /\ listed' = listed /\ overlapped' = overlapped
    BY <1>4, <1>t DEF Tell, DiscoveryTypeOK
  <2>4. OneBetween'
    <3> SUFFICES ASSUME ~overlapped PROVE OneBetween'
      BY <2>3 DEF OneBetween
    <3>1. r \in Between /\ (\A u \in Between : u = r) /\ scan[r].old = listed
      BY <1>t, <2>3 DEF OneBetween, Between
    <3>2. \A u \in Runs : scan[u].at # "told"
      BY <2>3, <3>1 DEF Between
    <3>3. \A d \in Devices \ (lapsed \cup unnamed) : d \in told <=> d \in listed
      BY <1>t, <3>2 DEF OneBetween
    <3> DEFINE new  == scan[r].found \ listed
               gone == listed \ scan[r].found
    <3>4. /\ told' = (told \cup First(new)) \ First(gone)
          /\ lapsed' = lapsed \ (First(new) \cup First(gone))
          /\ unnamed' = (unnamed \ (First(new) \cup First(gone)))
                           \cup ((new \cup gone) \ (First(new) \cup First(gone)))
      BY <1>4, <3>1 DEF Tell, Added, Removed, NamedIn, LeftOut
    <3>n. First(new) \subseteq new /\ First(gone) \subseteq gone
      BY DEF First
    <3>5. \A d \in Devices \ (lapsed' \cup unnamed') : d \in told' <=> d \in scan[r].found
      <4> SUFFICES ASSUME NEW d \in Devices \ (lapsed' \cup unnamed')
                   PROVE  d \in told' <=> d \in scan[r].found
        OBVIOUS
      <4>1. CASE d \in First(new) \cup First(gone)
        BY <3>4, <3>n, <4>1
      <4>2. CASE d \notin First(new) \cup First(gone)
        BY <3>3, <3>4, <4>2
      <4>3. QED
        BY <4>1, <4>2
    <3>6. \A u \in Between' : u = r
      BY <2>2, <3>1 DEF Between
    <3>7. QED
      BY <2>3, <3>1, <3>5, <3>6 DEF OneBetween, Between
  <2>5. QED
    BY <2>1, <2>4 DEF DiscoveryInv
<1>5. ASSUME NEW r \in Runs, StoreList(r) PROVE DiscoveryInv'
  <2>1. DiscoveryTypeOK'
    <3>1. listed' \subseteq Devices /\ lapsed' \subseteq Devices
      BY <1>5, <1>t DEF StoreList, DiscoveryTypeOK, NewList, Added, Removed
    <3>2. lapses' \in 0..MaxLapses
      BY <1>5, <1>t DEF StoreList, DiscoveryTypeOK
    <3>3. QED
      BY <1>5, <1>t, <3>1, <3>2 DEF StoreList, DiscoveryTypeOK, NoScan
  <2>2. \A u \in Runs : u # r => scan'[u] = scan[u]
    BY <1>5, <1>t DEF StoreList, DiscoveryTypeOK
  <2>3. scan[r].at = "told" /\ scan'[r].at = "idle" /\ told' = told
        /\ unnamed' = unnamed /\ overlapped' = overlapped
    BY <1>5, <1>t DEF StoreList, DiscoveryTypeOK, NoScan
  <2>4. OneBetween'
    <3> SUFFICES ASSUME ~overlapped PROVE OneBetween'
      BY <2>3 DEF OneBetween
    <3>1. r \in Between /\ (\A u \in Between : u = r) /\ scan[r].old = listed
      BY <1>t, <2>3 DEF OneBetween, Between
    <3>2. \A d \in Devices \ (lapsed \cup unnamed) : d \in told <=> d \in scan[r].found
      BY <1>t, <2>3, <3>1 DEF OneBetween
    <3>3. Between' = {}
      BY <2>2, <2>3, <3>1 DEF Between
    <3>4. \/ listed' = scan[r].found /\ lapsed' = lapsed
          \/ /\ listed' = listed
             /\ lapsed' = lapsed \cup (scan[r].found \ listed) \cup (listed \ scan[r].found)
      BY <1>5, <3>1 DEF StoreList, NewList, Added, Removed
    <3>5. \A d \in Devices \ (lapsed' \cup unnamed') : d \in told' <=> d \in listed'
      BY <2>3, <3>2, <3>4
    <3>6. QED
      BY <3>3, <3>5 DEF OneBetween
  <2>5. QED
    BY <2>1, <2>4 DEF DiscoveryInv
<1>6. ASSUME UNCHANGED discoveryVars PROVE DiscoveryInv'
  BY <1>6, <1>t DEF discoveryVars, DiscoveryInv, DiscoveryTypeOK, OneBetween, Between
<1>7. QED
  BY <1>1, <1>2, <1>3, <1>4, <1>5, <1>6 DEF DiscoveryNext

\* For any subnet, any number of runs and any number of devices a message names:
\* what was announced as new and not as missing since is what the list holds, with
\* the exceptions the property states: a device that the last message about it did
\* not name, one whose list could not be stored, and runs that overlapped.
THEOREM DiscoveryTheorem == DiscoverySpec => []ToldIsTheList
<1>1. DiscoveryInv => ToldIsTheList
  BY DEF DiscoveryInv, OneBetween, ToldIsTheList
<1>2. QED
  BY <1>1, DiscoveryInvInit, DiscoveryInvNext, PTL DEF DiscoverySpec

-----------------------------------------------------------------------------
(* LimitSettings                                                            *)

\* A limit that was read for its place in the order.
WasRead(u, k) == \E n \in 1..Len(Limit) : n < save[u].at /\ Limit[n] = k

\* k was not sent, other was: what was read of k is still in the table.
StillThere(u, k, other) ==
    save[u].at # 0 /\ k \notin save[u].keys /\ other \in save[u].keys /\ WasRead(u, k)
        => save[u].l[k] = limit[k]

\* Unless a pair was crossed, a request holds it against what the table has.
ReadIsCurrent ==
    \A u \in Savers, p \in Pairs \ crossed :
        StillThere(u, p[1], p[2]) /\ StillThere(u, p[2], p[1])

SentInRange ==
    \A u \in Savers : save[u].at # 0 =>
        \A k \in save[u].keys : save[u].l[k] \in InRange[k]

LimitInv == LimitTypeOK /\ SentInRange /\ ReadIsCurrent /\ LimitsStayOrdered

LEMMA LimitFacts ==
  /\ Len(Limit) \in Nat
  /\ \A n \in 1..Len(Limit) : Limit[n] \in LimitKeys
  /\ \A k \in LimitKeys : \E n \in 1..Len(Limit) : Limit[n] = k
  /\ \A k \in LimitKeys : Defaults[k] \in InRange[k] /\ InRange[k] \subseteq Values
  /\ \A p \in Pairs : p[1] \in LimitKeys /\ p[2] \in LimitKeys
  /\ \A p \in Pairs : Ordered(p, [k \in LimitKeys |-> Defaults[k]])
<1>1. Limit \in Seq(LimitKeys) /\ \A k \in LimitKeys : Defaults[k] \in InRange[k]
  BY LimitAssumption
<1>2. Len(Limit) \in Nat /\ DOMAIN Limit = 1..Len(Limit)
  BY <1>1, LenProperties
<1>3. \A n \in 1..Len(Limit) : Limit[n] \in LimitKeys
  BY <1>1, ElementOfSeq
<1>4. \A k \in LimitKeys : \E n \in 1..Len(Limit) : Limit[n] = k
  BY <1>2 DEF LimitKeys
<1>5. \A k \in LimitKeys : InRange[k] \subseteq Values
  BY DEF Values
<1>6. \A p \in Pairs : p[1] \in LimitKeys /\ p[2] \in LimitKeys
  BY DEF Pairs
<1>7. \A p \in Pairs : Ordered(p, [k \in LimitKeys |-> Defaults[k]])
  BY LimitAssumption
<1>8. QED
  BY <1>1, <1>2, <1>3, <1>4, <1>5, <1>6, <1>7

\* Whether a pair is in order depends on its two limits only.
LEMMA OrderedAlike ==
  ASSUME NEW p, NEW l, NEW m, l[p[1]] = m[p[1]], l[p[2]] = m[p[2]]
  PROVE  Ordered(p, l) <=> Ordered(p, m)
BY DEF Ordered

LEMMA LimitInvInit == LimitInit => LimitInv
<1> SUFFICES ASSUME LimitInit PROVE LimitInv
  OBVIOUS
<1>1. 0 \in 0..Done
  BY LimitFacts DEF Done
<1>2. LimitTypeOK
  <2>1. \A k \in LimitKeys : Defaults[k] \in Values /\ Defaults[k] \in InRange[k]
    BY LimitFacts
  <2>2. QED
    BY <1>1, <2>1 DEF LimitInit, LimitTypeOK, NoSave
<1>3. ReadIsCurrent
  BY DEF LimitInit, ReadIsCurrent, StillThere, NoSave
<1>4. LimitsStayOrdered
  BY LimitFacts DEF LimitInit, LimitsStayOrdered
<1>5. SentInRange
  BY DEF LimitInit, SentInRange, NoSave
<1>6. QED
  BY <1>2, <1>3, <1>4, <1>5 DEF LimitInv

\* A step that leaves the table alone and, for one request only, starts it anew
\* or puts it back.
LEMMA FreshSave ==
  ASSUME LimitInv, NEW s \in Savers, NEW new,
         new \in [at : {0, 1}, keys : SUBSET LimitKeys, l : [LimitKeys -> Values]],
         new.at # 0 => \A k \in new.keys : new.l[k] \in InRange[k],
         save' = [save EXCEPT ![s] = new], limit' = limit, crossed' = crossed
  PROVE  LimitInv'
<1>1. LimitTypeOK'
  <2>1. {0, 1} \subseteq 0..Done
    BY LimitFacts DEF Done
  <2>2. QED
    BY <2>1 DEF LimitInv, LimitTypeOK
<1>2. ReadIsCurrent'
  <2> SUFFICES ASSUME NEW u \in Savers, NEW p \in Pairs \ crossed
               PROVE  StillThere(u, p[1], p[2])' /\ StillThere(u, p[2], p[1])'
    BY DEF ReadIsCurrent
  <2>1. CASE u = s
    <3>1. save'[u].at \in {0, 1}
      BY <2>1 DEF LimitInv, LimitTypeOK
    <3>2. \A n \in 1..Len(Limit) : ~(n < save'[u].at)
      BY <3>1, LimitFacts
    <3>3. QED
      BY <3>2 DEF StillThere, WasRead
  <2>2. CASE u # s
    <3>1. save'[u] = save[u]
      BY <2>2 DEF LimitInv, LimitTypeOK
    <3>2. QED
      BY <3>1 DEF LimitInv, ReadIsCurrent, StillThere, WasRead
  <2>3. QED
    BY <2>1, <2>2
<1>3. SentInRange'
  <2> SUFFICES ASSUME NEW u \in Savers
               PROVE  save'[u].at # 0 => \A k \in save'[u].keys : save'[u].l[k] \in InRange[k]
    BY DEF SentInRange
  <2>1. save'[u] = IF u = s THEN new ELSE save[u]
    BY DEF LimitInv, LimitTypeOK
  <2>2. QED
    BY <2>1 DEF LimitInv, SentInRange
<1>4. QED
  BY <1>1, <1>2, <1>3 DEF LimitInv, LimitsStayOrdered

LEMMA ReadLimitStep ==
  ASSUME LimitInv, NEW s \in Savers, ReadLimit(s)
  PROVE  LimitInv'
<1> DEFINE k == Limit[save[s].at]
           read == IF k \in save[s].keys THEN save[s].l[k] ELSE limit[k]
           new == [at |-> save[s].at + 1, keys |-> save[s].keys, l |-> [save[s].l EXCEPT ![k] = read]]
<1>1. save[s].at \in 1..Len(Limit) /\ save' = [save EXCEPT ![s] = new]
      /\ limit' = limit /\ crossed' = crossed
  BY DEF ReadLimit
<1>2. /\ save[s].keys \in SUBSET LimitKeys /\ save[s].l \in [LimitKeys -> Values]
      /\ limit \in [LimitKeys -> Values] /\ k \in LimitKeys
      /\ save \in [Savers -> [at : 0..Done, keys : SUBSET LimitKeys, l : [LimitKeys -> Values]]]
  BY <1>1, LimitFacts DEF LimitInv, LimitTypeOK
<1>3. new \in [at : 0..Done, keys : SUBSET LimitKeys, l : [LimitKeys -> Values]]
  <2>1. save[s].at + 1 \in 0..Done
    BY <1>1, LimitFacts DEF Done
  <2>2. read \in Values
    BY <1>2
  <2>3. [save[s].l EXCEPT ![k] = read] \in [LimitKeys -> Values]
    BY <1>2, <2>2
  <2>4. QED
    BY <1>2, <2>1, <2>3
<1>4. LimitTypeOK'
  <2> HIDE DEF new
  <2>1. QED
    BY <1>1, <1>2, <1>3 DEF LimitInv, LimitTypeOK
<1>5. ReadIsCurrent'
  <2>1. ASSUME NEW a \in LimitKeys, NEW b \in LimitKeys, NEW u \in Savers, StillThere(u, a, b)
        PROVE  StillThere(u, a, b)'
    <3>1. CASE u # s
      <4>1. save'[u] = save[u]
        BY <1>1, <1>2, <3>1
      <4>2. QED
        BY <1>1, <2>1, <4>1 DEF StillThere, WasRead
    <3>2. CASE u = s
      <4>1. save'[s] = new
        BY <1>1, <1>2
      <4>2. /\ save'[s].at = save[s].at + 1 /\ save'[s].keys = save[s].keys
            /\ save'[s].l[k] = read /\ \A x \in LimitKeys \ {k} : save'[s].l[x] = save[s].l[x]
        BY <1>2, <4>1
      <4> HIDE DEF new, read
      <4> SUFFICES ASSUME a \notin save[s].keys, b \in save[s].keys,
                          NEW n \in 1..Len(Limit), n < save[s].at + 1, Limit[n] = a
                   PROVE  save'[s].l[a] = limit[a]
        BY <1>1, <3>2, <4>2 DEF StillThere, WasRead
      <4>3. CASE a = k
        BY <4>2, <4>3 DEF read
      <4>4. CASE a # k
        <5>1. n # save[s].at
          BY <4>4
        <5>2. n < save[s].at /\ save[s].at # 0
          BY <1>1, <5>1, LimitFacts
        <5>3. save[s].l[a] = limit[a]
          BY <2>1, <3>2, <5>2 DEF StillThere, WasRead
        <5>4. QED
          BY <4>2, <4>4, <5>3
      <4>5. QED
        BY <4>3, <4>4
    <3>3. QED
      BY <3>1, <3>2
  <2>2. QED
    BY <1>1, <2>1, LimitFacts DEF LimitInv, ReadIsCurrent
<1>6. SentInRange'
  <2> SUFFICES ASSUME NEW u \in Savers, save'[u].at # 0, NEW x \in save'[u].keys
               PROVE  save'[u].l[x] \in InRange[x]
    BY DEF SentInRange
  <2>1. CASE u # s
    BY <1>1, <1>2, <2>1 DEF LimitInv, SentInRange
  <2>2. CASE u = s
    <3>1. save'[s] = new
      BY <1>1, <1>2
    <3>2. x \in save[s].keys /\ x \in LimitKeys
      BY <1>2, <2>2, <3>1
    <3>3. save'[s].l[x] = save[s].l[x]
      BY <1>2, <3>1, <3>2
    <3>4. QED
      BY <1>1, <2>2, <3>2, <3>3, LimitFacts DEF LimitInv, SentInRange
  <2>3. QED
    BY <2>1, <2>2
<1>7. QED
  BY <1>1, <1>4, <1>5, <1>6 DEF LimitInv, LimitsStayOrdered

LEMMA WriteLimitsStep ==
  ASSUME LimitInv, NEW s \in Savers, WriteLimits(s)
  PROVE  LimitInv'
<1>1. /\ save[s].at = Done /\ InOrder(save[s].l)
      /\ limit' = [k \in LimitKeys |-> IF k \in save[s].keys THEN save[s].l[k] ELSE limit[k]]
      /\ crossed' = crossed \cup Crosses(s)
      /\ save' = [save EXCEPT ![s] = NoSave]
  BY DEF WriteLimits, AcceptedTogether
<1>2. /\ limit \in [LimitKeys -> Values] /\ \A k \in LimitKeys : limit[k] \in InRange[k]
      /\ save \in [Savers -> [at : 0..Done, keys : SUBSET LimitKeys, l : [LimitKeys -> Values]]]
      /\ crossed \subseteq Pairs
  BY DEF LimitInv, LimitTypeOK
<1>3. save[s] \in [at : 0..Done, keys : SUBSET LimitKeys, l : [LimitKeys -> Values]]
      /\ save[s].at # 0
  BY <1>1, <1>2, LimitFacts DEF Done
<1>4. NoSave \in [at : 0..Done, keys : SUBSET LimitKeys, l : [LimitKeys -> Values]]
      /\ NoSave.at = 0
  <2>1. 0 \in 0..Done /\ \A k \in LimitKeys : Defaults[k] \in Values
    BY LimitFacts DEF Done
  <2>2. QED
    BY <2>1 DEF NoSave
<1>5. \A u \in Savers : save'[u] = IF u = s THEN NoSave ELSE save[u]
  BY <1>1, <1>2
<1>6. \A k \in save[s].keys : save[s].l[k] \in InRange[k]
  BY <1>3 DEF LimitInv, SentInRange
<1>7. LimitTypeOK'
  <2>1. \A k \in LimitKeys : limit'[k] \in InRange[k] /\ limit'[k] \in Values
    BY <1>1, <1>2, <1>6, LimitFacts
  <2>2. limit' \in [LimitKeys -> Values]
    BY <1>1, <2>1
  <2>3. crossed' \subseteq Pairs
    BY <1>1, <1>2 DEF Crosses
  <2>4. save' \in [Savers -> [at : 0..Done, keys : SUBSET LimitKeys, l : [LimitKeys -> Values]]]
    BY <1>1, <1>2, <1>4
  <2>5. QED
    BY <2>1, <2>2, <2>3, <2>4 DEF LimitTypeOK
<1>8. SentInRange'
  BY <1>4, <1>5 DEF LimitInv, SentInRange
<1>9. ASSUME NEW p \in Pairs \ crossed', NEW u \in Savers \ {s},
             NEW a, NEW b, {a, b} = {p[1], p[2]}, StillThere(u, a, b)
      PROVE  StillThere(u, a, b)'
  <2> SUFFICES ASSUME save[u].at # 0, a \notin save[u].keys, b \in save[u].keys, WasRead(u, a)
               PROVE  save[u].l[a] = limit'[a]
    BY <1>5 DEF StillThere, WasRead
  <2>1. save[u].l[a] = limit[a] /\ a \in LimitKeys
    BY <1>9, LimitFacts DEF StillThere
  <2>2. p \notin Crosses(s)
    BY <1>1
  <2>3. a \notin save[s].keys
    BY <1>9, <2>2 DEF Crosses
  <2>4. QED
    BY <1>1, <2>1, <2>3
<1>10. ReadIsCurrent'
  <2> SUFFICES ASSUME NEW u \in Savers, NEW p \in Pairs \ crossed'
               PROVE  StillThere(u, p[1], p[2])' /\ StillThere(u, p[2], p[1])'
    BY DEF ReadIsCurrent
  <2>1. CASE u = s
    BY <1>4, <1>5, <2>1 DEF StillThere
  <2>2. CASE u # s
    <3>1. StillThere(u, p[1], p[2]) /\ StillThere(u, p[2], p[1])
      BY <1>1 DEF LimitInv, ReadIsCurrent
    <3>2. {p[2], p[1]} = {p[1], p[2]}
      OBVIOUS
    <3>3. StillThere(u, p[1], p[2])'
      BY <1>9, <2>2, <3>1
    <3>4. StillThere(u, p[2], p[1])'
      BY <1>9, <2>2, <3>1, <3>2
    <3>5. QED
      BY <3>3, <3>4
  <2>3. QED
    BY <2>1, <2>2
<1>11. LimitsStayOrdered'
  <2> SUFFICES ASSUME NEW p \in Pairs \ crossed'
               PROVE  Ordered(p, limit')
    BY DEF LimitsStayOrdered
  <2>1. p[1] \in LimitKeys /\ p[2] \in LimitKeys /\ p \in Pairs \ crossed
    BY <1>1, LimitFacts
  <2>2. Ordered(p, limit) /\ Ordered(p, save[s].l)
    BY <1>1, <2>1 DEF LimitInv, LimitsStayOrdered, InOrder
  <2>3. \A k \in LimitKeys : WasRead(s, k)
    BY <1>1, LimitFacts DEF WasRead, Done
  <2>4. StillThere(s, p[1], p[2]) /\ StillThere(s, p[2], p[1])
    BY <2>1 DEF LimitInv, ReadIsCurrent
  <2>5. CASE p[1] \notin save[s].keys /\ p[2] \notin save[s].keys
    <3>1. limit'[p[1]] = limit[p[1]] /\ limit'[p[2]] = limit[p[2]]
      BY <1>1, <2>1, <2>5
    <3>2. QED
      BY <2>2, <3>1, OrderedAlike
  <2>6. CASE p[1] \in save[s].keys \/ p[2] \in save[s].keys
    <3>1. limit'[p[1]] = save[s].l[p[1]]
      BY <1>1, <1>3, <2>1, <2>3, <2>4, <2>6 DEF StillThere
    <3>2. limit'[p[2]] = save[s].l[p[2]]
      BY <1>1, <1>3, <2>1, <2>3, <2>4, <2>6 DEF StillThere
    <3>3. QED
      BY <2>2, <3>1, <3>2, OrderedAlike
  <2>7. QED
    BY <2>5, <2>6
<1>12. QED
  BY <1>7, <1>8, <1>10, <1>11 DEF LimitInv

LEMMA LimitInvNext == LimitInv /\ [LimitNext]_limitVars => LimitInv'
<1> SUFFICES ASSUME LimitInv, [LimitNext]_limitVars PROVE LimitInv'
  OBVIOUS
<1>1. ASSUME NEW s \in Savers, NEW keys \in SUBSET LimitKeys, NEW l \in [LimitKeys -> Values],
             SubmitLimits(s, keys, l)
      PROVE  LimitInv'
  <2> DEFINE new == [at |-> 1, keys |-> keys, l |-> l]
  <2>1. new \in [at : {0, 1}, keys : SUBSET LimitKeys, l : [LimitKeys -> Values]]
    OBVIOUS
  <2>2. \A k \in new.keys : new.l[k] \in InRange[k]
    BY <1>1 DEF SubmitLimits
  <2>3. save' = [save EXCEPT ![s] = new] /\ limit' = limit /\ crossed' = crossed
    BY <1>1 DEF SubmitLimits
  <2> HIDE DEF new
  <2>4. QED
    BY <2>1, <2>2, <2>3, FreshSave
<1>2. ASSUME NEW s \in Savers, RefuseLimits(s) PROVE LimitInv'
  <2>1. NoSave \in [at : {0, 1}, keys : SUBSET LimitKeys, l : [LimitKeys -> Values]]
        /\ NoSave.at = 0
    <3>1. \A k \in LimitKeys : Defaults[k] \in Values
      BY LimitFacts
    <3>2. QED
      BY <3>1 DEF NoSave
  <2>2. save' = [save EXCEPT ![s] = NoSave] /\ limit' = limit /\ crossed' = crossed
    BY <1>2 DEF RefuseLimits
  <2>3. QED
    BY <2>1, <2>2, FreshSave
<1>3. CASE UNCHANGED limitVars
  BY <1>3 DEF limitVars, LimitInv, LimitTypeOK, SentInRange, ReadIsCurrent, StillThere,
     WasRead, LimitsStayOrdered
<1>4. QED
  BY <1>1, <1>2, <1>3, ReadLimitStep, WriteLimitsStep DEF LimitNext

\* For any limits, ranges and defaults and any number of requests: two limits
\* that belong together stay in order, unless two requests that overlapped sent
\* one of them each.
THEOREM LimitsTheorem == LimitSpec => []LimitsStayOrdered
<1>1. LimitInv => LimitsStayOrdered
  BY DEF LimitInv
<1>2. QED
  BY <1>1, LimitInvInit, LimitInvNext, PTL DEF LimitSpec

-----------------------------------------------------------------------------
(* MtHealth                                                                 *)

\* The counter went from a to b in n ticks; it started over at most once.
Elapsed(a, n, b) == b = a + n \/ b = a + n - (MaxUp + 1)

Sampled == sampler.at # "idle" /\ sampler.up # NoSample /\ ~sampler.ghost

\* As long as nothing was missed, the device is as far from the sample in the
\* poll, and from that in memory, as the ticks in between say.
SampleIsClose ==
    Sampled /\ ~sampler.restarted /\ sampler.unseen < Long
        => Elapsed(sampler.up, sampler.unseen, device.up)
MemoryIsClose ==
    sysup # NoSample /\ ~device.restarted /\ device.unseen < Long
        => /\ Elapsed(sysup, device.unseen, device.up)
           /\ Sampled => /\ ~sampler.restarted
                         /\ sampler.unseen <= device.unseen
                         /\ Elapsed(sysup, device.unseen - sampler.unseen, sampler.up)

HealthInv ==
    /\ HealthTypeOK
    /\ sampler.at = "idle" => sampler = NoPoll
    /\ SampleIsClose /\ MemoryIsClose
    /\ RebootIsReal
    /\ CriticalIsWarned

LEMMA HealthNumbers ==
  /\ MaxUp \in Nat /\ MaxUp > 0 /\ Near \in Nat /\ Fresh \in Nat
  /\ Near <= MaxUp /\ Fresh <= MaxUp
  /\ Long \in Nat /\ Long > 0 /\ Long <= Near + 1 /\ Long <= Fresh + 1 /\ Long <= MaxUp + 1
  /\ Hyst \in Nat
<1>1. MaxUp \in Nat /\ Near \in 1..MaxUp /\ Fresh \in 1..MaxUp /\ Hyst \in Nat
  BY HealthAssumption
<1>2. QED
  BY <1>1 DEF Long, Least

LEMMA CounterStep ==
  ASSUME NEW up \in 0..MaxUp
  PROVE  /\ (up + 1) % (MaxUp + 1) \in 0..MaxUp
         /\ (up + 1) % (MaxUp + 1) = IF up = MaxUp THEN 0 ELSE up + 1
<1>1. MaxUp + 1 \in Nat /\ MaxUp + 1 > 0 /\ up + 1 \in Nat /\ up + 1 <= MaxUp + 1
  BY HealthNumbers
<1>2. \A a, b \in Nat : b > 0 /\ a < b => a % b = a
  OBVIOUS
<1>3. \A b \in Nat : b > 0 => b % b = 0
  OBVIOUS
<1>4. CASE up = MaxUp
  BY <1>1, <1>3, <1>4, HealthNumbers
<1>5. CASE up # MaxUp
  <2>1. up + 1 < MaxUp + 1
    BY <1>5, HealthNumbers
  <2>2. QED
    BY <1>1, <1>2, <1>5, <2>1, HealthNumbers
<1>6. QED
  BY <1>4, <1>5

LEMMA OneLaterType ==
  ASSUME NEW n \in 0..Long
  PROVE  OneLater(n) \in 0..Long /\ (OneLater(n) < Long => OneLater(n) = n + 1 /\ n < Long)
         /\ (n < Long => OneLater(n) = n + 1)
BY HealthNumbers DEF OneLater, Least

LEMMA ElapsedStep ==
  ASSUME NEW a \in 0..MaxUp, NEW n \in 0..Long, n < Long, NEW b \in 0..MaxUp, Elapsed(a, n, b)
  PROVE  Elapsed(a, n + 1, (b + 1) % (MaxUp + 1))
<1>1. (b + 1) % (MaxUp + 1) = IF b = MaxUp THEN 0 ELSE b + 1
  BY CounterStep
<1>2. CASE b = MaxUp
  <2>1. b = a + n
    BY <1>2, HealthNumbers DEF Elapsed
  <2>2. 0 = a + (n + 1) - (MaxUp + 1)
    BY <1>2, <2>1, HealthNumbers
  <2>3. QED
    BY <1>1, <1>2, <2>2 DEF Elapsed
<1>3. CASE b # MaxUp
  BY <1>1, <1>3, HealthNumbers DEF Elapsed
<1>4. QED
  BY <1>2, <1>3

\* A counter that is lower than it was a short time ago has started over.
LEMMA WrapIsTold ==
  ASSUME NEW a \in 0..MaxUp, NEW n \in 0..Long, n < Long, NEW b \in 0..MaxUp, Elapsed(a, n, b)
  PROVE  RebootKind(a, b) # "reboot"
<1>1. CASE b = a + n
  BY <1>1, HealthNumbers DEF RebootKind
<1>2. CASE b = a + n - (MaxUp + 1)
  <2>1. a > MaxUp - Near /\ b < Fresh
    BY <1>2, HealthNumbers
  <2>2. QED
    BY <2>1 DEF RebootKind
<1>3. QED
  BY <1>1, <1>2 DEF Elapsed

LEMMA HealthInvInit == HealthInit => HealthInv
<1> SUFFICES ASSUME HealthInit PROVE HealthInv
  OBVIOUS
<1>1. 0 \in 0..MaxUp /\ 0 \in 0..Long /\ 0 \in Nat
  BY HealthNumbers
<1>2. HealthTypeOK
  BY <1>1 DEF HealthInit, HealthTypeOK, NoPoll
<1>3. QED
  BY <1>2 DEF HealthInit, HealthInv, SampleIsClose, MemoryIsClose, Sampled, NoPoll,
     RebootIsReal, CriticalIsWarned

\* The limits matter to a poll that reads them only.
LEMMA SamplerKept ==
  ASSUME HealthInv, device' = device, sysup' = sysup, hot' = hot, rebooted' = rebooted,
         mixed' = mixed, sampler'.up = sampler.up, sampler'.ghost = sampler.ghost,
         sampler'.restarted = sampler.restarted, sampler'.unseen = sampler.unseen,
         sampler'.at # "idle" <=> sampler.at # "idle",
         sampler'.at = "idle" => sampler' = NoPoll, HealthTypeOK'
  PROVE  HealthInv'
BY DEF HealthInv, SampleIsClose, MemoryIsClose, Sampled, RebootIsReal, CriticalIsWarned

LEMMA DeviceRunsKeeps ==
  ASSUME HealthInv, DeviceRuns
  PROVE  HealthInv'
<1> DEFINE up == (device.up + 1) % (MaxUp + 1)
           late == OneLater(device.unseen)
           seen == OneLater(sampler.unseen)
<1>1. device.up \in 0..MaxUp /\ device.unseen \in 0..Long /\ sampler.unseen \in 0..Long
  BY DEF HealthInv, HealthTypeOK
<1>2. up \in 0..MaxUp
  BY <1>1, CounterStep
<1>3. late \in 0..Long /\ seen \in 0..Long
  BY <1>1, OneLaterType
<1>4. device' = [up |-> up, restarted |-> device.restarted, unseen |-> late]
  BY DEF DeviceRuns, HealthInv, HealthTypeOK
<1>5. sampler' = IF sampler = NoPoll THEN NoPoll ELSE [sampler EXCEPT !.unseen = seen]
  BY DEF DeviceRuns
<1>6. /\ sampler'.at = sampler.at /\ sampler'.up = sampler.up /\ sampler'.ghost = sampler.ghost
      /\ sampler'.restarted = sampler.restarted
      /\ sampler.at # "idle" => sampler'.unseen = seen
      /\ sampler.at = "idle" => sampler' = NoPoll
      /\ sampler'.unseen \in 0..Long
      /\ sampler'.temp = sampler.temp /\ sampler'.any = sampler.any
      /\ sampler'.warn = sampler.warn /\ sampler'.crit = sampler.crit
  <2>1. CASE sampler = NoPoll
    <3>1. sampler' = sampler /\ sampler.at = "idle"
      BY <1>5, <2>1 DEF NoPoll
    <3>2. QED
      BY <1>1, <2>1, <3>1
  <2>2. CASE sampler # NoPoll
    <3>1. sampler' = [sampler EXCEPT !.unseen = seen] /\ sampler.at # "idle"
      BY <1>5, <2>2 DEF HealthInv
    <3>2. QED
      BY <1>3, <3>1 DEF HealthInv, HealthTypeOK
  <2>3. QED
    BY <2>1, <2>2
<1>7. sysup' = sysup /\ hot' = hot /\ rebooted' = rebooted /\ mixed' = mixed /\ limits' = limits
  BY DEF DeviceRuns
<1>8. device' \in [up : 0..MaxUp, restarted : BOOLEAN, unseen : 0..Long]
  <2>1. device.restarted \in BOOLEAN
    BY DEF HealthInv, HealthTypeOK
  <2>2. QED
    BY <1>2, <1>3, <1>4, <2>1
<1>9. HealthTypeOK'
  BY <1>3, <1>5, <1>7, <1>8 DEF HealthInv, HealthTypeOK, NoPoll
<1>10. SampleIsClose'
  <2> SUFFICES ASSUME Sampled', ~sampler'.restarted, sampler'.unseen < Long
               PROVE  Elapsed(sampler.up, seen, up)
    BY <1>4, <1>6 DEF SampleIsClose, Elapsed, Sampled
  <2>1. Sampled /\ ~sampler.restarted /\ seen < Long
    BY <1>6 DEF Sampled
  <2>2. seen = sampler.unseen + 1 /\ sampler.unseen < Long
    BY <1>1, <2>1, OneLaterType
  <2>3. Elapsed(sampler.up, sampler.unseen, device.up)
    BY <2>1, <2>2 DEF HealthInv, SampleIsClose
  <2>4. sampler.up \in 0..MaxUp
    BY <2>1 DEF Sampled, HealthInv, HealthTypeOK
  <2>5. QED
    BY <1>1, <2>2, <2>3, <2>4, ElapsedStep
<1>11. MemoryIsClose'
  <2> SUFFICES ASSUME sysup # NoSample, ~device.restarted, late < Long
               PROVE  /\ Elapsed(sysup, late, up)
                      /\ Sampled' => /\ ~sampler'.restarted
                                     /\ sampler'.unseen <= late
                                     /\ Elapsed(sysup, late - sampler'.unseen, sampler.up)
    BY <1>4, <1>6, <1>7 DEF MemoryIsClose, Elapsed
  <2>1. late = device.unseen + 1 /\ device.unseen < Long
    BY <1>1, OneLaterType
  <2>2. /\ Elapsed(sysup, device.unseen, device.up)
        /\ Sampled => /\ ~sampler.restarted
                      /\ sampler.unseen <= device.unseen
                      /\ Elapsed(sysup, device.unseen - sampler.unseen, sampler.up)
    BY <2>1 DEF HealthInv, MemoryIsClose
  <2>3. sysup \in 0..MaxUp
    BY DEF HealthInv, HealthTypeOK
  <2>4. Elapsed(sysup, late, up)
    BY <1>1, <2>1, <2>2, <2>3, ElapsedStep
  <2>5. ASSUME Sampled'
        PROVE  /\ ~sampler'.restarted
               /\ sampler'.unseen <= late
               /\ Elapsed(sysup, late - sampler'.unseen, sampler.up)
    <3>1. Sampled /\ sampler'.unseen = seen /\ sampler'.restarted = sampler.restarted
      BY <1>6, <2>5 DEF Sampled
    <3>2. sampler.unseen < Long /\ seen = sampler.unseen + 1
      BY <1>1, <2>1, <2>2, <3>1, OneLaterType, HealthNumbers
    <3>3. late - seen = device.unseen - sampler.unseen /\ seen <= late
      BY <1>1, <2>1, <2>2, <3>1, <3>2, HealthNumbers
    <3>4. QED
      BY <2>2, <3>1, <3>3
  <2>6. QED
    BY <2>4, <2>5
<1>12. QED
  BY <1>6, <1>7, <1>9, <1>10, <1>11 DEF HealthInv, RebootIsReal, CriticalIsWarned

LEMMA DeviceRestartsKeeps ==
  ASSUME HealthInv, DeviceRestarts
  PROVE  HealthInv'
<1>1. 0 \in 0..MaxUp
  BY HealthNumbers
<1>2. device' = [up |-> 0, restarted |-> TRUE, unseen |-> device.unseen]
  BY DEF DeviceRestarts, HealthInv, HealthTypeOK
<1>3. /\ sampler'.at = sampler.at /\ sampler'.up = sampler.up /\ sampler'.ghost = sampler.ghost
      /\ sampler.at # "idle" => sampler'.restarted
      /\ sampler.at = "idle" => sampler' = NoPoll
  <2>1. CASE sampler = NoPoll
    BY <2>1 DEF DeviceRestarts, NoPoll
  <2>2. CASE sampler # NoPoll
    <3>1. sampler' = [sampler EXCEPT !.restarted = TRUE] /\ sampler.at # "idle"
      BY <2>2 DEF DeviceRestarts, HealthInv
    <3>2. QED
      BY <3>1 DEF HealthInv, HealthTypeOK
  <2>3. QED
    BY <2>1, <2>2
<1>4. HealthTypeOK'
  BY <1>1, <1>2 DEF DeviceRestarts, HealthInv, HealthTypeOK, NoPoll
<1>5. SampleIsClose' /\ MemoryIsClose'
  BY <1>2, <1>3 DEF SampleIsClose, MemoryIsClose, Sampled
<1>6. QED
  BY <1>3, <1>4, <1>5 DEF DeviceRestarts, HealthInv, RebootIsReal, CriticalIsWarned

LEMMA HostLeaves ==
  ASSUME HealthInv, ReplaceHost \/ StopHealth
  PROVE  HealthInv'
<1>1. /\ sampler' = NoPoll \/ (sampler'.ghost /\ sampler'.at = sampler.at /\ sampler.at # "idle")
      /\ sysup' = NoSample /\ hot' = {} /\ rebooted' = rebooted /\ mixed' = mixed
  <2>1. CASE StopHealth
    BY <2>1 DEF StopHealth
  <2>2. CASE ReplaceHost
    BY <2>2 DEF ReplaceHost, HealthInv, HealthTypeOK
  <2>3. QED
    BY <2>1, <2>2
<1>2. HealthTypeOK'
  <2>1. CASE StopHealth
    BY <2>1, HealthInvInit, HealthNumbers DEF StopHealth, HealthInv, HealthTypeOK, NoPoll
  <2>2. CASE ReplaceHost
    BY <2>2 DEF ReplaceHost, HealthInv, HealthTypeOK, NoPoll
  <2>3. QED
    BY <2>1, <2>2
<1>3. SampleIsClose' /\ MemoryIsClose'
  BY <1>1 DEF SampleIsClose, MemoryIsClose, Sampled, NoPoll
<1>4. QED
  BY <1>1, <1>2, <1>3 DEF HealthInv, RebootIsReal, CriticalIsWarned

LEMMA SampleKeeps ==
  ASSUME HealthInv, Sample
  PROVE  HealthInv'
<1>1. PICK up \in {NoSample, device.up}, temp \in {NoSample} \cup Temps, any \in BOOLEAN :
          sampler' = [NoPoll EXCEPT !.at = "sampled", !.up = up, !.temp = temp,
                                    !.any = any \/ temp # NoSample]
  BY DEF Sample
<1> DEFINE some == any \/ temp # NoSample
<1>2. some \in BOOLEAN
  BY Zenon
<1> HIDE DEF some
<1>3. sampler' = [at |-> "sampled", up |-> up, temp |-> temp, any |-> some,
                  warn |-> 0, crit |-> 0, ghost |-> FALSE, restarted |-> FALSE, unseen |-> 0]
  BY <1>1 DEF NoPoll, some
<1>4. device' = device /\ sysup' = sysup /\ hot' = hot /\ rebooted' = rebooted /\ mixed' = mixed
      /\ limits' = limits
  BY DEF Sample
<1>5. device.up \in 0..MaxUp /\ device.unseen \in 0..Long
  BY DEF HealthInv, HealthTypeOK
<1>6. 0 \in 0..Long /\ 0 \in Nat
  BY HealthNumbers
<1>7. HealthTypeOK'
  BY <1>2, <1>3, <1>4, <1>5, <1>6 DEF HealthInv, HealthTypeOK
<1>8. SampleIsClose'
  <2>1. Sampled' => Elapsed(sampler'.up, sampler'.unseen, device'.up)
    BY <1>3, <1>4, <1>5, HealthNumbers DEF Sampled, Elapsed
  <2>2. QED
    BY <2>1 DEF SampleIsClose, Elapsed
<1>9. MemoryIsClose'
  <2> SUFFICES ASSUME sysup # NoSample, ~device.restarted, device.unseen < Long
               PROVE  /\ Elapsed(sysup, device.unseen, device.up)
                      /\ Sampled' => /\ ~sampler'.restarted
                                     /\ sampler'.unseen <= device.unseen
                                     /\ Elapsed(sysup, device.unseen - sampler'.unseen, sampler'.up)
    BY <1>4 DEF MemoryIsClose, Elapsed
  <2>1. Elapsed(sysup, device.unseen, device.up)
    BY DEF HealthInv, MemoryIsClose
  <2>2. device.unseen - 0 = device.unseen /\ 0 <= device.unseen
    BY <1>5, HealthNumbers
  <2>3. QED
    BY <1>3, <2>1, <2>2 DEF Sampled
<1>10. QED
  BY <1>3, <1>4, <1>7, <1>8, <1>9 DEF HealthInv, RebootIsReal, CriticalIsWarned

LEMMA LimitReadsKeep ==
  ASSUME HealthInv, SaveLimits \/ ReadWarn \/ ReadCrit
  PROVE  HealthInv'
<1>1. limits \in Limits /\ limits.warn \in Nat /\ limits.crit \in Nat
  BY HealthAssumption DEF HealthInv, HealthTypeOK
<1>2. HealthTypeOK'
  <2>1. CASE SaveLimits
    BY <2>1 DEF SaveLimits, HealthInv, HealthTypeOK
  <2>2. CASE ReadWarn
    BY <1>1, <2>2 DEF ReadWarn, HealthInv, HealthTypeOK
  <2>3. CASE ReadCrit
    BY <1>1, <2>3 DEF ReadCrit, HealthInv, HealthTypeOK
  <2>4. QED
    BY <2>1, <2>2, <2>3
<1>3. /\ device' = device /\ sysup' = sysup /\ hot' = hot /\ rebooted' = rebooted /\ mixed' = mixed
      /\ sampler'.up = sampler.up /\ sampler'.ghost = sampler.ghost
      /\ sampler'.restarted = sampler.restarted /\ sampler'.unseen = sampler.unseen
      /\ sampler'.at # "idle" <=> sampler.at # "idle"
      /\ sampler'.at = "idle" => sampler' = NoPoll
  <2>1. CASE SaveLimits
    BY <2>1 DEF SaveLimits, HealthInv
  <2>2. CASE ReadWarn
    BY <2>2 DEF ReadWarn, HealthInv, HealthTypeOK
  <2>3. CASE ReadCrit
    BY <2>3 DEF ReadCrit, HealthInv, HealthTypeOK
  <2>4. QED
    BY <2>1, <2>2, <2>3
<1>4. QED
  BY <1>2, <1>3, SamplerKept

\* With limits that were saved together the critical one follows the warning.
LEMMA WarnedFirst ==
  ASSUME HealthInv, ~mixed, sampler.warn < sampler.crit, "temp_crit" \in HotAfter
  PROVE  "temp_warn" \in HotAfter
<1>1. /\ sampler.warn \in Nat /\ sampler.crit \in Nat /\ Hyst \in Nat
      /\ sampler.temp = NoSample \/ sampler.temp \in Nat
  BY HealthAssumption DEF HealthInv, HealthTypeOK
<1>2. Hot("temp_crit" \in hot, sampler.crit, sampler.temp)
  BY DEF HotAfter, Alarms
<1>3. "temp_crit" \in hot => "temp_warn" \in hot
  BY DEF HealthInv, CriticalIsWarned
<1>4. Hot("temp_warn" \in hot, sampler.warn, sampler.temp)
  BY <1>1, <1>2, <1>3 DEF Hot
<1>5. QED
  BY <1>4 DEF HotAfter, Alarms

LEMMA StoreSampleKeeps ==
  ASSUME HealthInv, StoreSample
  PROVE  HealthInv'
<1>1. sampler' = NoPoll /\ limits' = limits /\ NoPoll.at = "idle"
  BY DEF StoreSample, NoPoll
<1>2. /\ device.up \in 0..MaxUp /\ device.unseen \in 0..Long /\ sampler.unseen \in 0..Long
      /\ device.restarted \in BOOLEAN /\ sampler.restarted \in BOOLEAN
      /\ sampler.ghost \in BOOLEAN /\ mixed \in BOOLEAN /\ hot \subseteq Alarms
      /\ sampler.up \in {NoSample} \cup 0..MaxUp /\ sysup \in {NoSample} \cup 0..MaxUp
      /\ device \in [up : 0..MaxUp, restarted : BOOLEAN, unseen : 0..Long]
      /\ sampler.at # "idle" /\ rebooted
  BY DEF HealthInv, HealthTypeOK, RebootIsReal, StoreSample
<1>3. NoPoll \in [at : {"idle", "sampled", "warn", "crit"}, up : {NoSample} \cup 0..MaxUp,
                  temp : {NoSample} \cup Temps, any : BOOLEAN,
                  warn : Nat, crit : Nat, ghost : BOOLEAN, restarted : BOOLEAN, unseen : 0..Long]
  <2>1. 0 \in 0..Long /\ 0 \in Nat
    BY HealthNumbers
  <2>2. QED
    BY <2>1 DEF NoPoll
<1>4. ~Sampled'
  BY <1>1 DEF Sampled
<1>5. /\ hot' \subseteq Alarms /\ mixed' \in BOOLEAN /\ CriticalIsWarned'
  <2>1. CASE hot' = hot /\ mixed' = mixed
    BY <1>2, <2>1 DEF HealthInv, CriticalIsWarned
  <2>2. CASE /\ hot' = HotAfter
             /\ mixed' = ((mixed \/ sampler.warn >= sampler.crit) /\ hot' # {})
    <3>1. hot' \subseteq Alarms /\ mixed' \in BOOLEAN
      <4>1. HotAfter \subseteq Alarms
        BY DEF HotAfter
      <4>2. QED
        BY <2>2, <4>1, Zenon
    <3>2. ASSUME "temp_crit" \in hot', ~mixed'
          PROVE  "temp_warn" \in hot'
      <4>1. hot' # {}
        BY <3>2
      <4>2. ~mixed /\ ~(sampler.warn >= sampler.crit)
        BY <2>2, <3>2, <4>1, Zenon
      <4>3. sampler.warn \in Nat /\ sampler.crit \in Nat
        BY DEF HealthInv, HealthTypeOK
      <4>4. sampler.warn < sampler.crit
        BY <4>2, <4>3
      <4>5. QED
        BY <2>2, <3>2, <4>2, <4>4, WarnedFirst
    <3>3. QED
      BY <3>1, <3>2, Zenon DEF CriticalIsWarned
  <2>3. (hot' = hot /\ mixed' = mixed)
        \/ (hot' = HotAfter /\ mixed' = ((mixed \/ sampler.warn >= sampler.crit) /\ hot' # {}))
    BY Zenon DEF StoreSample
  <2>4. QED
    BY <2>1, <2>2, <2>3
<1>6. CASE device' = device /\ sysup' = sysup /\ rebooted' = rebooted
  <2>1. HealthTypeOK'
    BY <1>1, <1>2, <1>3, <1>5, <1>6 DEF HealthInv, HealthTypeOK
  <2>2. SampleIsClose' /\ MemoryIsClose'
    BY <1>4, <1>6 DEF HealthInv, SampleIsClose, MemoryIsClose, Elapsed
  <2>3. QED
    BY <1>1, <1>2, <1>5, <1>6, <2>1, <2>2 DEF HealthInv, RebootIsReal
<1>7. CASE /\ sampler.up # NoSample
           /\ sysup' = sampler.up
           /\ rebooted' =
                 \/ sysup = NoSample
                 \/ RebootKind(sysup, sampler.up) # "reboot"
                 \/ sampler.ghost \/ device.restarted \/ device.unseen = Long
           /\ device' = [device EXCEPT !.restarted = sampler.restarted \/ sampler.ghost,
                                       !.unseen = sampler.unseen]
  <2> DEFINE anew == sampler.restarted \/ sampler.ghost
  <2>1. anew \in BOOLEAN
    BY Zenon
  <2>2. device' = [device EXCEPT !.restarted = anew, !.unseen = sampler.unseen]
    BY <1>7
  <2>3. ~anew => ~sampler.restarted /\ ~sampler.ghost
    BY Zenon
  <2> HIDE DEF anew
  <2>4. device' = [up |-> device.up, restarted |-> anew, unseen |-> sampler.unseen]
    BY <1>2, <2>2
  <2>5. rebooted'
    <3> SUFFICES ASSUME sysup # NoSample, ~sampler.ghost, ~device.restarted, device.unseen # Long
                 PROVE  RebootKind(sysup, sampler.up) # "reboot"
      <4>1. \/ sysup = NoSample
            \/ RebootKind(sysup, sampler.up) # "reboot"
            \/ sampler.ghost \/ device.restarted \/ device.unseen = Long
        OBVIOUS
      <4>2. QED
        BY <1>7, <4>1, Zenon
    <3>1. device.unseen < Long /\ Sampled
      BY <1>2, <1>7, HealthNumbers DEF Sampled
    <3>2. /\ sampler.unseen <= device.unseen
          /\ Elapsed(sysup, device.unseen - sampler.unseen, sampler.up)
      BY <3>1 DEF HealthInv, MemoryIsClose
    <3>3. sysup \in 0..MaxUp /\ sampler.up \in 0..MaxUp
      BY <1>2, <1>7
    <3>4. device.unseen - sampler.unseen \in 0..Long /\ device.unseen - sampler.unseen < Long
      BY <1>2, <3>1, <3>2, HealthNumbers
    <3>5. QED
      BY <3>2, <3>3, <3>4, WrapIsTold
  <2>6. rebooted' \in BOOLEAN
    BY <1>7, Zenon
  <2>7. device' \in [up : 0..MaxUp, restarted : BOOLEAN, unseen : 0..Long]
    BY <1>2, <2>1, <2>4
  <2>8. HealthTypeOK'
    BY <1>1, <1>2, <1>3, <1>5, <1>7, <2>6, <2>7 DEF HealthInv, HealthTypeOK
  <2>9. SampleIsClose'
    BY <1>4 DEF SampleIsClose
  <2>10. MemoryIsClose'
    <3>1. ASSUME ~anew, sampler.unseen < Long
          PROVE  Elapsed(sampler.up, sampler.unseen, device.up)
      BY <1>2, <1>7, <2>3, <3>1 DEF HealthInv, SampleIsClose, Sampled
    <3>2. device'.restarted = anew /\ device'.unseen = sampler.unseen /\ device'.up = device.up
      BY <2>4
    <3>3. ASSUME ~device'.restarted, device'.unseen < Long
          PROVE  Elapsed(sysup', device'.unseen, device'.up)
      BY <1>7, <3>1, <3>2, <3>3 DEF Elapsed
    <3>4. QED
      BY <1>4, <3>3, Zenon DEF MemoryIsClose, Elapsed
  <2>11. QED
    BY <1>1, <1>5, <2>5, <2>8, <2>9, <2>10 DEF HealthInv, RebootIsReal
<1>8. QED
  BY <1>6, <1>7, Zenon DEF StoreSample

LEMMA HealthInvNext == HealthInv /\ [HealthNext]_healthVars => HealthInv'
<1> SUFFICES ASSUME HealthInv, [HealthNext]_healthVars PROVE HealthInv'
  OBVIOUS
<1>1. CASE UNCHANGED healthVars
  <2>1. HealthTypeOK'
    BY <1>1 DEF healthVars, HealthInv, HealthTypeOK
  <2>2. QED
    BY <1>1, <2>1, SamplerKept DEF healthVars, HealthInv
<1>2. QED
  BY <1>1, DeviceRunsKeeps, DeviceRestartsKeeps, HostLeaves, SampleKeeps, LimitReadsKeep,
     StoreSampleKeeps DEF HealthNext

\* For every size of the counter, of the two margins and of the hysteresis, a
\* message of a reboot was earned by one (nms/mikrotik.py:20-32).
THEOREM RebootTheorem == HealthSpec => []RebootIsReal
<1>1. HealthInv => RebootIsReal
  BY DEF HealthInv
<1>2. QED
  BY <1>1, HealthInvInit, HealthInvNext, PTL DEF HealthSpec

\* For all temperatures, limits and hysteresis, the critical alarm is on only
\* together with the warning, unless a poll mixed two saves
\* (nms/mikrotik_poll.py:538-560).
THEOREM CriticalTheorem == HealthSpec => []CriticalIsWarned
<1>1. HealthInv => CriticalIsWarned
  BY DEF HealthInv
<1>2. QED
  BY <1>1, HealthInvInit, HealthInvNext, PTL DEF HealthSpec

-----------------------------------------------------------------------------
(* IfaceAlarm                                                               *)

Stages   == {"rest", "due", "loaded", "oper", "alert", "log", "rate"}
Holds(w) == poll[w].at \in {"oper", "alert", "log", "rate"}

\* db_lock has one holder, and a transaction only with it.
LockInv ==
    /\ PortTypeOK
    /\ \A v, w \in Pollers : Holds(v) /\ Holds(w) => v = w
    /\ (\A w \in Pollers : ~Holds(w)) => txn = "none"
    /\ \A w \in Pollers : poll[w].at \in {"alert", "log", "rate"} => todo # {}

\* Nothing was refused: the transaction wrote before it read anything, and an
\* alert of a port that is down is about to be logged only behind that.
Smooth ==
    mishaps = 0 =>
        /\ txn \in {"none", "writing"} /\ ~stale
        /\ open["interface_down"] = 0 /\ view.open["interface_down"] = 0
        /\ \A w \in Pollers : poll[w].at = "alert" => txn = "writing"

PortInv == LockInv /\ OneOpenUtilization /\ Smooth

LEMMA ReadType ==
  ASSUME PortTypeOK
  PROVE  /\ Read = [oper |-> Read.oper, open |-> Read.open]
         /\ Read.oper \in [Ports -> Opers] /\ Read.open \in [AlertKinds -> Nat]
         /\ Read.open = view.open \/ Read.open = open
BY DEF Read, Tables, PortTypeOK

LEMMA GoStep ==
  ASSUME PortTypeOK, NEW w \in Pollers, NEW at \in Stages, Go(w, at)
  PROVE  /\ poll' \in [Pollers -> [at : Stages, ports : SUBSET Ports]]
         /\ poll'[w].at = at
         /\ \A v \in Pollers : v # w => poll'[v] = poll[v]
<1>1. poll' = [poll EXCEPT ![w] = [at |-> at, ports |-> poll[w].ports]]
  BY DEF Go
<1>2. QED
  BY <1>1 DEF PortTypeOK, Stages

\* What a statement of the poll's transaction may do.
LEMMA Statement ==
  ASSUME PortTypeOK, NEW new \in [oper : [Ports -> Opers], open : [AlertKinds -> Nat]],
         Accept(new) \/ Refuse \/ (Select /\ mishaps' = mishaps) \/ UNCHANGED <<trans, mishaps>>
  PROVE  /\ txn' \in {"none", "begun", "pinned", "writing"}
         /\ view' \in [oper : [Ports -> Opers], open : [AlertKinds -> Nat]]
         /\ stale' = stale /\ mishaps' \in 0..MaxMishaps
         /\ view'.open = new.open \/ view'.open = view.open \/ view'.open = open
         /\ mishaps' = 0 => mishaps = 0
         /\ mishaps' = 0 /\ txn \in {"none", "writing"} /\ ~stale => txn' \in {txn, "writing"}
         /\ Accept(new) => txn' = "writing"
<1>0. MaxMishaps \in Nat
  BY PortAssumption
<1>1. Tables \in [oper : [Ports -> Opers], open : [AlertKinds -> Nat]] /\ Tables.open = open
  BY DEF Tables, PortTypeOK
<1>2. CASE Accept(new)
  BY <1>2 DEF Accept, PortTypeOK
<1>3. CASE Refuse
  BY <1>0, <1>3 DEF Refuse, MayFail, Accept, PortTypeOK
<1>4. CASE Select /\ mishaps' = mishaps
  BY <1>1, <1>4 DEF Select, Accept, PortTypeOK
<1>5. CASE UNCHANGED <<trans, mishaps>>
  BY <1>5 DEF trans, Accept, PortTypeOK
<1>6. QED
  BY <1>2, <1>3, <1>4, <1>5

LEMMA HolderKeeps ==
  ASSUME LockInv, NEW w \in Pollers, Holds(w), NEW at \in {"oper", "alert", "log", "rate"},
         Go(w, at), PortTypeOK', todo' = todo \/ at = "oper", todo # {} \/ at = "oper"
  PROVE  LockInv'
<1>1. /\ poll'[w].at = at
      /\ \A v \in Pollers : v # w => poll'[v] = poll[v]
  BY GoStep DEF LockInv, Stages
<1>2. \A v \in Pollers : v # w => ~Holds(v) /\ ~Holds(v)'
  BY <1>1 DEF LockInv, Holds
<1>3. Holds(w)'
  BY <1>1 DEF Holds
<1>4. \A v \in Pollers : poll'[v].at \in {"alert", "log", "rate"} => v = w /\ todo' # {}
  BY <1>1, <1>2 DEF Holds
<1>5. QED
  BY <1>2, <1>3, <1>4 DEF LockInv

\* The ports are taken by their index.
LEMMA PortIsPort ==
  ASSUME PortTypeOK, todo # {}
  PROVE  Port \in todo /\ Port \in Ports
<1>1. todo \subseteq Nat
  BY PortAssumption DEF PortTypeOK
<1>2. PICK p \in todo : \A q \in todo : ~(<<q, p>> \in OpToRel(<, Nat))
  BY <1>1, WFMin, NatLessThanWellFounded, Zenon
<1>3. ASSUME NEW q \in todo PROVE p <= q
  <2>1. q < p => <<q, p>> \in OpToRel(<, Nat)
    BY <1>1, Zenon DEF OpToRel
  <2>2. ~(q < p) /\ q \in Nat /\ p \in Nat
    BY <1>1, <1>2, <2>1, Zenon
  <2>3. QED
    BY <2>2
<1>4. QED
  BY <1>3 DEF Port, PortTypeOK

LEMMA PortInvInit == PortInit => PortInv
<1> SUFFICES ASSUME PortInit PROVE PortInv
  OBVIOUS
<1>1. MaxMishaps \in Nat /\ 0 \in 0..MaxMishaps
  BY PortAssumption
<1>2. Nothing \in [oper : [Ports -> Opers], open : [AlertKinds -> Nat]]
      /\ Nothing.open["interface_down"] = 0 /\ Nothing.open["interface_utilization"] = 0
  BY DEF Nothing, Opers, AlertKinds
<1>3. poll \in [Pollers -> [at : Stages, ports : SUBSET Ports]]
      /\ \A w \in Pollers : poll[w].at = "rest"
  BY DEF PortInit, Rest, Stages
<1>5. mt_iface_oper \in [Ports -> Opers \cup {"unset"}]
  BY DEF PortInit
<1>6. oper \in [Ports -> Opers] /\ open \in [AlertKinds -> Nat]
  BY <1>2 DEF PortInit
<1>7. PortTypeOK
  BY <1>1, <1>2, <1>3, <1>5, <1>6 DEF PortInit, PortTypeOK, Stages, Answers
<1>8. LockInv
  BY <1>3, <1>7 DEF LockInv, Holds, PortInit
<1>9. QED
  BY <1>2, <1>3, <1>8 DEF PortInv, OneOpenUtilization, Smooth, PortInit

LEMMA BeginKeeps ==
  ASSUME PortInv, NEW w \in Pollers, Load(w) \/ Begin(w)
  PROVE  PortInv'
<1>1. CASE Load(w)
  <2>1. monitor \subseteq Ports
    BY DEF PortInv, LockInv, PortTypeOK
  <2>2. /\ poll' \in [Pollers -> [at : Stages, ports : SUBSET Ports]]
        /\ poll'[w].at \in {"rest", "loaded"}
        /\ \A v \in Pollers : v # w => poll'[v] = poll[v]
    BY <1>1, <2>1 DEF Load, Rest, PortInv, LockInv, PortTypeOK, Stages
  <2>3. ~Holds(w)
    BY <1>1 DEF Load, Holds
  <2>4. PortTypeOK'
    BY <1>1, <2>2 DEF Load, PortInv, LockInv, PortTypeOK, Stages, tables, rows, polled, turn, trans
  <2>5. LockInv'
    BY <1>1, <2>2, <2>3, <2>4 DEF Load, PortInv, LockInv, Holds, turn, trans
  <2>6. QED
    BY <1>1, <2>2, <2>5 DEF Load, PortInv, OneOpenUtilization, Smooth, tables, trans
<1>2. CASE Begin(w)
  <2>1. \A v \in Pollers : ~Holds(v)
    BY <1>2 DEF Begin, Locked, Holds
  <2>2. todo' \subseteq Ports
    BY <1>2 DEF Begin, PortInv, LockInv, PortTypeOK
  <2>3. /\ poll' \in [Pollers -> [at : Stages, ports : SUBSET Ports]]
        /\ poll'[w].at = "oper"
        /\ \A v \in Pollers : v # w => poll'[v] = poll[v]
    BY <1>2, GoStep DEF Begin, PortInv, LockInv, Stages
  <2>4. PortTypeOK'
    BY <1>2, <2>2, <2>3 DEF Begin, PortInv, LockInv, PortTypeOK, Stages, tables, rows, polled, trans
  <2>5. LockInv'
    BY <1>2, <2>1, <2>3, <2>4 DEF Begin, LockInv, Holds
  <2>6. QED
    BY <1>2, <2>3, <2>5 DEF Begin, PortInv, OneOpenUtilization, Smooth, tables, trans
<1>3. QED
  BY <1>1, <1>2

LEMMA NoTransitionKeeps ==
  ASSUME PortInv, NEW w \in Pollers, NoTransition(w)
  PROVE  PortInv'
<1>1. PortTypeOK /\ LockInv /\ todo # {} /\ Port \in Ports /\ Holds(w)
  BY PortIsPort DEF PortInv, LockInv, NoTransition, Holds
<1>2. /\ poll' \in [Pollers -> [at : Stages, ports : SUBSET Ports]]
      /\ poll'[w].at = "rate"
      /\ \A v \in Pollers : v # w => poll'[v] = poll[v]
  BY <1>1, GoStep DEF NoTransition, Stages
<1>3. Now \in Opers
  BY DEF Now, Opers
<1>4. mt_iface_oper' \in [Ports -> Opers \cup {"unset"}] /\ drift' \subseteq Ports
  BY <1>1, <1>3 DEF NoTransition, PortTypeOK
<1>5. PortTypeOK'
  BY <1>1, <1>2, <1>4 DEF NoTransition, PortTypeOK, Stages, tables, rows, turn, trans
<1>6. LockInv'
  BY <1>1, <1>5, HolderKeeps DEF NoTransition, turn
<1>7. QED
  BY <1>2, <1>6 DEF NoTransition, PortInv, OneOpenUtilization, Smooth, tables, trans

LEMMA TransitionKeeps ==
  ASSUME PortInv, NEW w \in Pollers, Transition(w)
  PROVE  PortInv'
<1>1. PortTypeOK /\ LockInv /\ todo # {} /\ Port \in Ports /\ Holds(w)
  BY PortIsPort DEF PortInv, LockInv, Transition, Holds
<1>2. PICK at \in {"alert", "log"} : Go(w, at) /\ (at = "alert" => Port \notin cooling)
  BY DEF Transition
<1>3. /\ poll' \in [Pollers -> [at : Stages, ports : SUBSET Ports]]
      /\ poll'[w].at = at
      /\ \A v \in Pollers : v # w => poll'[v] = poll[v]
  BY <1>1, <1>2, GoStep DEF Stages
<1>4. Now \in Opers
  BY DEF Now, Opers
<1>5. RowMoved = [oper |-> [Read.oper EXCEPT ![Port] = Now], open |-> Read.open]
  BY <1>1, ReadType DEF RowMoved
<1>6. RowMoved \in [oper : [Ports -> Opers], open : [AlertKinds -> Nat]]
      /\ (RowMoved.open = view.open \/ RowMoved.open = open)
  BY <1>1, <1>4, <1>5, ReadType
<1>7. Accept(RowMoved) \/ Refuse
  BY DEF Transition
<1>8. /\ txn' \in {"none", "begun", "pinned", "writing"}
      /\ view' \in [oper : [Ports -> Opers], open : [AlertKinds -> Nat]]
      /\ stale' = stale /\ mishaps' \in 0..MaxMishaps
      /\ view'.open = RowMoved.open \/ view'.open = view.open \/ view'.open = open
      /\ mishaps' = 0 => mishaps = 0
      /\ mishaps' = 0 /\ txn \in {"none", "writing"} /\ ~stale => txn' \in {txn, "writing"}
      /\ Accept(RowMoved) => txn' = "writing"
  BY <1>1, <1>6, <1>7, Statement
<1>9. hushed' \in BOOLEAN
  BY <1>1, Zenon DEF Transition, PortTypeOK
<1>10. /\ mt_iface_oper' \in [Ports -> Opers \cup {"unset"}]
       /\ drift' \subseteq Ports /\ cooling' \subseteq Ports
  BY <1>1, <1>4 DEF Transition, PortTypeOK
<1>11. PortTypeOK'
  BY <1>1, <1>3, <1>8, <1>9, <1>10 DEF Transition, PortTypeOK, Stages, tables, rows, turn
<1>12. LockInv'
  BY <1>1, <1>2, <1>11, HolderKeeps DEF Transition, turn
<1>13. OneOpenUtilization'
  BY <1>6, <1>8 DEF Transition, PortInv, OneOpenUtilization, tables
<1>14. ASSUME mishaps' = 0
       PROVE  /\ txn' = "writing" /\ ~stale'
              /\ open'["interface_down"] = 0 /\ view'.open["interface_down"] = 0
  <2>1. mishaps = 0 /\ ~stale
    BY <1>8, <1>14 DEF PortInv, Smooth
  <2>2. ~Refuse
    BY <1>14, <2>1 DEF Refuse
  <2>3. QED
    BY <1>6, <1>7, <1>8, <2>1, <2>2 DEF Transition, PortInv, Smooth, tables
<1>15. QED
  BY <1>12, <1>13, <1>14 DEF PortInv, Smooth

\* Nothing refused, a second connection finds the table locked.
LEMMA LogDownKeeps ==
  ASSUME PortInv, NEW w \in Pollers, LogDown(w)
  PROVE  PortInv'
<1>1. PortTypeOK /\ LockInv /\ Holds(w) /\ todo # {}
  BY DEF PortInv, LockInv, LogDown, Holds
<1>2. /\ poll' \in [Pollers -> [at : Stages, ports : SUBSET Ports]]
      /\ poll'[w].at = "log"
      /\ \A v \in Pollers : v # w => poll'[v] = poll[v]
  BY <1>1, GoStep DEF LogDown, Stages
<1>3. \A v \in Pollers : poll'[v].at # "alert"
  BY <1>1, <1>2 DEF LockInv, Holds
<1>4. Tables \in [oper : [Ports -> Opers], open : [AlertKinds -> Nat]] /\ Tables.open = open
  BY <1>1 DEF Tables, PortTypeOK
<1>5. /\ view' \in {view, Tables} /\ txn' \in {txn, "pinned"} /\ stale' \in BOOLEAN
      /\ txn' # txn => txn = "begun"
  <2>1. CASE Select
    BY <1>1, <2>1 DEF Select, PortTypeOK
  <2>2. CASE ~Select
    <3>1. /\ view' \in {view, Tables} /\ txn' \in {txn, "pinned"} /\ (txn' # txn => txn = "begun")
      BY <2>2 DEF LogDown
    <3>2. stale' \in BOOLEAN
      BY <2>2, Zenon DEF LogDown
    <3>3. QED
      BY <3>1, <3>2
  <2>3. QED
    BY <2>1, <2>2
<1>6. \/ open' = open /\ stale' = stale
      \/ /\ Writable /\ open' = [open EXCEPT !["interface_down"] = open["interface_down"] + 1]
         /\ stale' = (txn' = "pinned")
  BY DEF LogDown, Select
<1>7. /\ open' \in [AlertKinds -> Nat]
      /\ open'["interface_utilization"] = open["interface_utilization"]
  BY <1>1, <1>6 DEF PortTypeOK, AlertKinds
<1>8. PortTypeOK'
  BY <1>1, <1>2, <1>4, <1>5, <1>7 DEF LogDown, PortTypeOK, Stages, rows, polled, turn
<1>9. LockInv'
  BY <1>1, <1>8, HolderKeeps DEF LogDown, turn
<1>10. OneOpenUtilization'
  BY <1>4, <1>5, <1>7 DEF PortInv, OneOpenUtilization
<1>11. ASSUME mishaps' = 0
       PROVE  /\ txn' = "writing" /\ ~stale'
              /\ open'["interface_down"] = 0 /\ view'.open["interface_down"] = 0
  <2>1. mishaps = 0 /\ txn = "writing" /\ ~stale
    BY <1>11 DEF LogDown, PortInv, Smooth
  <2>2. txn' = "writing" /\ ~Writable
    BY <1>5, <2>1 DEF Writable
  <2>3. open' = open /\ stale' = stale
    BY <1>6, <2>2
  <2>4. QED
    BY <1>4, <1>5, <2>1, <2>2, <2>3 DEF PortInv, Smooth
<1>12. QED
  BY <1>3, <1>9, <1>10, <1>11 DEF PortInv, Smooth

LEMMA ResolveDownKeeps ==
  ASSUME PortInv, NEW w \in Pollers, ResolveDown(w)
  PROVE  PortInv'
<1>1. PortTypeOK /\ LockInv /\ Holds(w) /\ todo # {}
  BY DEF PortInv, LockInv, ResolveDown, Holds
<1>2. /\ poll' \in [Pollers -> [at : Stages, ports : SUBSET Ports]]
      /\ poll'[w].at = "log"
      /\ \A v \in Pollers : v # w => poll'[v] = poll[v]
  BY <1>1, GoStep DEF ResolveDown, Stages
<1>3. \A v \in Pollers : poll'[v].at # "alert"
  BY <1>1, <1>2 DEF LockInv, Holds
<1>4. DownResolved = [oper |-> Read.oper, open |-> [Read.open EXCEPT !["interface_down"] = 0]]
  BY <1>1, ReadType DEF DownResolved
<1>5. /\ DownResolved \in [oper : [Ports -> Opers], open : [AlertKinds -> Nat]]
      /\ DownResolved.open["interface_down"] = 0
      /\ \/ DownResolved.open["interface_utilization"] = view.open["interface_utilization"]
         \/ DownResolved.open["interface_utilization"] = open["interface_utilization"]
  BY <1>1, <1>4, ReadType DEF AlertKinds
<1>6. Accept(DownResolved) \/ Refuse
  BY DEF ResolveDown
<1>7. /\ txn' \in {"none", "begun", "pinned", "writing"}
      /\ view' \in [oper : [Ports -> Opers], open : [AlertKinds -> Nat]]
      /\ stale' = stale /\ mishaps' \in 0..MaxMishaps
      /\ view'.open = DownResolved.open \/ view'.open = view.open \/ view'.open = open
      /\ mishaps' = 0 => mishaps = 0
      /\ mishaps' = 0 /\ txn \in {"none", "writing"} /\ ~stale => txn' \in {txn, "writing"}
  BY <1>1, <1>5, <1>6, Statement
<1>8. hushed' \in BOOLEAN
  BY <1>1, Zenon DEF ResolveDown, PortTypeOK
<1>9. PortTypeOK'
  BY <1>1, <1>2, <1>7, <1>8 DEF ResolveDown, PortTypeOK, Stages, tables, rows, polled, turn
<1>10. LockInv'
  BY <1>1, <1>9, HolderKeeps DEF ResolveDown, turn
<1>11. OneOpenUtilization'
  BY <1>5, <1>7 DEF ResolveDown, PortInv, OneOpenUtilization, tables
<1>12. mishaps' = 0 => /\ txn' \in {"none", "writing"} /\ ~stale'
                       /\ open'["interface_down"] = 0 /\ view'.open["interface_down"] = 0
  BY <1>5, <1>7 DEF ResolveDown, PortInv, Smooth, tables
<1>13. QED
  BY <1>3, <1>10, <1>11, <1>12 DEF PortInv, Smooth

LEMMA InsertLogKeeps ==
  ASSUME PortInv, NEW w \in Pollers, InsertLog(w)
  PROVE  PortInv'
<1>1. PortTypeOK /\ LockInv /\ Holds(w) /\ todo # {}
  BY DEF PortInv, LockInv, InsertLog, Holds
<1>2. /\ poll' \in [Pollers -> [at : Stages, ports : SUBSET Ports]]
      /\ poll'[w].at = "rate"
      /\ \A v \in Pollers : v # w => poll'[v] = poll[v]
  BY <1>1, GoStep DEF InsertLog, Stages
<1>3. \A v \in Pollers : poll'[v].at # "alert"
  BY <1>1, <1>2 DEF LockInv, Holds
<1>4. Read \in [oper : [Ports -> Opers], open : [AlertKinds -> Nat]]
      /\ (Read.open = view.open \/ Read.open = open)
  BY <1>1, ReadType
<1>5. Accept(Read) \/ Refuse
  BY DEF InsertLog
<1>6. /\ txn' \in {"none", "begun", "pinned", "writing"}
      /\ view' \in [oper : [Ports -> Opers], open : [AlertKinds -> Nat]]
      /\ stale' = stale /\ mishaps' \in 0..MaxMishaps
      /\ view'.open = view.open \/ view'.open = open
      /\ mishaps' = 0 => mishaps = 0
      /\ mishaps' = 0 /\ txn \in {"none", "writing"} /\ ~stale => txn' \in {txn, "writing"}
  BY <1>1, <1>4, <1>5, Statement
<1>7. PortTypeOK'
  BY <1>1, <1>2, <1>6 DEF InsertLog, PortTypeOK, Stages, tables, rows, polled, turn
<1>8. LockInv'
  BY <1>1, <1>7, HolderKeeps DEF InsertLog, turn
<1>9. QED
  BY <1>3, <1>6, <1>8 DEF InsertLog, PortInv, OneOpenUtilization, Smooth, tables

\* The alert for the rates is inserted only where the transaction sees none.
LEMMA RateKeeps ==
  ASSUME PortInv, NEW w \in Pollers, NEW rate, Rate(w, rate)
  PROVE  PortInv'
<1>1. PortTypeOK /\ LockInv /\ Holds(w) /\ todo # {}
  BY DEF PortInv, LockInv, Rate, Holds
<1>2. /\ poll' \in [Pollers -> [at : Stages, ports : SUBSET Ports]]
      /\ poll'[w].at = "oper"
      /\ \A v \in Pollers : v # w => poll'[v] = poll[v]
  BY <1>1, GoStep DEF Rate, Stages
<1>3. \A v \in Pollers : poll'[v].at # "alert"
  BY <1>1, <1>2 DEF LockInv, Holds
<1> DEFINE more == [Read EXCEPT !.open["interface_utilization"] = @ + 1]
           none == [Read EXCEPT !.open["interface_utilization"] = 0]
<1>4. PICK new \in {more, none} :
         /\ Accept(new) \/ Refuse \/ (Select /\ mishaps' = mishaps) \/ UNCHANGED <<trans, mishaps>>
         /\ Accept(new) => ~AlertOpen \/ new = none
  <2>1. \/ Accept(more) /\ ~AlertOpen
        \/ Accept(none)
        \/ Refuse \/ (Select /\ mishaps' = mishaps) \/ UNCHANGED <<trans, mishaps>>
    BY Zenon DEF Rate, AlertForRate
  <2> HIDE DEF more, none
  <2>2. QED
    BY <2>1, Zenon
<1>5. /\ more = [oper |-> Read.oper,
                 open |-> [Read.open EXCEPT !["interface_utilization"] = Read.open["interface_utilization"] + 1]]
      /\ none = [oper |-> Read.oper, open |-> [Read.open EXCEPT !["interface_utilization"] = 0]]
  BY <1>1, ReadType
<1> HIDE DEF more, none
<1>6. /\ new \in [oper : [Ports -> Opers], open : [AlertKinds -> Nat]]
      /\ new.open["interface_down"] = Read.open["interface_down"]
      /\ new.open["interface_utilization"]
             \in {0, Read.open["interface_utilization"] + 1}
      /\ new = none => new.open["interface_utilization"] = 0
  BY <1>1, <1>4, <1>5, ReadType DEF AlertKinds
<1>7. /\ txn' \in {"none", "begun", "pinned", "writing"}
      /\ view' \in [oper : [Ports -> Opers], open : [AlertKinds -> Nat]]
      /\ stale' = stale /\ mishaps' \in 0..MaxMishaps
      /\ view'.open = new.open \/ view'.open = view.open \/ view'.open = open
      /\ mishaps' = 0 => mishaps = 0
      /\ mishaps' = 0 /\ txn \in {"none", "writing"} /\ ~stale => txn' \in {txn, "writing"}
  BY <1>1, <1>4, <1>6, Statement
<1>8. PortTypeOK'
  BY <1>1, <1>2, <1>7 DEF Rate, PortTypeOK, Stages, tables, rows, polled, turn, Answers
<1>9. LockInv'
  BY <1>1, <1>8, HolderKeeps DEF Rate
<1>10. view'.open["interface_utilization"] <= 1
  <2>1. CASE Accept(new)
    <3>1. view' = new
      BY <2>1 DEF Accept
    <3>2. new # none => Read.open["interface_utilization"] = 0
      BY <1>4, <2>1 DEF AlertOpen
    <3>3. QED
      BY <1>6, <3>1, <3>2
  <2>2. CASE ~Accept(new)
    <3>1. view' \in {view, Tables}
      BY <1>4, <2>2 DEF Refuse, Select, trans
    <3>2. QED
      BY <1>1, <3>1 DEF Tables, PortInv, OneOpenUtilization
  <2>3. QED
    BY <2>1, <2>2
<1>11. Read.open["interface_down"] \in {view.open["interface_down"], open["interface_down"]}
  BY <1>1, ReadType
<1>12. mishaps' = 0 => /\ txn' \in {"none", "writing"} /\ ~stale'
                       /\ open'["interface_down"] = 0 /\ view'.open["interface_down"] = 0
  BY <1>6, <1>7, <1>11 DEF Rate, PortInv, Smooth, tables
<1>13. QED
  BY <1>3, <1>9, <1>10, <1>12 DEF Rate, PortInv, OneOpenUtilization, Smooth, tables

LEMMA NothingIsQuiet ==
  /\ Nothing \in [oper : [Ports -> Opers], open : [AlertKinds -> Nat]]
  /\ Nothing.open["interface_down"] = 0 /\ Nothing.open["interface_utilization"] = 0
BY DEF Nothing, Opers, AlertKinds

LEMMA FinishKeeps ==
  ASSUME PortInv, NEW w \in Pollers, Finish(w)
  PROVE  PortInv'
<1>1. PortTypeOK /\ LockInv /\ Holds(w) /\ MaxMishaps \in Nat
  BY PortAssumption DEF PortInv, LockInv, Finish, Holds
<1>2. /\ poll' \in [Pollers -> [at : Stages, ports : SUBSET Ports]]
      /\ poll'[w].at = "rest"
      /\ \A v \in Pollers : v # w => poll'[v] = poll[v]
  BY <1>1 DEF Finish, Rest, PortTypeOK, Stages
<1>3. \A v \in Pollers : ~Holds(v)' /\ poll'[v].at \notin {"alert", "log", "rate"}
  BY <1>1, <1>2 DEF LockInv, Holds
<1>4. mishaps' \in 0..MaxMishaps /\ (mishaps' = 0 => mishaps = 0)
  BY <1>1 DEF Finish, MayFail, PortTypeOK
<1>5. hushed' \in BOOLEAN
  BY <1>1, Zenon DEF Finish, PortTypeOK
<1>6. /\ oper' \in [Ports -> Opers] /\ open' \in [AlertKinds -> Nat] /\ drift' \subseteq Ports
      /\ open' \in {open, view.open}
  BY <1>1 DEF Finish, PortTypeOK
<1>7. PortTypeOK'
  BY <1>1, <1>2, <1>4, <1>5, <1>6, NothingIsQuiet
     DEF Finish, PortTypeOK, Stages, Answers, rows, polled
<1>8. LockInv'
  BY <1>3, <1>7 DEF Finish, LockInv
<1>9. OneOpenUtilization'
  BY <1>6, NothingIsQuiet DEF Finish, PortInv, OneOpenUtilization
<1>10. mishaps' = 0 => /\ txn' = "none" /\ ~stale'
                       /\ open'["interface_down"] = 0 /\ view'.open["interface_down"] = 0
  BY <1>4, <1>6, NothingIsQuiet DEF Finish, PortInv, Smooth
<1>11. QED
  BY <1>3, <1>8, <1>9, <1>10 DEF PortInv, Smooth

LEMMA StoreFoundKeeps ==
  ASSUME PortInv, NEW walked \in SUBSET Ports, NEW now_oper \in [Ports -> Opers],
         StoreFound(walked, now_oper)
  PROVE  PortInv'
<1>1. PortTypeOK /\ LockInv
  BY DEF PortInv, LockInv
<1>2. /\ poll' \in [Pollers -> [at : Stages, ports : SUBSET Ports]]
      /\ \A v \in Pollers : poll'[v].at \notin {"oper", "alert", "log", "rate"}
  BY <1>1 DEF StoreFound, Locked, Rest, PortTypeOK, Stages
<1>3. oper' \in [Ports -> Opers]
  BY <1>1 DEF StoreFound, PortTypeOK
<1>4. PortTypeOK'
  BY <1>1, <1>2, <1>3 DEF StoreFound, PortTypeOK, Stages, polled, turn, trans
<1>5. \A v \in Pollers : ~Holds(v)
  BY DEF StoreFound, Locked, Holds
<1>6. LockInv'
  BY <1>1, <1>2, <1>4, <1>5 DEF StoreFound, LockInv, Holds, trans
<1>7. QED
  BY <1>2, <1>6 DEF StoreFound, PortInv, OneOpenUtilization, Smooth, trans

\* What leaves the polls, and what they are writing, alone.
LEMMA BesidePolls ==
  ASSUME PortInv, PortTypeOK', poll' = poll, todo' = todo, txn' = txn, view' = view,
         (stale' = stale) \/ txn = "pinned", mishaps' = mishaps,
         open'["interface_down"] <= open["interface_down"],
         open'["interface_utilization"] <= open["interface_utilization"]
  PROVE  PortInv'
<1>1. open["interface_down"] \in Nat /\ open'["interface_down"] \in Nat
      /\ open["interface_utilization"] \in Nat /\ open'["interface_utilization"] \in Nat
  BY DEF PortInv, LockInv, PortTypeOK, AlertKinds
<1>2. LockInv'
  BY DEF PortInv, LockInv, Holds
<1>3. OneOpenUtilization'
  BY <1>1 DEF PortInv, OneOpenUtilization
<1>4. Smooth'
  BY <1>1 DEF PortInv, Smooth
<1>5. QED
  BY <1>2, <1>3, <1>4 DEF PortInv

LEMMA HandlersKeep ==
  ASSUME PortInv, \/ \E p \in Handled : SetMonitor(p) \/ DeleteRow(p) \/ Forget(p)
                  \/ \E p \in Ports : CoolDown(p)
                  \/ \E k \in AlertKinds : ResolveByHand(k)
  PROVE  PortInv'
<1>1. PortTypeOK /\ Handled \subseteq Ports /\ stale \in BOOLEAN
      /\ open["interface_down"] \in Nat /\ open["interface_utilization"] \in Nat
  BY PortAssumption DEF PortInv, LockInv, PortTypeOK, AlertKinds
<1>2. ASSUME NEW p \in Handled, SetMonitor(p) PROVE PortInv'
  <2>1. (stale' = stale) \/ txn = "pinned"
    <3>1. stale' = (stale \/ txn = "pinned")
      BY <1>2 DEF SetMonitor, Elsewhere
    <3>2. QED
      BY <1>1, <3>1, Zenon
  <2>2. stale' \in BOOLEAN
    BY <1>2, Zenon DEF SetMonitor, Elsewhere
  <2>3. monitor' \subseteq known
    BY <1>1, <1>2 DEF SetMonitor, PortTypeOK
  <2>4. PortTypeOK'
    BY <1>1, <1>2, <2>2, <2>3 DEF SetMonitor, Elsewhere, PortTypeOK, polled, turn
  <2>5. QED
    BY <1>1, <1>2, <2>1, <2>4, BesidePolls DEF SetMonitor, Elsewhere, turn
<1>3. ASSUME NEW p \in Handled, DeleteRow(p) PROVE PortInv'
  <2>1. (stale' = stale) \/ txn = "pinned"
    <3>1. stale' = (stale \/ txn = "pinned")
      BY <1>3 DEF DeleteRow, Elsewhere
    <3>2. QED
      BY <1>1, <3>1, Zenon
  <2>2. stale' \in BOOLEAN
    BY <1>3, Zenon DEF DeleteRow, Elsewhere
  <2>3. PortTypeOK'
    BY <1>1, <1>3, <2>2 DEF DeleteRow, Elsewhere, PortTypeOK, polled, turn
  <2>4. QED
    BY <1>1, <1>3, <2>1, <2>3, BesidePolls DEF DeleteRow, Elsewhere, turn
<1>4. ASSUME NEW p \in Handled, Forget(p) PROVE PortInv'
  <2>1. PortTypeOK'
    BY <1>1, <1>4 DEF Forget, PortTypeOK, tables, rows, turn, trans
  <2>2. QED
    BY <1>1, <1>4, <2>1 DEF Forget, PortInv, LockInv, Holds, OneOpenUtilization, Smooth,
       tables, turn, trans
<1>5. ASSUME NEW p \in Ports, CoolDown(p) PROVE PortInv'
  <2>1. PortTypeOK'
    BY <1>1, <1>5 DEF CoolDown, PortTypeOK, tables, rows, turn, trans
  <2>2. QED
    BY <1>1, <1>5, <2>1 DEF CoolDown, PortInv, LockInv, Holds, OneOpenUtilization, Smooth,
       tables, turn, trans
<1>6. ASSUME NEW k \in AlertKinds, ResolveByHand(k) PROVE PortInv'
  <2>1. (stale' = stale) \/ txn = "pinned"
    <3>1. stale' = (stale \/ txn = "pinned")
      BY <1>6 DEF ResolveByHand, Elsewhere
    <3>2. QED
      BY <1>1, <3>1, Zenon
  <2>2. stale' \in BOOLEAN
    BY <1>6, Zenon DEF ResolveByHand, Elsewhere
  <2>3. open' = [open EXCEPT ![k] = open[k] - 1] /\ open[k] > 0 /\ open[k] \in Nat
    BY <1>1, <1>6 DEF ResolveByHand, PortTypeOK
  <2>4. open' \in [AlertKinds -> Nat]
        /\ open'["interface_down"] <= open["interface_down"]
        /\ open'["interface_utilization"] <= open["interface_utilization"]
    BY <1>1, <2>3 DEF PortTypeOK, AlertKinds
  <2>5. PortTypeOK'
    BY <1>1, <1>6, <2>2, <2>4 DEF ResolveByHand, Elsewhere, PortTypeOK, rows, polled, turn
  <2>6. QED
    BY <1>6, <2>1, <2>4, <2>5, BesidePolls DEF ResolveByHand, Elsewhere, turn
<1>7. QED
  BY <1>2, <1>3, <1>4, <1>5, <1>6

LEMMA RestartPollKeeps ==
  ASSUME PortInv, RestartPoll
  PROVE  PortInv'
<1>1. PortTypeOK /\ MaxMishaps \in Nat
  BY PortAssumption DEF PortInv, LockInv
<1>2. poll' \in [Pollers -> [at : Stages, ports : SUBSET Ports]]
      /\ \A w \in Pollers : poll'[w].at = "rest"
  BY DEF RestartPoll, Rest, Stages
<1>3. mishaps' \in 0..MaxMishaps /\ mishaps' # 0
  BY <1>1 DEF RestartPoll, MayFail, PortTypeOK
<1>4. mt_iface_oper' \in [Ports -> Opers \cup {"unset"}]
  BY DEF RestartPoll
<1>5. PortTypeOK'
  BY <1>1, <1>2, <1>3, <1>4, NothingIsQuiet
     DEF RestartPoll, PortTypeOK, Stages, Answers, tables, rows
<1>6. LockInv'
  BY <1>2, <1>5 DEF RestartPoll, LockInv, Holds
<1>7. QED
  BY <1>3, <1>6, NothingIsQuiet DEF RestartPoll, PortInv, OneOpenUtilization, Smooth, tables

LEMMA PortInvNext == PortInv /\ [PortNext]_portVars => PortInv'
<1> SUFFICES ASSUME PortInv, [PortNext]_portVars PROVE PortInv'
  OBVIOUS
<1>1. CASE UNCHANGED portVars
  <2>1. PortTypeOK'
    BY <1>1 DEF PortInv, LockInv, PortTypeOK, portVars, tables, rows, polled, turn, trans
  <2>2. QED
    BY <1>1, <2>1 DEF PortInv, LockInv, Holds, OneOpenUtilization, Smooth,
       portVars, tables, rows, polled, turn, trans
<1>2. ASSUME NEW w \in Pollers, Load(w) \/ Work(w) PROVE PortInv'
  BY <1>2, BeginKeeps, NoTransitionKeeps, TransitionKeeps, LogDownKeeps, ResolveDownKeeps,
     InsertLogKeeps, RateKeeps, FinishKeeps DEF Work
<1>3. QED
  BY <1>1, <1>2, StoreFoundKeeps, HandlersKeep, RestartPollKeeps DEF PortNext

\* However polls, discoveries, refused statements and handlers fall into each
\* other, a host has at most one open alert for its rates, for any number of
\* ports (nms/mikrotik_poll.py:787-816).
THEOREM UtilizationTheorem == PortSpec => []OneOpenUtilization
<1>1. PortInv => OneOpenUtilization
  BY DEF PortInv
<1>2. QED
  BY <1>1, PortInvInit, PortInvNext, PTL DEF PortSpec

\* As long as SQLite refuses nothing and the process lives, no alert of a port
\* that went down is ever stored, for any number of ports and polls
\* (nms/mikrotik_poll.py:655-721, nms/db.py:1266-1279).
THEOREM DownAlertsTheorem == PortSpec => []DownAlertsAreLost
<1>1. PortInv => DownAlertsAreLost
  BY DEF PortInv, Smooth, DownAlertsAreLost
<1>2. QED
  BY <1>1, PortInvInit, PortInvNext, PTL DEF PortSpec

\* What the rows of the ports are to the transaction of a poll.
Oper == IF txn = "writing" THEN view.oper ELSE oper

\* A pinned transaction has read the rows as they are; outside of drift the
\* memory agrees with what the poll has written, committed or not.
Followed ==
    /\ txn = "pinned" => view.oper = oper
    /\ \A p \in known \ drift : mt_iface_oper[p] \in {"unset", Oper[p]}
FollowInv == PortInv /\ Followed

LEMMA ReadIsOper == Followed => Read.oper = Oper
BY DEF Followed, Read, Tables, Oper

LEMMA StatementOper ==
  ASSUME Followed, NEW new, oper' = oper,
         Accept(new) \/ Refuse \/ Select \/ UNCHANGED trans
  PROVE  /\ txn' = "pinned" => view'.oper = oper'
         /\ Accept(new) => Oper' = new.oper
         /\ ~Accept(new) => Oper' = Oper
<1>1. CASE Accept(new)
  BY <1>1 DEF Accept, Oper
<1>2. CASE Refuse /\ ~Accept(new)
  BY <1>2 DEF Refuse, Writable, Followed, Oper
<1>3. CASE Select /\ ~Accept(new)
  BY <1>3 DEF Select, Tables, Followed, Oper
<1>4. CASE UNCHANGED trans /\ ~Accept(new)
  BY <1>4 DEF trans, Followed, Oper
<1>5. QED
  BY <1>1, <1>2, <1>3, <1>4

\* A statement that moves no row of a port.
LEMMA QuietStatement ==
  ASSUME Followed, NEW new, new.oper = Read.oper, oper' = oper,
         Accept(new) \/ Refuse \/ Select \/ UNCHANGED trans,
         UNCHANGED <<known, mt_iface_oper, drift>>
  PROVE  Followed'
<1>1. Oper' = Oper /\ (txn' = "pinned" => view'.oper = oper')
  BY StatementOper, ReadIsOper
<1>2. QED
  BY <1>1 DEF Followed

LEMMA NoTransitionFollows ==
  ASSUME FollowInv, NEW w \in Pollers, NoTransition(w)
  PROVE  Followed'
<1>1. PortTypeOK /\ Port \in Ports /\ known \subseteq Ports /\ Read.oper = Oper
  BY PortIsPort, ReadIsOper DEF FollowInv, PortInv, LockInv, PortTypeOK, NoTransition
<1>2. Oper' = Oper /\ known' = known /\ UNCHANGED <<txn, view, oper>>
  BY DEF NoTransition, tables, rows, trans, Oper
<1>3. CASE UNCHANGED <<mt_iface_oper, drift>>
  BY <1>2, <1>3 DEF FollowInv, Followed
<1>4. CASE /\ mt_iface_oper' = [mt_iface_oper EXCEPT ![Port] = Now]
           /\ drift' = IF Read.oper[Port] = Now THEN drift \ {Port} ELSE drift \cup {Port}
  <2>1. mt_iface_oper'[Port] = Now /\ \A p \in Ports : p # Port => mt_iface_oper'[p] = mt_iface_oper[p]
    BY <1>1, <1>4 DEF PortTypeOK
  <2>2. QED
    BY <1>1, <1>2, <1>4, <2>1 DEF FollowInv, Followed
<1>5. QED
  BY <1>3, <1>4 DEF NoTransition

LEMMA TransitionFollows ==
  ASSUME FollowInv, NEW w \in Pollers, Transition(w)
  PROVE  Followed'
<1>1. /\ PortTypeOK /\ Port \in Ports /\ known \subseteq Ports /\ Read.oper = Oper
      /\ Oper \in [Ports -> Opers] /\ Followed
  BY PortIsPort, ReadIsOper, ReadType DEF FollowInv, PortInv, LockInv, PortTypeOK, Transition
<1>2. known' = known /\ oper' = oper /\ mt_iface_oper' = [mt_iface_oper EXCEPT ![Port] = Now]
  BY DEF Transition, tables, rows
<1>3. mt_iface_oper'[Port] = Now /\ \A p \in Ports : p # Port => mt_iface_oper'[p] = mt_iface_oper[p]
  BY <1>1, <1>2 DEF PortTypeOK
<1>4. RowMoved = [oper |-> [Read.oper EXCEPT ![Port] = Now], open |-> Read.open]
  BY <1>1, ReadType DEF RowMoved
<1>5. RowMoved.oper[Port] = Now /\ \A p \in Ports : p # Port => RowMoved.oper[p] = Oper[p]
  BY <1>1, <1>4
<1>6. /\ txn' = "pinned" => view'.oper = oper'
      /\ Accept(RowMoved) => Oper' = RowMoved.oper
      /\ ~Accept(RowMoved) => Oper' = Oper
  BY <1>1, <1>2, StatementOper DEF Transition
<1>7. CASE Accept(RowMoved) /\ drift' = drift \ {Port}
  BY <1>1, <1>2, <1>3, <1>5, <1>6, <1>7 DEF Followed
<1>8. CASE Refuse /\ drift' = drift \cup {Port}
  <2>1. \A p \in known' \ drift' : p \in Ports /\ p # Port /\ p \in known \ drift
    BY <1>1, <1>2, <1>8
  <2>2. \A p \in Ports : p # Port => Oper'[p] = Oper[p]
    BY <1>5, <1>6
  <2>3. QED
    BY <1>1, <1>3, <1>6, <2>1, <2>2 DEF Followed
<1>9. QED
  BY <1>7, <1>8 DEF Transition

LEMMA LogFollows ==
  ASSUME FollowInv, NEW w \in Pollers, LogDown(w) \/ ResolveDown(w) \/ InsertLog(w)
  PROVE  Followed'
<1>1. PortTypeOK /\ Followed
  BY DEF FollowInv, PortInv, LockInv
<1>2. CASE LogDown(w)
  <2>1. UNCHANGED <<known, oper, mt_iface_oper, drift>>
    BY <1>2 DEF LogDown, rows, polled
  <2>2. CASE Select
    BY <1>1, <2>1, <2>2, QuietStatement
  <2>3. CASE /\ view' = IF txn = "begun" THEN Tables ELSE view
             /\ txn' = IF txn = "begun" THEN "pinned" ELSE txn
    BY <1>1, <2>1, <2>3 DEF Tables, Oper, Followed
  <2>4. QED
    BY <1>2, <2>2, <2>3 DEF LogDown
<1>3. CASE ResolveDown(w)
  <2>1. DownResolved = [oper |-> Read.oper, open |-> [Read.open EXCEPT !["interface_down"] = 0]]
    BY <1>1, ReadType DEF DownResolved
  <2>2. UNCHANGED <<known, oper, mt_iface_oper, drift>> /\ (Accept(DownResolved) \/ Refuse)
    BY <1>3 DEF ResolveDown, tables, rows, polled
  <2>3. DownResolved.oper = Read.oper
    BY <2>1
  <2>4. QED
    BY <1>1, <2>2, <2>3, QuietStatement
<1>4. CASE InsertLog(w)
  <2>1. UNCHANGED <<known, oper, mt_iface_oper, drift>> /\ (Accept(Read) \/ Refuse)
    BY <1>4 DEF InsertLog, tables, rows, polled
  <2>2. QED
    BY <1>1, <2>1, QuietStatement
<1>5. QED
  BY <1>2, <1>3, <1>4

LEMMA RateFollows ==
  ASSUME FollowInv, NEW w \in Pollers, NEW rate, Rate(w, rate)
  PROVE  Followed'
<1> DEFINE raised  == [Read EXCEPT !.open["interface_utilization"] = @ + 1]
<1> DEFINE lowered == [Read EXCEPT !.open["interface_utilization"] = 0]
<1>1. PortTypeOK /\ Followed
  BY DEF FollowInv, PortInv, LockInv
<1>2. UNCHANGED <<known, oper, mt_iface_oper, drift>>
  BY DEF Rate, tables, rows, polled
<1>3. raised.oper = Read.oper /\ lowered.oper = Read.oper
  BY <1>1, ReadType
<1>4. UNCHANGED trans \/ Select \/ Accept(raised) \/ Accept(lowered) \/ Refuse
  BY Zenon DEF Rate, AlertForRate
<1> HIDE DEF raised, lowered
<1>5. QED
  BY <1>1, <1>2, <1>3, <1>4, QuietStatement

LEMMA FinishFollows ==
  ASSUME FollowInv, NEW w \in Pollers, Finish(w)
  PROVE  Followed'
<1>1. PortTypeOK /\ Followed /\ known \subseteq Ports
  BY DEF FollowInv, PortInv, LockInv, PortTypeOK
<1>2. UNCHANGED <<known, mt_iface_oper>> /\ txn' = "none"
  BY DEF Finish, rows, polled
<1>3. Oper' = oper'
  BY <1>2 DEF Oper
<1>4. CASE txn # "writing" /\ UNCHANGED <<oper, drift>>
  BY <1>1, <1>2, <1>3, <1>4 DEF Followed, Oper
<1>5. CASE txn = "writing" /\ oper' = view.oper /\ drift' = drift
  BY <1>1, <1>2, <1>3, <1>5 DEF Followed, Oper
<1>6. CASE txn = "writing" /\ oper' = oper /\ drift' = drift \cup {p \in Ports : view.oper[p] # oper[p]}
  BY <1>1, <1>2, <1>3, <1>6 DEF Followed, Oper
<1>7. QED
  BY <1>4, <1>5, <1>6 DEF Finish

LEMMA HandlersFollow ==
  ASSUME FollowInv, \/ \E w \in Pollers : Load(w) \/ Begin(w)
                    \/ \E walked \in SUBSET Ports, now_oper \in [Ports -> Opers] :
                          StoreFound(walked, now_oper)
                    \/ \E p \in Handled : SetMonitor(p) \/ DeleteRow(p) \/ Forget(p)
                    \/ \E p \in Ports : CoolDown(p)
                    \/ \E k \in AlertKinds : ResolveByHand(k)
                    \/ RestartPoll
  PROVE  Followed'
<1>1. PortTypeOK /\ Followed /\ known \subseteq Ports /\ Handled \subseteq Ports
  BY PortAssumption DEF FollowInv, PortInv, LockInv, PortTypeOK
<1>2. ASSUME UNCHANGED <<oper, txn, view, mt_iface_oper, drift>>, known' \subseteq known
      PROVE  Followed'
  BY <1>1, <1>2 DEF Followed, Oper
<1>3. ASSUME NEW w \in Pollers, Load(w) \/ Begin(w) PROVE Followed'
  BY <1>2, <1>3 DEF Load, Begin, tables, rows, polled, trans
<1>4. ASSUME NEW walked \in SUBSET Ports, NEW now_oper \in [Ports -> Opers], StoreFound(walked, now_oper)
      PROVE  Followed'
  <2>1. txn = "none" /\ UNCHANGED <<txn, view, mt_iface_oper>>
    BY <1>4 DEF StoreFound, Locked, FollowInv, PortInv, LockInv, Holds, polled, trans
  <2>2. Oper = oper /\ Oper' = oper'
    BY <2>1 DEF Oper
  <2>3. /\ known' = known \cup walked
        /\ oper' = [p \in Ports |-> IF p \in walked THEN now_oper[p] ELSE oper[p]]
        /\ drift' = (drift \ walked) \cup {p \in walked : mt_iface_oper[p] # now_oper[p]}
    BY <1>4 DEF StoreFound
  <2>4. QED
    BY <1>1, <2>1, <2>2, <2>3 DEF Followed
<1>5. ASSUME NEW p \in Handled, SetMonitor(p) \/ DeleteRow(p) PROVE Followed'
  BY <1>2, <1>5 DEF SetMonitor, DeleteRow, Elsewhere, polled
<1>6. ASSUME NEW p \in Handled, Forget(p) PROVE Followed'
  <2>1. UNCHANGED <<oper, txn, view, known, drift>>
    BY <1>6 DEF Forget, tables, rows, trans
  <2>2. \A q \in Ports : mt_iface_oper'[q] \in {"unset", mt_iface_oper[q]}
    BY <1>1, <1>6 DEF Forget, PortTypeOK
  <2>3. QED
    BY <1>1, <2>1, <2>2 DEF Followed, Oper
<1>7. ASSUME NEW p \in Ports, CoolDown(p) PROVE Followed'
  BY <1>2, <1>7 DEF CoolDown, tables, rows, trans
<1>8. ASSUME NEW k \in AlertKinds, ResolveByHand(k) PROVE Followed'
  BY <1>2, <1>8 DEF ResolveByHand, Elsewhere, rows, polled
<1>9. CASE RestartPoll
  <2>1. known' = known /\ txn' = "none" /\ \A p \in Ports : mt_iface_oper'[p] = "unset"
    BY <1>9 DEF RestartPoll, tables, rows
  <2>2. QED
    BY <1>1, <2>1 DEF Followed
<1>10. QED
  BY <1>3, <1>4, <1>5, <1>6, <1>7, <1>8, <1>9

LEMMA FollowInvNext == FollowInv /\ [PortNext]_portVars => FollowInv'
<1> SUFFICES ASSUME FollowInv, [PortNext]_portVars PROVE Followed'
  BY PortInvNext DEF FollowInv
<1>1. CASE UNCHANGED portVars
  BY <1>1 DEF FollowInv, Followed, Oper, portVars, tables, rows, polled, trans
<1>2. QED
  BY <1>1, NoTransitionFollows, TransitionFollows, LogFollows, RateFollows, FinishFollows,
     HandlersFollow DEF PortNext, Work

\* Outside of drift the row of a port agrees with the memory of the polls
\* whenever none of them holds db_lock, for any number of ports and polls
\* (nms/mikrotik_poll.py:650-663, nms/mikrotik_routes.py:224-240).
THEOREM FollowTheorem == PortSpec => []TableFollowsMemory
<1>1. PortInit => FollowInv
  BY PortInvInit DEF PortInit, FollowInv, Followed
<1>2. FollowInv => TableFollowsMemory
  <2> SUFFICES ASSUME FollowInv, ~Locked PROVE \A p \in known \ drift : mt_iface_oper[p] \in {"unset", oper[p]}
    BY DEF TableFollowsMemory
  <2>1. txn = "none"
    BY DEF FollowInv, PortInv, LockInv, Holds, Locked
  <2>2. QED
    BY <2>1 DEF FollowInv, Followed, Oper
<1>3. QED
  BY <1>1, <1>2, FollowInvNext, PTL DEF PortSpec

-----------------------------------------------------------------------------
\* Open interface_down alerts as the transaction of a poll leaves them.
Effective == IF txn = "writing" THEN view.open["interface_down"] ELSE open["interface_down"]
Alerting  == \E w \in Pollers : poll[w].at = "alert"

\* An open alert is explained by a port that is down, or is about to be
\* resolved; a port whose alert is about to be logged is down; what a pinned
\* transaction has read is true until others write.
Explained ==
    /\ txn = "pinned" /\ ~stale => view.open = open
    /\ ~hushed /\ Effective > 0 =>
          (\E p \in Ports : mt_iface_oper[p] = "down") \/ (Alerting /\ Now = "up")
    /\ ~hushed /\ Alerting /\ Now = "down" => mt_iface_oper[Port] = "down"
ExplainInv == PortInv /\ Explained

LEMMA AlertingEnds ==
  ASSUME LockInv, NEW w \in Pollers, Holds(w)
  PROVE  /\ poll[w].at # "alert" => ~Alerting
         /\ \A at \in Stages : Go(w, at) /\ at # "alert" => ~Alerting'
<1>1. \A v \in Pollers : v # w => poll[v].at # "alert"
  BY DEF LockInv, Holds
<1>2. ASSUME NEW at \in Stages, Go(w, at), at # "alert" PROVE ~Alerting'
  <2>1. poll'[w].at = at /\ \A v \in Pollers : v # w => poll'[v] = poll[v]
    BY <1>2, GoStep DEF LockInv
  <2>2. QED
    BY <1>1, <1>2, <2>1 DEF Alerting
<1>3. QED
  BY <1>1, <1>2 DEF Alerting

\* A statement that does not touch the interface_down alerts.
LEMMA OtherStatement ==
  ASSUME PortTypeOK, Explained, NEW new, open' = open,
         new.open["interface_down"] = Read.open["interface_down"],
         Accept(new) \/ Refuse \/ Select \/ UNCHANGED trans
  PROVE  Effective' = Effective /\ (txn' = "pinned" /\ ~stale' => view'.open = open')
<1>1. CASE Accept(new)
  <2>1. Read.open = IF txn \in {"pinned", "writing"} THEN view.open ELSE open
    BY DEF Read, Tables
  <2>2. Read.open["interface_down"] = Effective
    BY <1>1, <2>1 DEF Accept, Explained, Effective
  <2>3. QED
    BY <1>1, <2>2 DEF Accept, Effective
<1>2. CASE Refuse
  BY <1>2 DEF Refuse, Writable, Explained, Effective
<1>3. CASE Select
  BY <1>3 DEF Select, Tables, Explained, Effective
<1>4. CASE UNCHANGED trans
  BY <1>4 DEF trans, Explained, Effective
<1>5. QED
  BY <1>1, <1>2, <1>3, <1>4

LEMMA QuietExplains ==
  ASSUME ExplainInv, ~Alerting, ~Alerting', NEW new, open' = open,
         new.open["interface_down"] = Read.open["interface_down"],
         Accept(new) \/ Refuse \/ Select \/ UNCHANGED trans,
         UNCHANGED <<mt_iface_oper, hushed>>
  PROVE  Explained'
<1>1. Effective' = Effective /\ (txn' = "pinned" /\ ~stale' => view'.open = open')
  BY OtherStatement DEF ExplainInv, PortInv, LockInv
<1>2. QED
  BY <1>1 DEF ExplainInv, Explained

LEMMA TransitionExplains ==
  ASSUME ExplainInv, NEW w \in Pollers, NoTransition(w) \/ Transition(w)
  PROVE  Explained'
<1>1. PortTypeOK /\ LockInv /\ Explained /\ Port \in Ports /\ Holds(w) /\ poll[w].at = "oper"
  BY PortIsPort DEF ExplainInv, PortInv, LockInv, NoTransition, Transition, Holds
<1>2. ~Alerting
  BY <1>1, AlertingEnds
<1>3. CASE NoTransition(w)
  <2>1. ~Alerting'
    BY <1>1, <1>3, AlertingEnds DEF NoTransition, Stages
  <2>2. UNCHANGED <<open, hushed, txn, view, stale>>
    BY <1>3 DEF NoTransition, tables, trans
  <2>3. ASSUME NEW p \in Ports, mt_iface_oper[p] = "down" PROVE mt_iface_oper'[p] = "down"
    <3>1. CASE mt_iface_oper' = mt_iface_oper
      BY <2>3, <3>1
    <3>2. CASE mt_iface_oper[Port] = "unset" /\ mt_iface_oper' = [mt_iface_oper EXCEPT ![Port] = Now]
      BY <1>1, <2>3, <3>2 DEF PortTypeOK
    <3>3. QED
      BY <1>3, <3>1, <3>2 DEF NoTransition
  <2>4. Effective' = Effective
    BY <2>2 DEF Effective
  <2>5. QED
    BY <1>1, <1>2, <2>1, <2>2, <2>3, <2>4 DEF Explained
<1>4. CASE Transition(w)
  <2>1. mt_iface_oper'[Port] = Now /\ Now \in Opers
    BY <1>1, <1>4 DEF Transition, PortTypeOK, Now, Opers
  <2>2. Now' = Now /\ Port' = Port /\ open' = open
    BY <1>4 DEF Transition, turn, tables, Now, Port
  <2>3. Accept(RowMoved) \/ Refuse
    BY <1>4 DEF Transition
  <2>4. txn' = "pinned" /\ ~stale' => view'.open = open'
    BY <1>1, <2>2, <2>3 DEF Accept, Refuse, Explained
  <2>5. ~hushed' => Alerting' \/ Now = "down"
    <3>1. CASE Port \in cooling
      <4>1. hushed' = (hushed \/ Now = "up")
        BY <1>4, <3>1 DEF Transition
      <4>2. ~hushed' => Now # "up"
        BY <4>1, Zenon
      <4>3. QED
        BY <2>1, <4>2 DEF Opers
    <3>2. CASE Port \notin cooling
      <4>1. poll'[w].at = "alert"
        BY <1>1, <1>4, <3>2, GoStep DEF Transition, Stages
      <4>2. QED
        BY <4>1 DEF Alerting
    <3>3. QED
      BY <3>1, <3>2
  <2>6. QED
    BY <1>1, <2>1, <2>2, <2>4, <2>5 DEF Explained, Opers
<1>5. QED
  BY <1>3, <1>4

LEMMA AlertExplains ==
  ASSUME ExplainInv, NEW w \in Pollers, LogDown(w) \/ ResolveDown(w)
  PROVE  Explained'
<1>1. /\ PortTypeOK /\ LockInv /\ Explained /\ Holds(w) /\ Alerting
      /\ todo # {} /\ Port \in Ports
  BY PortIsPort DEF ExplainInv, PortInv, LockInv, LogDown, ResolveDown, Holds, Alerting
<1>2. ~Alerting'
  BY <1>1, AlertingEnds DEF LogDown, ResolveDown, Stages
<1>3. CASE LogDown(w)
  <2>1. UNCHANGED <<mt_iface_oper, hushed>> /\ Now = "down"
    BY <1>3 DEF LogDown, polled
  <2>2. ~hushed => mt_iface_oper'[Port] = "down"
    BY <1>1, <2>1 DEF Explained
  <2>3. txn' = "pinned" /\ ~stale' => view'.open = open'
    <3>1. CASE Select /\ open' = open
      BY <1>1, <3>1 DEF Select, Tables, Explained
    <3>2. CASE stale' = (txn' = "pinned")
      BY <3>2
    <3>3. QED
      BY <1>3, <3>1, <3>2 DEF LogDown
  <2>4. QED
    BY <1>1, <1>2, <2>1, <2>2, <2>3 DEF Explained
<1>4. CASE ResolveDown(w)
  <2>1. open' = open
    BY <1>4 DEF ResolveDown, tables
  <2>2. CASE Accept(DownResolved)
    <3>1. DownResolved = [oper |-> Read.oper, open |-> [Read.open EXCEPT !["interface_down"] = 0]]
      BY <1>1, ReadType DEF DownResolved
    <3>2. DownResolved.open["interface_down"] = 0
      BY <1>1, <3>1, ReadType DEF AlertKinds
    <3>3. Effective' = 0 /\ txn' = "writing"
      BY <2>2, <3>2 DEF Accept, Effective
    <3>4. QED
      BY <1>2, <3>3 DEF Explained
  <2>3. CASE Refuse /\ hushed' = TRUE
    BY <1>1, <1>2, <2>1, <2>3 DEF Refuse, Explained
  <2>4. QED
    BY <1>4, <2>2, <2>3 DEF ResolveDown
<1>5. QED
  BY <1>3, <1>4

LEMMA RestOfPollExplains ==
  ASSUME ExplainInv, NEW w \in Pollers, InsertLog(w) \/ Finish(w) \/ \E rate \in Rates : Rate(w, rate)
  PROVE  Explained'
<1>1. PortTypeOK /\ LockInv /\ Explained /\ Holds(w) /\ poll[w].at # "alert"
  BY DEF ExplainInv, PortInv, LockInv, InsertLog, Rate, Finish, Holds
<1>2. ~Alerting
  BY <1>1, AlertingEnds
<1>3. CASE InsertLog(w)
  <2>1. ~Alerting'
    BY <1>1, <1>3, AlertingEnds DEF InsertLog, Stages
  <2>2. UNCHANGED <<open, mt_iface_oper, hushed>> /\ (Accept(Read) \/ Refuse)
    BY <1>3 DEF InsertLog, tables, polled
  <2>3. QED
    BY <1>2, <2>1, <2>2, QuietExplains
<1>4. ASSUME NEW rate \in Rates, Rate(w, rate) PROVE Explained'
  <2> DEFINE raised  == [Read EXCEPT !.open["interface_utilization"] = @ + 1]
  <2> DEFINE lowered == [Read EXCEPT !.open["interface_utilization"] = 0]
  <2>1. ~Alerting'
    BY <1>1, <1>4, AlertingEnds DEF Rate, Stages
  <2>2. UNCHANGED <<open, mt_iface_oper, hushed>>
    BY <1>4 DEF Rate, tables, polled
  <2>3. /\ raised.open["interface_down"] = Read.open["interface_down"]
        /\ lowered.open["interface_down"] = Read.open["interface_down"]
    BY <1>1, ReadType DEF AlertKinds
  <2>4. UNCHANGED trans \/ Select \/ Accept(raised) \/ Accept(lowered) \/ Refuse
    BY <1>4, Zenon DEF Rate, AlertForRate
  <2> HIDE DEF raised, lowered
  <2>5. QED
    BY <1>2, <2>1, <2>2, <2>3, <2>4, QuietExplains
<1>5. CASE Finish(w)
  <2>1. poll' = [poll EXCEPT ![w] = Rest] /\ txn' = "none" /\ mt_iface_oper' = mt_iface_oper
    BY <1>5 DEF Finish, polled
  <2>2. poll'[w].at = "rest" /\ \A v \in Pollers : v # w => poll'[v] = poll[v]
    BY <1>1, <2>1 DEF PortTypeOK, Rest
  <2>3. ~Alerting'
    BY <1>2, <2>2 DEF Alerting
  <2>4. Effective' = open'["interface_down"]
    BY <2>1 DEF Effective
  <2>5. CASE txn # "writing" /\ UNCHANGED <<open, hushed>>
    BY <1>1, <1>2, <2>1, <2>3, <2>4, <2>5 DEF Explained, Effective
  <2>6. CASE /\ txn = "writing" /\ open' = view.open
             /\ hushed' = (hushed /\ view.open["interface_down"] > 0)
    <3>1. Effective' = Effective
      BY <2>4, <2>6 DEF Effective
    <3>2. Effective > 0 => (hushed' <=> hushed)
      <4>1. Effective > 0 => view.open["interface_down"] > 0
        BY <2>6 DEF Effective
      <4>2. hushed' <=> (hushed /\ view.open["interface_down"] > 0)
        BY <2>6, Zenon
      <4>3. QED
        BY <4>1, <4>2, Zenon
    <3>3. QED
      BY <1>1, <1>2, <2>1, <2>3, <3>1, <3>2 DEF Explained
  <2>7. CASE hushed' = TRUE
    BY <2>1, <2>3, <2>7 DEF Explained
  <2>8. QED
    BY <1>5, <2>5, <2>6, <2>7 DEF Finish
<1>6. QED
  BY <1>3, <1>4, <1>5

LEMMA HandlersExplain ==
  ASSUME ExplainInv, \/ \E w \in Pollers : Load(w) \/ Begin(w)
                     \/ \E walked \in SUBSET Ports, now_oper \in [Ports -> Opers] :
                           StoreFound(walked, now_oper)
                     \/ \E p \in Handled : SetMonitor(p) \/ DeleteRow(p) \/ Forget(p)
                     \/ \E p \in Ports : CoolDown(p)
                     \/ \E k \in AlertKinds : ResolveByHand(k)
                     \/ RestartPoll
  PROVE  Explained'
<1>1. PortTypeOK /\ Explained
  BY DEF ExplainInv, PortInv, LockInv
<1>2. ASSUME Alerting' <=> Alerting, Alerting => turn' = turn,
             UNCHANGED <<open, trans, mt_iface_oper, hushed>>
      PROVE  Explained'
  BY <1>1, <1>2 DEF Explained, Effective, Now, Port, turn, trans
<1>3. ASSUME NEW w \in Pollers, Load(w) PROVE Explained'
  <2>1. /\ poll[w].at # "alert" /\ poll'[w].at # "alert"
        /\ \A v \in Pollers : v # w => poll'[v] = poll[v]
    BY <1>1, <1>3 DEF Load, Rest, PortTypeOK
  <2>2. Alerting' <=> Alerting
    BY <2>1 DEF Alerting
  <2>3. QED
    BY <1>2, <1>3, <2>2 DEF Load, tables, polled
<1>4. ASSUME NEW w \in Pollers, Begin(w) PROVE Explained'
  <2>1. ~Alerting
    BY <1>4 DEF Begin, Locked, Alerting
  <2>2. poll'[w].at = "oper" /\ \A v \in Pollers : v # w => poll'[v] = poll[v]
    BY <1>1, <1>4, GoStep DEF Begin, Stages
  <2>3. ~Alerting'
    BY <2>1, <2>2 DEF Alerting
  <2>4. QED
    BY <1>2, <1>4, <2>1, <2>3 DEF Begin, tables, polled
<1>5. ASSUME NEW walked \in SUBSET Ports, NEW now_oper \in [Ports -> Opers], StoreFound(walked, now_oper)
      PROVE  Explained'
  <2>1. ~Alerting /\ ~Alerting'
    BY <1>5 DEF StoreFound, Locked, Alerting, Rest
  <2>2. QED
    BY <1>2, <1>5, <2>1 DEF StoreFound, polled
<1>6. ASSUME NEW p \in Handled, SetMonitor(p) \/ DeleteRow(p) PROVE Explained'
  <2>1. UNCHANGED <<open, txn, view, mt_iface_oper, hushed, turn, poll>>
    BY <1>6 DEF SetMonitor, DeleteRow, Elsewhere, polled
  <2>2. ~stale' => ~stale
    <3>1. stale' = (stale \/ txn = "pinned")
      BY <1>6 DEF SetMonitor, DeleteRow, Elsewhere
    <3>2. QED
      BY <3>1, Zenon
  <2>3. QED
    BY <1>1, <2>1, <2>2 DEF Explained, Effective, Alerting, Now, Port, turn
<1>7. ASSUME NEW p \in Handled, Forget(p) PROVE Explained'
  BY <1>1, <1>7 DEF Forget, tables, trans, Explained
<1>8. ASSUME NEW p \in Ports, CoolDown(p) PROVE Explained'
  <2>1. Alerting' <=> Alerting
    BY <1>8 DEF CoolDown, Alerting
  <2>2. QED
    BY <1>2, <1>8, <2>1 DEF CoolDown, tables
<1>9. ASSUME NEW k \in AlertKinds, ResolveByHand(k) PROVE Explained'
  <2>1. UNCHANGED <<txn, view, mt_iface_oper, hushed, turn, poll>> /\ Writable
    BY <1>9 DEF ResolveByHand, Elsewhere, polled
  <2>2. ~stale' => ~stale /\ txn # "pinned"
    <3>1. stale' = (stale \/ txn = "pinned")
      BY <1>9 DEF ResolveByHand, Elsewhere
    <3>2. QED
      BY <3>1, Zenon
  <2>3. open["interface_down"] \in Nat /\ open'["interface_down"] <= open["interface_down"]
        /\ open'["interface_down"] \in Int
    <3>1. open' = [open EXCEPT ![k] = open[k] - 1] /\ open[k] \in Nat /\ open \in [AlertKinds -> Nat]
      BY <1>1, <1>9 DEF ResolveByHand, PortTypeOK
    <3>2. QED
      BY <3>1 DEF AlertKinds
  <2>4. Effective' > 0 => Effective > 0
    BY <2>1, <2>3 DEF Effective, Writable
  <2>5. QED
    BY <1>1, <2>1, <2>2, <2>4 DEF Explained, Alerting, Now, Port, turn
<1>10. CASE RestartPoll
  <2>1. hushed' = TRUE /\ txn' = "none"
    BY <1>10 DEF RestartPoll
  <2>2. QED
    BY <2>1 DEF Explained
<1>11. QED
  BY <1>3, <1>4, <1>5, <1>6, <1>7, <1>8, <1>9, <1>10

LEMMA ExplainInvNext == ExplainInv /\ [PortNext]_portVars => ExplainInv'
<1> SUFFICES ASSUME ExplainInv, [PortNext]_portVars PROVE Explained'
  BY PortInvNext DEF ExplainInv
<1>1. CASE UNCHANGED portVars
  BY <1>1 DEF ExplainInv, Explained, Effective, Alerting, Now, Port, portVars, tables, rows, polled,
     turn, trans
<1>2. QED
  BY <1>1, TransitionExplains, AlertExplains, RestOfPollExplains, HandlersExplain DEF PortNext, Work

\* An interface_down alert is open without a port that is down only after an
\* UP that left it alone, for any number of ports, polls and mishaps
\* (nms/mikrotik_poll.py:664-745).
THEOREM ExplainedTheorem == PortSpec => []DownAlertIsExplained
<1>1. PortInit => ExplainInv
  <2> SUFFICES ASSUME PortInit PROVE Explained
    BY PortInvInit DEF ExplainInv
  <2>1. Effective = 0 /\ txn = "none" /\ ~Alerting
    BY NothingIsQuiet DEF PortInit, Effective, Alerting, Rest
  <2>2. QED
    BY <2>1 DEF Explained
<1>2. ExplainInv => DownAlertIsExplained
  <2> SUFFICES ASSUME ExplainInv, ~Locked, open["interface_down"] > 0, ~hushed
               PROVE  \E p \in Ports : mt_iface_oper[p] = "down"
    BY DEF DownAlertIsExplained
  <2>1. txn = "none" /\ ~Alerting
    BY DEF ExplainInv, PortInv, LockInv, Holds, Locked, Alerting
  <2>2. Effective = open["interface_down"]
    BY <2>1 DEF Effective
  <2>3. QED
    BY <2>1, <2>2 DEF ExplainInv, Explained
<1>3. QED
  BY <1>1, <1>2, ExplainInvNext, PTL DEF PortSpec

-----------------------------------------------------------------------------
(* MaintenanceWindows                                                       *)

\* Two windows of one request, stored or about to be, do not meet.
Apart(W) == \A v, w \in W : v.by = w.by /\ Meets(v, w) => v = w
MaintInv == MaintTypeOK /\ Apart(windows \cup planning)

LEMMA MeetsBothWays ==
  ASSUME NEW v \in WindowRow, NEW w \in WindowRow, Meets(v, w)
  PROVE  Meets(w, v)
BY DEF Meets

LEMMA MaintInvNext == MaintInv /\ [MaintNext]_maintVars => MaintInv'
<1> SUFFICES ASSUME MaintInv, [MaintNext]_maintVars PROVE MaintInv'
  OBVIOUS
<1>1. MaintTypeOK /\ Times \in Nat /\ Apart(windows \cup planning)
  BY MaintenanceAssumption DEF MaintInv
<1>2. ASSUME windows' \cup planning' \subseteq windows \cup planning, windows' \subseteq WindowRow,
             planning' \subseteq planning, moment' \in 0..Times
      PROVE  MaintInv'
  <2>1. MaintTypeOK'
    BY <1>1, <1>2 DEF MaintTypeOK
  <2>2. Apart(windows' \cup planning')
    BY <1>1, <1>2 DEF Apart
  <2>3. QED
    BY <2>1, <2>2 DEF MaintInv, Apart, Meets
<1>3. CASE UNCHANGED maintVars
  BY <1>1, <1>2, <1>3 DEF maintVars, MaintTypeOK
<1>4. CASE MaintTick
  BY <1>1, <1>2, <1>4 DEF MaintTick, MaintTypeOK
<1>5. ASSUME NEW w \in WindowRow, PlanWindow(w) PROVE MaintInv'
  <2>1. /\ planning' = planning \cup {w} /\ windows' = windows /\ moment' = moment
        /\ \A v \in planning : v.by # w.by
        /\ \A v \in windows : ~Meets(w, v)
    BY <1>5 DEF PlanWindow
  <2>2. MaintTypeOK'
    BY <1>1, <2>1 DEF MaintTypeOK
  <2>3. \A v \in windows : ~Meets(v, w)
    BY <1>1, <2>1, MeetsBothWays DEF MaintTypeOK
  <2>4. \A v \in windows \cup planning :
           ~(v.by = w.by /\ Meets(v, w)) /\ ~(w.by = v.by /\ Meets(w, v))
    BY <2>1, <2>3
  <2>5. Apart(windows' \cup planning')
    <3> DEFINE W == windows \cup planning
    <3>1. windows' \cup planning' = W \cup {w}
      BY <2>1
    <3>2. ASSUME NEW u \in W \cup {w}, NEW v \in W \cup {w}, u.by = v.by, Meets(u, v)
          PROVE  u = v
      <4>1. CASE u \in W /\ v \in W
        BY <1>1, <3>2, <4>1 DEF Apart
      <4>2. CASE u = w /\ v \in W
        BY <2>4, <3>2, <4>2
      <4>3. CASE u \in W /\ v = w
        BY <2>4, <3>2, <4>3
      <4>4. QED
        BY <3>2, <4>1, <4>2, <4>3
    <3>3. QED
      BY <3>1, <3>2 DEF Apart
  <2>6. QED
    BY <2>2, <2>5 DEF MaintInv, Apart, Meets
<1>6. ASSUME NEW w \in WindowRow, InsertWindow(w) PROVE MaintInv'
  <2>1. /\ w \in planning /\ planning' = planning \ {w} /\ moment' = moment
        /\ windows' \in {windows \cup {w}, windows}
    BY <1>6 DEF InsertWindow
  <2>2. QED
    BY <1>1, <1>2, <2>1 DEF MaintTypeOK
<1>7. ASSUME NEW w \in WindowRow, DeleteWindow(w) PROVE MaintInv'
  BY <1>1, <1>2, <1>7 DEF DeleteWindow, MaintTypeOK
<1>8. CASE CleanUpWindows
  BY <1>1, <1>2, <1>8 DEF CleanUpWindows, MaintTypeOK
<1>9. QED
  BY <1>3, <1>4, <1>5, <1>6, <1>7, <1>8 DEF MaintNext

\* The windows of a host that are active at a moment meet each other, and so
\* come from different requests.
LEMMA ActiveIsInjective ==
  ASSUME MaintInv, NEW p \in Planned, NEW t \in 0..Times
  PROVE  Cardinality(Active(p, t)) <= Cardinality(Planners)
<1> DEFINE maker == [w \in Active(p, t) |-> w.by]
<1>1. Active(p, t) \subseteq windows /\ windows \subseteq WindowRow /\ t \in Int
  BY MaintenanceAssumption DEF Active, MaintInv, MaintTypeOK
<1>2. ASSUME NEW v \in Active(p, t), NEW w \in Active(p, t), v.by = w.by
      PROVE  v = w
  <2>1. v \in WindowRow /\ w \in WindowRow /\ v.on = w.on /\ t \in v.start..v.end /\ t \in w.start..w.end
    BY <1>1 DEF Active
  <2>2. v.start \in Int /\ v.end \in Int /\ w.start \in Int /\ w.end \in Int
    BY <2>1, MaintenanceAssumption DEF WindowRow
  <2>3. Meets(v, w)
    BY <1>1, <2>1, <2>2 DEF Meets
  <2>4. v \in windows \cup planning /\ w \in windows \cup planning
    BY <1>1
  <2>5. QED
    BY <1>2, <2>3, <2>4 DEF MaintInv, Apart
<1>3. maker \in [Active(p, t) -> Planners]
  BY <1>1 DEF WindowRow
<1>4. \A v, w \in Active(p, t) : maker[v] = maker[w] => v = w
  BY <1>2
<1> HIDE DEF maker
<1>5. maker \in Injection(Active(p, t), Planners)
  BY <1>3, <1>4 DEF Injection, IsInjective
<1>6. QED
  BY <1>5, MaintenanceAssumption, FS_Injection

\* For any number of hosts, moments and requests, no more windows of a host are
\* active at a moment than there are requests (app.py:4726-4750).
THEOREM WindowsTheorem == MaintSpec => []ActiveWindowsBounded
<1>1. MaintInit => MaintInv
  BY MaintenanceAssumption DEF MaintInit, MaintInv, MaintTypeOK, Apart
<1>2. MaintInv => ActiveWindowsBounded
  BY ActiveIsInjective DEF ActiveWindowsBounded
<1>3. QED
  BY <1>1, <1>2, MaintInvNext, PTL DEF MaintSpec

-----------------------------------------------------------------------------
(* PowerMeter                                                               *)

LEMMA PowerNumbers ==
  /\ GapMax \in Nat /\ Retention \in Nat
  /\ MaxClock \in Nat /\ MaxReadings \in Nat /\ MaxSlips \in Nat
BY PowerAssumption

LEMMA WattsHaveOne == ASSUME NEW w \in Watts, w # << >> PROVE w[1] \in Int
<1>1. w \in Seq(Int) /\ Len(w) \in Nat
  BY LenProperties DEF Watts
<1>2. Len(w) # 0
  BY <1>1, EmptySeq
<1>3. 1 \in 1..Len(w)
  BY <1>1, <1>2
<1>4. QED
  BY <1>1, <1>3, ElementOfSeq

LEMMA WattsMade ==
  /\ << >> \in Watts /\ HandIns \subseteq Watts
  /\ \A n \in Int : <<n>> \in Watts
<1>1. << >> \in Seq(Int) /\ Len(<< >>) = 0
  BY EmptySeq
<1>2. \A n \in Int : <<n>> \in Seq(Int) /\ Len(<<n>>) = 1
  OBVIOUS
<1>3. \A h \in HandIns : h \in Seq(Int) /\ Len(h) <= 1
  BY PowerAssumption
<1>4. QED
  BY <1>1, <1>2, <1>3 DEF Watts

\* The row stored last is the one with the highest id.
LEMMA PreviousIsNewest ==
  ASSUME PowerTypeOK, DOMAIN metrics # {}
  PROVE  \E i \in DOMAIN metrics : Previous = metrics[i] /\ \A j \in DOMAIN metrics : j <= i
<1> DEFINE Below == {n \in Nat : lastId - n \in DOMAIN metrics}
<1>1. lastId \in Nat /\ DOMAIN metrics \subseteq 1..lastId
  BY PowerNumbers DEF PowerTypeOK
<1>2. \A i \in DOMAIN metrics : i \in Int /\ lastId - i \in Below
  BY <1>1
<1>3. Below # {} /\ Below \subseteq Nat
  BY <1>2
<1>4. PICK m \in Below : \A n \in Below : ~(<<n, m>> \in OpToRel(<, Nat))
  BY <1>3, WFMin, NatLessThanWellFounded, Zenon
<1>5. m \in Nat /\ lastId - m \in DOMAIN metrics
  OBVIOUS
<1>6. ASSUME NEW j \in DOMAIN metrics PROVE j <= lastId - m
  <2>1. lastId - j \in Below /\ lastId - j \in Nat
    BY <1>2
  <2>2. lastId - j < m => <<lastId - j, m>> \in OpToRel(<, Nat)
    BY <1>5, <2>1, Zenon DEF OpToRel
  <2>3. ~(lastId - j < m)
    BY <1>4, <2>1, <2>2, Zenon
  <2>4. QED
    BY <1>1, <1>2, <1>5, <2>3
<1> DEFINE Top(i) == \A j \in DOMAIN metrics : j <= i
<1>7. \E i \in DOMAIN metrics : Top(i)
  BY <1>5, <1>6
<1>8. Top(CHOOSE i \in DOMAIN metrics : Top(i))
      /\ (CHOOSE i \in DOMAIN metrics : Top(i)) \in DOMAIN metrics
  BY <1>7
<1>9. QED
  BY <1>8 DEF Previous

LEMMA GapBounds ==
  ASSUME NEW from \in Int, NEW to \in Int
  PROVE  /\ Gap(from, to) \in Nat /\ Gap(from, to) <= GapMax
         /\ from <= to => Gap(from, to) <= to - from
BY PowerNumbers DEF Gap

LEMMA ProductIsNat == ASSUME NEW a \in Int, NEW b \in Nat, a >= 0 PROVE a * b \in Nat
<1>1. a \in Nat
  OBVIOUS
<1>2. QED
  BY <1>1

\* What a row is stored with: nothing, or what the two readings make.
LEMMA EnergyIs ==
  ASSUME PowerTypeOK, NEW w \in Watts, NEW t \in 0..MaxClock
  PROVE  \/ Energy(w, t) = 0
         \/ \E i \in DOMAIN metrics :
               /\ \A j \in DOMAIN metrics : j <= i
               /\ metrics[i].watts # << >> /\ w # << >>
               /\ metrics[i].watts[1] + w[1] >= 0
               /\ Energy(w, t) = (metrics[i].watts[1] + w[1]) * Gap(metrics[i].time, t)
<1>1. CASE DOMAIN metrics = {}
  BY <1>1 DEF Energy
<1>2. CASE DOMAIN metrics # {}
  <2>1. PICK i \in DOMAIN metrics : Previous = metrics[i] /\ \A j \in DOMAIN metrics : j <= i
    BY <1>2, PreviousIsNewest
  <2>2. metrics[i].watts \in Watts
    BY DEF PowerTypeOK, Metric
  <2>3. CASE metrics[i].watts = << >> \/ w = << >>
    BY <1>2, <2>1, <2>3 DEF Energy
  <2>4. CASE metrics[i].watts # << >> /\ w # << >>
    <3>1. metrics[i].watts[1] \in Int /\ w[1] \in Int
      BY <2>2, <2>4, WattsHaveOne
    <3>2. CASE metrics[i].watts[1] + w[1] < 0
      BY <1>2, <2>1, <2>4, <3>2 DEF Energy
    <3>3. CASE ~(metrics[i].watts[1] + w[1] < 0)
      <4>1. Energy(w, t) = (metrics[i].watts[1] + w[1]) * Gap(metrics[i].time, t)
        BY <1>2, <2>1, <2>4, <3>3 DEF Energy
      <4>2. metrics[i].watts[1] + w[1] >= 0
        BY <3>1, <3>3
      <4>3. QED
        BY <2>1, <2>4, <4>1, <4>2
    <3>4. QED
      BY <3>2, <3>3
  <2>5. QED
    BY <2>3, <2>4
<1>3. QED
  BY <1>1, <1>2

LEMMA EnergyIsNat ==
  ASSUME PowerTypeOK, NEW w \in Watts, NEW t \in 0..MaxClock
  PROVE  Energy(w, t) \in Nat
<1>1. CASE Energy(w, t) = 0
  BY <1>1
<1>2. ASSUME NEW i \in DOMAIN metrics, metrics[i].watts # << >>, w # << >>,
             metrics[i].watts[1] + w[1] >= 0,
             Energy(w, t) = (metrics[i].watts[1] + w[1]) * Gap(metrics[i].time, t)
      PROVE  Energy(w, t) \in Nat
  <2>1. metrics[i].watts \in Watts /\ metrics[i].time \in Int /\ t \in Int
    BY PowerNumbers DEF PowerTypeOK, Metric
  <2>2. metrics[i].watts[1] + w[1] \in Int
    BY <1>2, <2>1, WattsHaveOne
  <2>3. Gap(metrics[i].time, t) \in Nat
    BY <2>1, GapBounds
  <2>4. (metrics[i].watts[1] + w[1]) * Gap(metrics[i].time, t) \in Nat
    BY <1>2, <2>2, <2>3, ProductIsNat
  <2>5. QED
    BY <1>2, <2>4
<1>3. QED
  BY <1>1, <1>2, EnergyIs

-----------------------------------------------------------------------------
Undisturbed == slips = 0 /\ ~overtaken

Waits(r) == recorder[r].at = "stamped"

\* No row between two others is missing, and the times rise with the ids.
RowsRise ==
    \A i, j \in DOMAIN metrics :
        /\ i..j \subseteq DOMAIN metrics
        /\ i <= j => metrics[i].time <= metrics[j].time

NewestKept == DOMAIN metrics # {} => lastId \in DOMAIN metrics

\* A reading that waits for db_lock is of now or before, and of no time before
\* that of any row.
TimesPass ==
    /\ \A r \in Recorders : Waits(r) => recorder[r].time <= clock
    /\ \A i \in DOMAIN metrics :
          /\ metrics[i].time <= clock
          /\ \A r \in Recorders : Waits(r) => metrics[i].time <= recorder[r].time

\* What a row was stored with, read off the row before it while that is kept.
FromReadings(i) ==
    \/ metrics[i].energy = 0
    \/ /\ metrics[i - 1].watts # << >> /\ metrics[i].watts # << >>
       /\ metrics[i - 1].watts[1] + metrics[i].watts[1] >= 0
       /\ metrics[i].energy = (metrics[i - 1].watts[1] + metrics[i].watts[1])
                              * Gap(metrics[i - 1].time, metrics[i].time)
RowsExplained == \A i \in DOMAIN metrics : i - 1 \in DOMAIN metrics => FromReadings(i)

RowsInv == RowsRise /\ NewestKept /\ TimesPass /\ RowsExplained
PowerInv == PowerTypeOK /\ (Undisturbed => RowsInv)

Recorder == [at : {"idle", "asked", "stamped"}, scale : Nat, watts : Watts, time : 0..MaxClock]

LEMMA PowerInvInit == PowerInit => PowerInv
<1> SUFFICES ASSUME PowerInit PROVE PowerInv
  OBVIOUS
<1>1. 0 \in 0..MaxClock /\ 0 \in 0..MaxReadings /\ 0 \in 0..MaxSlips /\ FALSE \in BOOLEAN
  BY PowerNumbers
<1>2. metrics = << >> /\ DOMAIN << >> = {} /\ << >> = [i \in {} |-> metrics[i]]
  BY DEF PowerInit
<1>3. Idle \in Recorder /\ Idle.at = "idle"
  BY <1>1, WattsMade DEF Idle, Recorder
<1>4. recorder \in [Recorders -> Recorder] /\ \A r \in Recorders : recorder[r].at = "idle"
  BY <1>3 DEF PowerInit
<1>5. PowerTypeOK
  BY <1>1, <1>2, <1>4 DEF PowerInit, PowerTypeOK, Recorder
<1>6. RowsInv
  BY <1>2, <1>4 DEF RowsInv, RowsRise, NewestKept, TimesPass, RowsExplained, Waits
<1>7. QED
  BY <1>5, <1>6 DEF PowerInv

\* The rows stay as they are, and a recorder that begins to wait does so now.
LEMMA RowsStay ==
  ASSUME PowerInv, UNCHANGED <<metrics, lastId, slips, overtaken>>, PowerTypeOK',
         clock' >= clock,
         \A r \in Recorders : Waits(r)' => \/ Waits(r) /\ recorder'[r].time = recorder[r].time
                                           \/ recorder'[r].time = clock
  PROVE  PowerInv'
<1> SUFFICES ASSUME Undisturbed PROVE RowsInv'
  BY DEF PowerInv, Undisturbed
<1>0. RowsInv
  BY DEF PowerInv
<1>1. clock \in Int /\ clock' \in Int
  BY PowerNumbers DEF PowerInv, PowerTypeOK
<1>2. \A i \in DOMAIN metrics : metrics[i].time \in Int
  BY PowerNumbers DEF PowerInv, PowerTypeOK, Metric
<1>3. \A r \in Recorders : recorder[r].time \in Int /\ recorder'[r].time \in Int
  BY PowerNumbers DEF PowerInv, PowerTypeOK
<1>4. RowsRise' /\ NewestKept'
  BY <1>0 DEF RowsInv, RowsRise, NewestKept
<1>5. RowsExplained'
  BY <1>0 DEF RowsInv, RowsExplained, FromReadings, Gap
<1>6. TimesPass'
  <2>1. \A r \in Recorders : Waits(r)' => recorder'[r].time <= clock'
    BY <1>0, <1>1, <1>3 DEF RowsInv, TimesPass
  <2>2. \A i \in DOMAIN metrics : metrics[i].time <= clock'
    BY <1>0, <1>1, <1>2 DEF RowsInv, TimesPass
  <2>3. \A i \in DOMAIN metrics, r \in Recorders :
           Waits(r)' => metrics[i].time <= recorder'[r].time
    BY <1>0, <1>1, <1>2, <1>3 DEF RowsInv, TimesPass
  <2>4. QED
    BY <2>1, <2>2, <2>3 DEF TimesPass
<1>7. QED
  BY <1>4, <1>5, <1>6 DEF RowsInv

LEMMA MoveTypes ==
  ASSUME PowerTypeOK, NEW r \in Recorders, NEW state \in Recorder, Move(r, state),
         UNCHANGED <<metrics, lastId, overtaken>>
  PROVE  /\ PowerTypeOK' /\ recorder'[r] = state
         /\ \A o \in Recorders : o # r => recorder'[o] = recorder[o]
<1>1. recorder \in [Recorders -> Recorder]
  BY DEF PowerTypeOK, Recorder
<1>2. recorder' \in [Recorders -> Recorder] /\ recorder'[r] = state
      /\ \A o \in Recorders : o # r => recorder'[o] = recorder[o]
  BY <1>1 DEF Move
<1>3. QED
  BY <1>2 DEF Move, PowerTypeOK, Recorder

LEMMA RecorderKeeps ==
  ASSUME PowerInv, NEW r \in Recorders, NEW state \in Recorder, Move(r, state),
         UNCHANGED <<metrics, lastId, overtaken>>, state.at = "stamped" => state.time = clock
  PROVE  PowerInv'
<1>1. /\ PowerTypeOK' /\ recorder'[r] = state
      /\ \A o \in Recorders : o # r => recorder'[o] = recorder[o]
  BY MoveTypes DEF PowerInv
<1>2. clock' = clock /\ clock \in Int /\ UNCHANGED slips
  BY PowerNumbers DEF Move, PowerInv, PowerTypeOK
<1>3. \A o \in Recorders : Waits(o)' => \/ Waits(o) /\ recorder'[o].time = recorder[o].time
                                        \/ recorder'[o].time = clock
  BY <1>1 DEF Waits
<1>4. QED
  BY <1>1, <1>2, <1>3, RowsStay

LEMMA AskedIs ==
  [Idle EXCEPT !.at = "asked", !.scale = scale[1]] =
     [at |-> "asked", scale |-> scale[1], watts |-> << >>, time |-> 0]
<1> DEFINE asked == [Idle EXCEPT !.at = "asked"]
<1>1. asked = [at |-> "asked", scale |-> 1, watts |-> << >>, time |-> 0]
  BY DEF Idle
<1> HIDE DEF asked
<1>2. [asked EXCEPT !.scale = scale[1]] =
         [at |-> "asked", scale |-> scale[1], watts |-> << >>, time |-> 0]
  BY <1>1
<1>3. [Idle EXCEPT !.at = "asked", !.scale = scale[1]] = [asked EXCEPT !.scale = scale[1]]
  BY DEF asked
<1>4. QED
  BY <1>2, <1>3

LEMMA AskKeeps == ASSUME PowerInv, NEW r \in Recorders, AskMeter(r) PROVE PowerInv'
<1> DEFINE state == [Idle EXCEPT !.at = "asked", !.scale = scale[1]]
<1>1. scale[1] \in Nat
  BY PowerAssumption DEF PowerInv, PowerTypeOK, AskMeter
<1>2. state \in Recorder /\ state.at = "asked"
  <2>1. state = [at |-> "asked", scale |-> scale[1], watts |-> << >>, time |-> 0]
    BY AskedIs
  <2>2. 0 \in 0..MaxClock /\ << >> \in Watts
    BY PowerNumbers, WattsMade
  <2> HIDE DEF state
  <2>3. QED
    BY <1>1, <2>1, <2>2 DEF Recorder
<1>3. Move(r, state) /\ UNCHANGED <<metrics, lastId, overtaken>>
  BY DEF AskMeter
<1> HIDE DEF state
<1>4. QED
  BY <1>2, <1>3, RecorderKeeps

LEMMA StampedIsRecorder ==
  ASSUME PowerInv, NEW watts \in Watts
  PROVE  /\ Stamped(watts) \in Recorder /\ Stamped(watts).time = clock
         /\ Stamped(watts).at = "stamped"
BY DEF Stamped, Idle, Recorder, PowerInv, PowerTypeOK

LEMMA AnswerKeeps ==
  ASSUME PowerInv, NEW r \in Recorders, NEW raw \in RawReadings, MeterAnswers(r, raw)
  PROVE  PowerInv'
<1>1. raw \in Int /\ recorder[r].scale \in Int
  BY PowerAssumption DEF PowerInv, PowerTypeOK
<1>2. raw * recorder[r].scale \in Int
  BY <1>1
<1>3. <<raw * recorder[r].scale>> \in Watts
  BY <1>2, WattsMade
<1>4. QED
  BY <1>3, StampedIsRecorder, RecorderKeeps DEF MeterAnswers

LEMMA HandInKeeps ==
  ASSUME PowerInv, NEW r \in Recorders, NEW watts \in HandIns, HandIn(r, watts)
  PROVE  PowerInv'
BY WattsMade, StampedIsRecorder, RecorderKeeps DEF HandIn

LEMMA GiveUpKeeps == ASSUME PowerInv, NEW r \in Recorders, GiveUp(r) PROVE PowerInv'
<1>1. Idle \in Recorder /\ Idle.at = "idle"
  BY PowerNumbers, WattsMade DEF Idle, Recorder
<1>2. QED
  BY <1>1, RecorderKeeps DEF GiveUp

LEMMA TickKeeps == ASSUME PowerInv, PowerTick PROVE PowerInv'
<1>1. PowerTypeOK' /\ clock' >= clock
  BY PowerNumbers DEF PowerInv, PowerTypeOK, PowerTick
<1>2. \A r \in Recorders : Waits(r)' => Waits(r) /\ recorder'[r].time = recorder[r].time
  BY DEF PowerTick, Waits
<1>3. QED
  BY <1>1, <1>2, RowsStay DEF PowerTick

LEMMA OidKeeps ==
  ASSUME PowerInv, NEW s \in {<<n>> : n \in Scales} \cup {<< >>}, SetPowerOid(s)
  PROVE  PowerInv'
<1>1. PowerTypeOK'
  BY DEF PowerInv, PowerTypeOK, SetPowerOid
<1>2. clock' >= clock
  BY PowerNumbers DEF PowerInv, PowerTypeOK, SetPowerOid
<1>3. \A r \in Recorders : Waits(r)' => Waits(r) /\ recorder'[r].time = recorder[r].time
  BY DEF SetPowerOid, Waits
<1>4. QED
  BY <1>1, <1>2, <1>3, RowsStay DEF SetPowerOid

\* Once the clock was set back nothing is promised.
LEMMA SetBackKeeps == ASSUME PowerInv, ClockSetBack PROVE PowerInv'
<1>1. slips \in Nat /\ slips' = slips + 1
  BY PowerNumbers DEF PowerInv, PowerTypeOK, ClockSetBack
<1>2. ~Undisturbed'
  BY <1>1 DEF Undisturbed
<1>3. PowerTypeOK'
  BY PowerNumbers DEF PowerInv, PowerTypeOK, ClockSetBack
<1>4. QED
  BY <1>2, <1>3 DEF PowerInv

\* While the times rise with the ids, it is the first rows that are cleaned away.
LEMMA CleanKeeps == ASSUME PowerInv, CleanMetrics PROVE PowerInv'
<1>0. /\ metrics' = [i \in Recent |-> metrics[i]]
      /\ UNCHANGED <<clock, lastId, scale, recorder, overtaken, slips>>
  BY DEF CleanMetrics
<1>1. Recent \subseteq DOMAIN metrics
  BY DEF Recent
<1>2. DOMAIN metrics' = Recent /\ \A i \in Recent : metrics'[i] = metrics[i]
  BY <1>0
<1>3. PowerTypeOK'
  BY <1>0, <1>1, <1>2 DEF PowerInv, PowerTypeOK
<1>4. SUFFICES ASSUME Undisturbed PROVE RowsInv'
  BY <1>0, <1>3 DEF PowerInv, Undisturbed
<1>5. RowsInv
  BY <1>4 DEF PowerInv
<1>6. lastId \in Int /\ DOMAIN metrics \subseteq 1..lastId /\ clock - Retention \in Int
  BY PowerNumbers DEF PowerInv, PowerTypeOK
<1>7. \A i \in DOMAIN metrics : metrics[i].time \in Int /\ i \in Int
  BY <1>6, PowerNumbers DEF PowerInv, PowerTypeOK, Metric
<1>8. ASSUME NEW i \in Recent, NEW j \in DOMAIN metrics, i <= j PROVE j \in Recent
  <2>1. metrics[i].time <= metrics[j].time
    BY <1>1, <1>5, <1>8 DEF RowsInv, RowsRise
  <2>2. QED
    BY <1>1, <1>6, <1>7, <2>1 DEF Recent
<1>9. RowsRise'
  <2> SUFFICES ASSUME NEW i \in Recent, NEW j \in Recent
               PROVE  i..j \subseteq Recent /\ (i <= j => metrics[i].time <= metrics[j].time)
    BY <1>2 DEF RowsRise
  <2>1. i \in DOMAIN metrics /\ j \in DOMAIN metrics
    BY <1>1
  <2>2. i..j \subseteq DOMAIN metrics /\ (i <= j => metrics[i].time <= metrics[j].time)
    BY <1>5, <2>1 DEF RowsInv, RowsRise
  <2>3. \A k \in i..j : i <= k
    BY <1>7, <2>1
  <2>4. QED
    BY <1>8, <2>2, <2>3
<1>10. NewestKept'
  BY <1>0, <1>1, <1>2, <1>5, <1>6, <1>8 DEF RowsInv, NewestKept
<1>11. TimesPass'
  BY <1>0, <1>1, <1>2, <1>5 DEF RowsInv, TimesPass, Waits
<1>12. RowsExplained'
  <2> SUFFICES ASSUME NEW i \in Recent, i - 1 \in Recent PROVE FromReadings(i)'
    BY <1>2 DEF RowsExplained
  <2>1. FromReadings(i)
    BY <1>1, <1>5 DEF RowsInv, RowsExplained
  <2>2. metrics'[i] = metrics[i] /\ metrics'[i - 1] = metrics[i - 1]
    BY <1>2
  <2>3. QED
    BY <2>1, <2>2 DEF FromReadings, Gap
<1>13. QED
  BY <1>9, <1>10, <1>11, <1>12 DEF RowsInv

LEMMA StoreKeeps == ASSUME PowerInv, NEW r \in Recorders, StoreMetric(r) PROVE PowerInv'
<1> DEFINE w == recorder[r].watts
           t == recorder[r].time
           n == lastId + 1
           row == [time |-> t, watts |-> w, energy |-> Energy(w, t)]
<1>1. /\ Waits(r) /\ lastId < MaxReadings /\ lastId' = n
      /\ metrics' = [i \in DOMAIN metrics \cup {n} |-> IF i = n THEN row ELSE metrics[i]]
      /\ overtaken' = (overtaken \/ \E o \in Recorders :
                           recorder[o].at = "stamped" /\ recorder[o].time < t)
      /\ recorder' = [recorder EXCEPT ![r] = Idle]
      /\ UNCHANGED <<clock, scale, slips>>
  BY DEF StoreMetric, Move, Waits
<1>2. w \in Watts /\ t \in 0..MaxClock /\ t \in Int
  BY PowerNumbers DEF PowerInv, PowerTypeOK
<1>3. row \in Metric /\ row.time = t /\ row.watts = w /\ row.energy = Energy(w, t)
  BY <1>2, EnergyIsNat DEF Metric, PowerInv
<1>4. lastId \in Nat /\ DOMAIN metrics \subseteq 1..lastId /\ n \in Nat /\ n \notin DOMAIN metrics
  BY PowerNumbers DEF PowerInv, PowerTypeOK
<1> HIDE DEF row, t, w
<1>5. /\ DOMAIN metrics' = DOMAIN metrics \cup {n} /\ metrics'[n] = row
      /\ \A i \in DOMAIN metrics : metrics'[i] = metrics[i]
      /\ metrics' = [i \in DOMAIN metrics' |-> metrics'[i]]
  BY <1>1, <1>4
<1>6. Idle \in Recorder /\ Idle.at = "idle"
  BY PowerNumbers, WattsMade DEF Idle, Recorder
<1>7. recorder \in [Recorders -> Recorder]
  BY DEF PowerInv, PowerTypeOK, Recorder
<1>8. /\ recorder' \in [Recorders -> Recorder] /\ ~Waits(r)'
      /\ \A o \in Recorders : o # r => recorder'[o] = recorder[o]
  BY <1>1, <1>6, <1>7 DEF Waits
<1>9. PowerTypeOK'
  <2>1. lastId' \in 0..MaxReadings /\ DOMAIN metrics' \subseteq 1..lastId'
    BY <1>1, <1>4, <1>5, PowerNumbers
  <2>2. \A i \in DOMAIN metrics' : metrics'[i] \in Metric
    BY <1>3, <1>5 DEF PowerInv, PowerTypeOK
  <2>3. /\ clock' \in 0..MaxClock /\ slips' \in 0..MaxSlips
        /\ scale' \in {<<m>> : m \in Scales} \cup {<< >>}
    BY <1>1 DEF PowerInv, PowerTypeOK
  <2>4. overtaken' \in BOOLEAN
    BY <1>1 DEF PowerInv, PowerTypeOK
  <2>5. QED
    BY <1>5, <1>8, <2>1, <2>2, <2>3, <2>4 DEF PowerTypeOK, Recorder
<1>10. SUFFICES ASSUME Undisturbed' PROVE RowsInv'
  BY <1>9 DEF PowerInv
<1>11. Undisturbed /\ \A o \in Recorders : Waits(o) => ~(recorder[o].time < t)
  BY <1>1, <1>10 DEF Undisturbed, Waits
<1>12. RowsInv
  BY <1>11 DEF PowerInv
<1>13. /\ \A i \in DOMAIN metrics : metrics[i].time \in Int /\ i \in Int /\ i < n
       /\ \A o \in Recorders : recorder[o].time \in Int
       /\ clock \in Int
  BY <1>4, PowerNumbers DEF PowerInv, PowerTypeOK, Metric
<1>14. t <= clock /\ \A i \in DOMAIN metrics : metrics[i].time <= t
  BY <1>1, <1>12 DEF RowsInv, TimesPass, t
<1>15. DOMAIN metrics # {} => lastId \in DOMAIN metrics
  BY <1>12 DEF RowsInv, NewestKept
<1>16. RowsRise'
  <2> SUFFICES ASSUME NEW i \in DOMAIN metrics', NEW j \in DOMAIN metrics'
               PROVE  /\ i..j \subseteq DOMAIN metrics'
                      /\ i <= j => metrics'[i].time <= metrics'[j].time
    BY DEF RowsRise
  <2>1. CASE i \in DOMAIN metrics /\ j \in DOMAIN metrics
    BY <1>5, <1>12, <2>1 DEF RowsInv, RowsRise
  <2>2. CASE i \in DOMAIN metrics /\ j = n
    <3>1. i..lastId \subseteq DOMAIN metrics
      BY <1>12, <1>15, <2>2 DEF RowsInv, RowsRise
    <3>2. i..n = i..lastId \cup {n}
      BY <1>4, <1>13, <2>2
    <3>3. QED
      BY <1>3, <1>5, <1>14, <2>2, <3>1, <3>2
  <2>3. CASE i = n /\ j \in DOMAIN metrics
    <3>1. i \in Int /\ j \in Int /\ j < i
      BY <1>4, <1>13, <2>3
    <3>2. i..j = {} /\ ~(i <= j)
      BY <3>1
    <3>3. QED
      BY <3>2
  <2>4. CASE i = n /\ j = n
    BY <1>2, <1>3, <1>4, <1>5, <2>4
  <2>5. QED
    BY <1>5, <2>1, <2>2, <2>3, <2>4
<1>17. NewestKept'
  BY <1>1, <1>5 DEF NewestKept
<1>18. TimesPass'
  <2>1. \A o \in Recorders : Waits(o)' => Waits(o) /\ recorder'[o] = recorder[o]
    BY <1>8 DEF Waits
  <2>2. \A o \in Recorders : Waits(o)' => recorder'[o].time <= clock'
    BY <1>1, <1>12, <2>1 DEF RowsInv, TimesPass
  <2>3. \A i \in DOMAIN metrics' : metrics'[i].time <= clock'
    BY <1>1, <1>3, <1>5, <1>12, <1>14 DEF RowsInv, TimesPass
  <2>4. \A i \in DOMAIN metrics', o \in Recorders :
           Waits(o)' => metrics'[i].time <= recorder'[o].time
    <3> SUFFICES ASSUME NEW i \in DOMAIN metrics', NEW o \in Recorders, Waits(o)'
                 PROVE  metrics'[i].time <= recorder[o].time
      BY <2>1
    <3>1. CASE i = n
      BY <1>2, <1>3, <1>5, <1>11, <1>13, <2>1, <3>1
    <3>2. CASE i \in DOMAIN metrics
      BY <1>5, <1>12, <2>1, <3>2 DEF RowsInv, TimesPass
    <3>3. QED
      BY <1>5, <3>1, <3>2
  <2>5. QED
    BY <2>2, <2>3, <2>4 DEF TimesPass
<1>19. RowsExplained'
  <2> SUFFICES ASSUME NEW i \in DOMAIN metrics', i - 1 \in DOMAIN metrics'
               PROVE  FromReadings(i)'
    BY DEF RowsExplained
  <2>1. i - 1 \in DOMAIN metrics
    BY <1>4, <1>5, <1>13
  <2>2. CASE i \in DOMAIN metrics
    <3>1. FromReadings(i) /\ metrics'[i] = metrics[i] /\ metrics'[i - 1] = metrics[i - 1]
      BY <1>5, <1>12, <2>1, <2>2 DEF RowsInv, RowsExplained
    <3>2. QED
      BY <3>1 DEF FromReadings, Gap
  <2>3. CASE i = n
    <3>1. i - 1 = lastId
      BY <1>4, <2>3
    <3>2. metrics'[i] = row /\ metrics'[i - 1] = metrics[lastId]
      BY <1>5, <2>1, <2>3, <3>1
    <3>3. CASE Energy(w, t) = 0
      BY <1>3, <3>2, <3>3 DEF FromReadings
    <3>4. ASSUME NEW k \in DOMAIN metrics, \A j \in DOMAIN metrics : j <= k,
                 metrics[k].watts # << >>, w # << >>, metrics[k].watts[1] + w[1] >= 0,
                 Energy(w, t) = (metrics[k].watts[1] + w[1]) * Gap(metrics[k].time, t)
          PROVE  FromReadings(i)'
      <4>1. k = lastId
        <5>1. k \in Int /\ k <= lastId /\ lastId <= k
          BY <1>4, <2>1, <3>1, <3>4
        <5>2. QED
          BY <1>4, <5>1
      <4>2. QED
        BY <1>3, <3>2, <3>4, <4>1 DEF FromReadings, Gap
    <3>5. QED
      BY <1>2, <3>3, <3>4, EnergyIs DEF PowerInv
  <2>4. QED
    BY <1>5, <2>2, <2>3
<1>20. QED
  BY <1>16, <1>17, <1>18, <1>19 DEF RowsInv

LEMMA PowerInvNext == PowerInv /\ [PowerNext]_powerVars => PowerInv'
<1> SUFFICES ASSUME PowerInv, [PowerNext]_powerVars PROVE PowerInv'
  OBVIOUS
<1>1. CASE PowerTick \/ ClockSetBack \/ CleanMetrics
  BY <1>1, TickKeeps, SetBackKeeps, CleanKeeps
<1>2. CASE \E s \in {<<n>> : n \in Scales} \cup {<< >>} : SetPowerOid(s)
  BY <1>2, OidKeeps
<1>3. CASE \E r \in Recorders :
             \/ AskMeter(r) \/ GiveUp(r) \/ StoreMetric(r)
             \/ \E raw \in RawReadings : MeterAnswers(r, raw)
             \/ \E watts \in HandIns : HandIn(r, watts)
  BY <1>3, AskKeeps, GiveUpKeeps, StoreKeeps, AnswerKeeps, HandInKeeps
<1>4. CASE UNCHANGED powerVars
  <2>1. PowerTypeOK'
    BY <1>4 DEF powerVars, PowerInv, PowerTypeOK, Metric, Watts
  <2>2. Undisturbed' <=> Undisturbed
    BY <1>4 DEF powerVars, Undisturbed
  <2>3. RowsInv => RowsInv'
    BY <1>4 DEF powerVars, RowsInv, RowsRise, NewestKept, TimesPass, RowsExplained,
                FromReadings, Gap, Waits
  <2>4. QED
    BY <2>1, <2>2, <2>3 DEF PowerInv
<1>5. QED
  BY <1>1, <1>2, <1>3, <1>4 DEF PowerNext

LEMMA EnergyOfNat == ASSUME PowerTypeOK, NEW k PROVE EnergyOf(k) \in Nat
BY DEF PowerTypeOK, Metric, EnergyOf

\* The sums up to n: the recursion of EnergyAfter, cut off at n.
Summed(f, i, n) ==
    /\ f \in [0..n -> Int]
    /\ \A k \in 0..n : f[k] = IF k <= i THEN 0 ELSE f[k - 1] + EnergyOf(k)

LEMMA SumsAgree ==
  ASSUME NEW i \in Nat, NEW m \in Nat, NEW n \in Nat, m <= n,
         NEW f, NEW g, Summed(f, i, m), Summed(g, i, n)
  PROVE  \A k \in 0..m : f[k] = g[k]
<1> DEFINE Same == {k \in Nat : k <= m => f[k] = g[k]}
<1>1. 0 \in Same
  BY DEF Summed
<1>2. ASSUME NEW k \in Nat, k \in Same PROVE k + 1 \in Same
  <2> SUFFICES ASSUME k + 1 <= m PROVE f[k + 1] = g[k + 1]
    BY <1>2
  <2>1. k + 1 \in 0..m /\ k + 1 \in 0..n /\ (k + 1) - 1 = k
    OBVIOUS
  <2>2. f[k] = g[k]
    BY <1>2
  <2>3. /\ f[k + 1] = IF k + 1 <= i THEN 0 ELSE f[k] + EnergyOf(k + 1)
        /\ g[k + 1] = IF k + 1 <= i THEN 0 ELSE g[k] + EnergyOf(k + 1)
    BY <2>1 DEF Summed
  <2>4. QED
    BY <2>2, <2>3
<1> HIDE DEF Same
<1>3. \A k \in Nat : k \in Same
  BY <1>1, <1>2, Induct
<1>4. QED
  BY <1>3 DEF Same

LEMMA SumsExist ==
  ASSUME PowerTypeOK, NEW i \in Nat
  PROVE  \A n \in Nat : \E f : Summed(f, i, n)
<1> DEFINE Reached == {n \in Nat : \E f : Summed(f, i, n)}
<1>1. 0 \in Reached
  <2>1. Summed([k \in 0..0 |-> 0], i, 0)
    BY DEF Summed
  <2>2. QED
    BY <2>1
<1>2. ASSUME NEW n \in Nat, n \in Reached PROVE n + 1 \in Reached
  <2>1. PICK f : Summed(f, i, n)
    BY <1>2
  <2> DEFINE top == IF n + 1 <= i THEN 0 ELSE f[n] + EnergyOf(n + 1)
             g == [k \in 0..(n + 1) |-> IF k = n + 1 THEN top ELSE f[k]]
  <2>2. /\ f \in [0..n -> Int]
        /\ \A k \in 0..n : f[k] = IF k <= i THEN 0 ELSE f[k - 1] + EnergyOf(k)
    BY <2>1 DEF Summed
  <2>3. n \in 0..n /\ f[n] \in Int /\ EnergyOf(n + 1) \in Int
    BY <2>2, EnergyOfNat
  <2>4. top \in Int
    BY <2>3
  <2>5. top = IF n + 1 <= i THEN 0 ELSE f[n] + EnergyOf(n + 1)
    OBVIOUS
  <2> HIDE DEF top
  <2>6. \A k \in 0..(n + 1) : k # n + 1 => k \in 0..n
    OBVIOUS
  <2>7. g \in [0..(n + 1) -> Int]
    BY <2>2, <2>4, <2>6
  <2>8. g[n + 1] = top /\ \A k \in 0..n : g[k] = f[k]
    OBVIOUS
  <2> HIDE DEF g
  <2>9. ASSUME NEW k \in 0..n
        PROVE  g[k] = IF k <= i THEN 0 ELSE g[k - 1] + EnergyOf(k)
    <3>1. CASE k <= i
      BY <2>2, <2>8, <3>1
    <3>2. CASE ~(k <= i)
      <4>1. k - 1 \in 0..n
        BY <3>2
      <4>2. QED
        BY <2>2, <2>8, <3>2, <4>1
    <3>3. QED
      BY <3>1, <3>2
  <2>10. g[n + 1] = IF n + 1 <= i THEN 0 ELSE g[(n + 1) - 1] + EnergyOf(n + 1)
    <3>1. (n + 1) - 1 = n
      OBVIOUS
    <3>2. QED
      BY <2>3, <2>5, <2>8, <3>1
  <2>11. Summed(g, i, n + 1)
    <3>1. ASSUME NEW k \in 0..(n + 1)
          PROVE  g[k] = IF k <= i THEN 0 ELSE g[k - 1] + EnergyOf(k)
      BY <2>6, <2>9, <2>10
    <3>2. QED
      BY <2>7, <3>1 DEF Summed
  <2>12. QED
    BY <2>11
<1> HIDE DEF Reached
<1>3. \A n \in Nat : n \in Reached
  BY <1>1, <1>2, Induct
<1>4. QED
  BY <1>3 DEF Reached

\* So there is a function that the recursion defines.
LEMMA EnergyAfterIs ==
  ASSUME PowerTypeOK, NEW i \in Nat, NEW k \in Nat
  PROVE  Total(i, k) = IF k <= i THEN 0 ELSE Total(i, k - 1) + EnergyOf(k)
<1> DEFINE Sum(n) == CHOOSE f : Summed(f, i, n)
           sum == [n \in Nat |-> Sum(n)[n]]
           Is(f) == f = [n \in Nat |-> IF n <= i THEN 0 ELSE f[n - 1] + EnergyOf(n)]
<1>1. \A n \in Nat : Summed(Sum(n), i, n)
  BY SumsExist
<1> HIDE DEF Sum
<1>2. ASSUME NEW n \in Nat PROVE sum[n] = IF n <= i THEN 0 ELSE sum[n - 1] + EnergyOf(n)
  <2>1. Sum(n)[n] = IF n <= i THEN 0 ELSE Sum(n)[n - 1] + EnergyOf(n)
    BY <1>1 DEF Summed
  <2>2. CASE n <= i
    BY <2>1, <2>2
  <2>3. CASE ~(n <= i)
    <3>1. n - 1 \in Nat /\ n - 1 <= n /\ n - 1 \in 0..(n - 1)
      BY <2>3
    <3>2. Sum(n - 1)[n - 1] = Sum(n)[n - 1]
      BY <1>1, <3>1, SumsAgree
    <3>3. QED
      BY <2>1, <2>3, <3>1, <3>2
  <2>4. QED
    BY <2>2, <2>3
<1>3. Is(sum)
  <2>1. sum = [n \in Nat |-> sum[n]]
    OBVIOUS
  <2> HIDE DEF sum
  <2>2. QED
    BY <1>2, <2>1
<1> HIDE DEF sum
<1>4. EnergyAfter(i) = CHOOSE f : Is(f)
  BY DEF EnergyAfter
<1>5. Is(EnergyAfter(i))
  <2>1. \E f : Is(f)
    BY <1>3
  <2> HIDE DEF Is
  <2>2. QED
    BY <1>4, <2>1
<1>6. EnergyAfter(i)[k] = IF k <= i THEN 0 ELSE EnergyAfter(i)[k - 1] + EnergyOf(k)
  BY <1>5
<1>7. QED
  BY <1>6 DEF Total

LEMMA ReadingsAre ==
  ASSUME NEW i, NEW j, NEW w
  PROVE  w \in ReadingsOf(i, j) <=>
            \E k \in DOMAIN metrics : k \in i..j /\ metrics[k].watts # << >> /\ w = metrics[k].watts[1]
BY DEF ReadingsOf

LEMMA ReadingsAreNumbers ==
  ASSUME PowerTypeOK, NEW i, NEW j, NEW w \in ReadingsOf(i, j)
  PROVE  w \in Int
<1>1. PICK k \in DOMAIN metrics : metrics[k].watts # << >> /\ w = metrics[k].watts[1]
  BY ReadingsAre
<1>2. metrics[k].watts \in Watts
  BY DEF PowerTypeOK, Metric
<1>3. QED
  BY <1>1, <1>2, WattsHaveOne

\* A set of numbers, and one more, has a highest if the set has one.
Highest(p, S) == p \in S /\ \A w \in S : w <= p

LEMMA OneMore ==
  ASSUME NEW S, S \subseteq Int, NEW p, Highest(p, S), NEW x \in Int
  PROVE  \E q : Highest(q, S \cup {x})
<1>1. p \in Int
  BY DEF Highest
<1>2. CASE x <= p
  <2>1. Highest(p, S \cup {x})
    BY <1>2 DEF Highest
  <2>2. QED
    BY <2>1
<1>3. CASE p < x
  <2>1. Highest(x, S \cup {x})
    BY <1>1, <1>3 DEF Highest
  <2>2. QED
    BY <2>1
<1>4. QED
  BY <1>1, <1>2, <1>3

LEMMA PeakExists ==
  ASSUME PowerTypeOK, NEW i \in Nat
  PROVE  \A n \in Nat : \E p : Highest(p, {0} \cup ReadingsOf(i, n))
<1> DEFINE Reached == {n \in Nat : \E p : Highest(p, {0} \cup ReadingsOf(i, n))}
<1>0. lastId \in Nat /\ DOMAIN metrics \subseteq 1..lastId
  BY PowerNumbers DEF PowerTypeOK
<1>1. 0 \in Reached
  <2>1. \A k \in DOMAIN metrics : k \notin i..0
    BY <1>0
  <2>2. ReadingsOf(i, 0) = {}
    BY <2>1, ReadingsAre
  <2>3. Highest(0, {0} \cup ReadingsOf(i, 0))
    BY <2>2 DEF Highest
  <2>4. QED
    BY <2>3
<1>2. ASSUME NEW n \in Nat, n \in Reached PROVE n + 1 \in Reached
  <2>1. PICK p : Highest(p, {0} \cup ReadingsOf(i, n))
    BY <1>2
  <2>2. {0} \cup ReadingsOf(i, n) \subseteq Int
    BY ReadingsAreNumbers
  <2>3. \A k \in DOMAIN metrics : k \in i..(n + 1) <=> k \in i..n \/ (k = n + 1 /\ i <= k)
    BY <1>0
  <2>4. CASE n + 1 \in DOMAIN metrics /\ metrics[n + 1].watts # << >> /\ i <= n + 1
    <3> DEFINE x == metrics[n + 1].watts[1]
    <3>1. ReadingsOf(i, n + 1) = ReadingsOf(i, n) \cup {x}
      BY <2>3, <2>4, ReadingsAre
    <3>2. x \in ReadingsOf(i, n + 1)
      BY <3>1
    <3>3. x \in Int
      BY <3>2, ReadingsAreNumbers
    <3> HIDE DEF x
    <3>4. \E q : Highest(q, ({0} \cup ReadingsOf(i, n)) \cup {x})
      BY <2>1, <2>2, <3>3, OneMore
    <3>5. ({0} \cup ReadingsOf(i, n)) \cup {x} = {0} \cup ReadingsOf(i, n + 1)
      BY <3>1
    <3>6. QED
      BY <3>4, <3>5
  <2>5. CASE ~(n + 1 \in DOMAIN metrics /\ metrics[n + 1].watts # << >> /\ i <= n + 1)
    <3>1. ASSUME NEW k \in DOMAIN metrics, metrics[k].watts # << >>
          PROVE  k \in i..(n + 1) <=> k \in i..n
      <4>1. ~(k = n + 1 /\ i <= k)
        BY <2>5, <3>1
      <4>2. QED
        BY <2>3, <4>1, Zenon
    <3>2. ASSUME NEW w PROVE w \in ReadingsOf(i, n + 1) <=> w \in ReadingsOf(i, n)
      <4> DEFINE Shows(k) == metrics[k].watts # << >> /\ w = metrics[k].watts[1]
      <4>1. w \in ReadingsOf(i, n + 1) <=>
               \E k \in DOMAIN metrics : k \in i..(n + 1) /\ Shows(k)
        BY ReadingsAre
      <4>2. w \in ReadingsOf(i, n) <=> \E k \in DOMAIN metrics : k \in i..n /\ Shows(k)
        BY ReadingsAre
      <4>3. \A k \in DOMAIN metrics : Shows(k) => (k \in i..(n + 1) <=> k \in i..n)
        BY <3>1
      <4> HIDE DEF Shows
      <4>4. QED
        BY <4>1, <4>2, <4>3, Zenon
    <3>3. ReadingsOf(i, n + 1) = ReadingsOf(i, n)
      BY <3>2, Zenon
    <3>4. QED
      BY <2>1, <3>3
  <2>6. QED
    BY <2>4, <2>5
<1> HIDE DEF Reached
<1>3. \A n \in Nat : n \in Reached
  BY <1>1, <1>2, Induct
<1>4. QED
  BY <1>3 DEF Reached

LEMMA PeakIsHighest ==
  ASSUME PowerTypeOK, NEW i \in Nat, NEW j \in Nat
  PROVE  /\ Peak(i, j) \in Nat
         /\ \A k \in DOMAIN metrics :
               k \in i..j /\ metrics[k].watts # << >> => metrics[k].watts[1] <= Peak(i, j)
<1> DEFINE S == {0} \cup ReadingsOf(i, j)
           Top(p) == \A w \in S : w <= p
<1>1. \E p \in S : Top(p)
  BY PeakExists DEF Highest
<1>2. Peak(i, j) = CHOOSE p \in S : Top(p)
  BY DEF Peak
<1>3. Peak(i, j) \in S /\ Top(Peak(i, j))
  <2> HIDE DEF Top, S
  <2>1. QED
    BY <1>1, <1>2
<1>4. S \subseteq Int
  BY ReadingsAreNumbers
<1>5. Peak(i, j) \in Nat
  BY <1>3, <1>4
<1>6. ASSUME NEW k \in DOMAIN metrics, k \in i..j, metrics[k].watts # << >>
      PROVE  metrics[k].watts[1] <= Peak(i, j)
  <2>1. metrics[k].watts[1] \in S
    BY <1>6, ReadingsAre
  <2>2. QED
    BY <1>3, <2>1
<1>7. QED
  BY <1>5, <1>6

LEMMA TimesMono ==
  ASSUME NEW a \in Nat, NEW b \in Nat, NEW c \in Nat, a <= b
  PROVE  a * c <= b * c /\ c * a <= c * b
<1>1. PICK d \in Nat : b = a + d
  <2>1. b - a \in Nat /\ b = a + (b - a)
    OBVIOUS
  <2>2. QED
    BY <2>1
<1>2. b * c = a * c + d * c /\ c * b = c * a + c * d
  BY <1>1
<1>3. d * c \in Nat /\ c * d \in Nat /\ a * c \in Nat /\ c * a \in Nat
  OBVIOUS
<1>4. QED
  BY <1>2, <1>3

\* What one row accounts for, by the highest reading.
LEMMA RowBounded ==
  ASSUME PowerTypeOK, RowsInv, NEW i \in DOMAIN metrics, NEW j \in DOMAIN metrics,
         NEW k \in (i + 1)..j
  PROVE  /\ k \in DOMAIN metrics /\ k - 1 \in DOMAIN metrics
         /\ metrics[k].energy <= 2 * Peak(i, j) * GapMax
         /\ metrics[k].energy <= 2 * Peak(i, j) * (metrics[k].time - metrics[k - 1].time)
<1> DEFINE p == Peak(i, j)
           a == metrics[k - 1].watts[1]
           b == metrics[k].watts[1]
           g == Gap(metrics[k - 1].time, metrics[k].time)
           passed == metrics[k].time - metrics[k - 1].time
<1>0. i \in Nat /\ j \in Nat /\ k \in Nat /\ GapMax \in Nat
  BY PowerNumbers DEF PowerTypeOK
<1>1. k \in i..j /\ k - 1 \in i..j /\ k - 1 <= k
  BY <1>0
<1>2. k \in DOMAIN metrics /\ k - 1 \in DOMAIN metrics
  BY <1>1 DEF RowsInv, RowsRise
<1>3. metrics[k - 1].time <= metrics[k].time
  BY <1>1, <1>2 DEF RowsInv, RowsRise
<1>4. metrics[k].time \in Int /\ metrics[k - 1].time \in Int /\ metrics[k].energy \in Nat
      /\ metrics[k].watts \in Watts /\ metrics[k - 1].watts \in Watts
  <2>1. metrics[k] \in Metric /\ metrics[k - 1] \in Metric
    BY <1>2 DEF PowerTypeOK
  <2>2. QED
    BY <2>1, PowerNumbers DEF Metric
<1>5. passed \in Nat
  BY <1>3, <1>4
<1>6. g \in Nat /\ g <= GapMax /\ g <= passed
  BY <1>3, <1>4, GapBounds
<1>7. p \in Nat
  BY <1>0, PeakIsHighest
<1>8. 2 * p \in Nat /\ (2 * p) * GapMax \in Nat /\ (2 * p) * passed \in Nat
  <2> HIDE DEF p, passed
  <2>1. QED
    BY <1>0, <1>5, <1>7
<1>9. FromReadings(k)
  BY <1>2 DEF RowsInv, RowsExplained
<1>10. metrics[k].energy <= (2 * p) * GapMax /\ metrics[k].energy <= (2 * p) * passed
  <2>1. CASE metrics[k].energy = 0
    <3> HIDE DEF p, passed
    <3>1. QED
      BY <1>8, <2>1
  <2>2. CASE metrics[k].energy # 0
    <3>1. /\ metrics[k - 1].watts # << >> /\ metrics[k].watts # << >>
          /\ a + b >= 0 /\ metrics[k].energy = (a + b) * g
      BY <1>9, <2>2 DEF FromReadings
    <3>2. a \in Int /\ b \in Int
      BY <1>4, <3>1, WattsHaveOne
    <3>3. a <= p /\ b <= p
      BY <1>0, <1>1, <1>2, <3>1, PeakIsHighest
    <3> HIDE DEF a, b, p, g, passed
    <3>4. a + b \in Nat /\ a + b <= 2 * p
      BY <1>7, <3>1, <3>2, <3>3
    <3>5. (a + b) * g <= (2 * p) * g
      BY <1>6, <1>8, <3>4, TimesMono
    <3>6. (2 * p) * g <= (2 * p) * GapMax /\ (2 * p) * g <= (2 * p) * passed
      BY <1>0, <1>5, <1>6, <1>8, TimesMono
    <3>7. (a + b) * g \in Nat /\ (2 * p) * g \in Nat
      BY <1>6, <1>8, <3>4
    <3>8. QED
      BY <1>8, <3>1, <3>5, <3>6, <3>7
  <2>3. QED
    BY <2>1, <2>2
<1>11. QED
  BY <1>2, <1>10

\* Put together from row to row.
LEMMA TotalBounded ==
  ASSUME PowerTypeOK, RowsInv, NEW i \in DOMAIN metrics, NEW j \in DOMAIN metrics, i < j
  PROVE  Total(i, j) <= 2 * Peak(i, j) * (metrics[j].time - metrics[i].time)
<1> DEFINE p == 2 * Peak(i, j)
           Bounded == {n \in Nat : i + n <= j =>
                          /\ i + n \in DOMAIN metrics
                          /\ Total(i, i + n) \in Int
                          /\ Total(i, i + n) <= p * (metrics[i + n].time - metrics[i].time)}
<1>0. i \in Nat /\ j \in Nat
  BY PowerNumbers DEF PowerTypeOK
<1>1. p \in Nat
  <2>1. Peak(i, j) \in Nat
    BY <1>0, PeakIsHighest
  <2>2. QED
    BY <2>1
<1>2. \A k \in DOMAIN metrics : metrics[k].time \in Int /\ metrics[k].energy \in Nat
  BY PowerNumbers DEF PowerTypeOK, Metric
<1> HIDE DEF p
<1>3. 0 \in Bounded
  <2>1. Total(i, i) = 0
    BY <1>0, EnergyAfterIs
  <2>2. p * (metrics[i].time - metrics[i].time) = 0
    <3>1. metrics[i].time - metrics[i].time = 0
      BY <1>2
    <3>2. QED
      BY <1>1, <3>1
  <2>3. i + 0 = i
    BY <1>0
  <2>4. QED
    BY <2>1, <2>2, <2>3
<1>4. ASSUME NEW n \in Nat, n \in Bounded PROVE n + 1 \in Bounded
  <2> SUFFICES ASSUME i + (n + 1) <= j
               PROVE  /\ i + (n + 1) \in DOMAIN metrics
                      /\ Total(i, i + (n + 1)) \in Int
                      /\ Total(i, i + (n + 1)) <= p * (metrics[i + (n + 1)].time - metrics[i].time)
    OBVIOUS
  <2> DEFINE k == i + (n + 1)
             m == i + n
             s == metrics[m].time - metrics[i].time
             d == metrics[k].time - metrics[m].time
  <2>1. k \in (i + 1)..j /\ k - 1 = m /\ m <= j /\ k \in Nat /\ ~(k <= i)
    BY <1>0
  <2>2. m \in DOMAIN metrics /\ Total(i, m) \in Int /\ Total(i, m) <= p * s
    BY <1>4, <2>1
  <2>3. k \in DOMAIN metrics /\ metrics[k].energy <= p * d
    BY <2>1, RowBounded DEF p
  <2>4. Total(i, k) = Total(i, m) + metrics[k].energy
    BY <1>0, <2>1, <2>3, EnergyAfterIs DEF EnergyOf
  <2>5. s \in Int /\ d \in Int /\ s + d = metrics[k].time - metrics[i].time
    BY <1>2, <2>2, <2>3
  <2>6. metrics[k].energy \in Int
    BY <1>2, <2>3
  <2>7. Total(i, k) \in Int /\ Total(i, k) <= p * (metrics[k].time - metrics[i].time)
    <3> HIDE DEF k, m
    <3>1. p * s \in Int /\ p * d \in Int /\ p * (s + d) = p * s + p * d
      <4> HIDE DEF s, d
      <4>1. QED
        BY <1>1, <2>5
    <3>2. Total(i, k) \in Int /\ Total(i, k) <= p * s + p * d
      <4> HIDE DEF s, d
      <4>1. QED
        BY <2>2, <2>3, <2>4, <2>6, <3>1
    <3>3. QED
      BY <2>5, <3>1, <3>2
  <2>8. QED
    BY <2>3, <2>7
<1> HIDE DEF Bounded
<1>5. \A n \in Nat : n \in Bounded
  BY <1>3, <1>4, Induct
<1>6. PICK n \in Nat : i + n = j
  <2>1. j - i \in Nat /\ i + (j - i) = j
    BY <1>0
  <2>2. QED
    BY <2>1
<1>7. n \in Bounded /\ i + n <= j
  BY <1>0, <1>5, <1>6
<1>8. Total(i, i + n) <= p * (metrics[i + n].time - metrics[i].time)
  BY <1>7 DEF Bounded
<1>9. QED
  BY <1>6, <1>8 DEF p

\* For any recorders, readings, scales and times, no energy is accounted for
\* twice (nms/power.py:69-99, nms/db.py:873-876): whoever polls beside whom, the
\* rows between two others hold no more of it than the highest reading makes.
THEOREM EnergyTheorem == PowerSpec => [](PowerTypeOK /\ EnergyBounded)
<1>1. PowerInv => EnergyBounded
  <2> SUFFICES ASSUME PowerInv, slips = 0, ~overtaken,
                      NEW i \in DOMAIN metrics, NEW j \in DOMAIN metrics, i < j
               PROVE  /\ metrics[j].energy <= 2 * Peak(i, j) * GapMax
                      /\ Total(i, j) <= 2 * Peak(i, j) * (metrics[j].time - metrics[i].time)
    BY DEF EnergyBounded
  <2>1. PowerTypeOK /\ RowsInv
    BY DEF PowerInv, Undisturbed
  <2>2. j \in (i + 1)..j
    BY <2>1, PowerNumbers DEF PowerTypeOK
  <2>3. QED
    BY <2>1, <2>2, RowBounded, TotalBounded
<1>2. PowerInv => PowerTypeOK
  BY DEF PowerInv
<1>3. QED
  BY <1>1, <1>2, PowerInvInit, PowerInvNext, PTL DEF PowerSpec

USE TimeAssumption, SwitchAssumption

-----------------------------------------------------------------------------
(* AgentAlarm: type correctness                                             *)

LEMMA OlderTypes ==
    /\ \A a \in 0..Window : Older(a) \in 0..Window /\ Older(a) <= a + 1
    /\ \A a \in Unseen..Window : Older(a) \in Unseen..Window
    /\ \A a \in 0..Window, b \in Unseen..Window : a <= b => Older(a) <= Older(b)
  BY DEF Older, Unseen

\* Every step of the agents, the heartbeat, the registration of hosts, of time
\* and of the restarts keeps the variables in their types.
THEOREM AgentTypeCorrect == Spec => []TypeOK
<1>1. Init => TypeOK
  BY DEF Init, TypeOK, Report, Levels, NoReport, Unseen
<1>2. TypeOK /\ [Next]_vars => TypeOK'
  <2> SUFFICES ASSUME TypeOK, [Next]_vars PROVE TypeOK'
    OBVIOUS
  <2>1. ASSUME NEW h \in Hosts, NEW report \in Report, CheckHost(h, report)
        PROVE  TypeOK'
    BY <2>1 DEF CheckHost, TypeOK, memory, heartbeat, history
  <2>2. ASSUME NEW h \in Hosts, StoreReport(h) PROVE TypeOK'
    <3>1. request[h] \in Report
      BY <2>2 DEF StoreReport, ChangeMemory, TypeOK
    <3>2. 0 \in 0..Window
      OBVIOUS
    <3>3. agent_status_memory' \in [Hosts -> SUBSET Metrics]
      BY <2>2 DEF StoreReport, ChangeMemory, TypeOK, Raised
    <3>4. announced' \in [Hosts -> SUBSET Metrics]
      BY <2>2 DEF StoreReport, TypeOK, Raised
    <3>5. unheard' \in [Hosts -> SUBSET Metrics]
      BY <2>2 DEF StoreReport, TypeOK
    <3>6. QED
      BY <2>2, <3>1, <3>2, <3>3, <3>4, <3>5
      DEF StoreReport, ChangeMemory, TypeOK, heartbeat
  <2>3. ASSUME NEW h \in Hosts, RefuseReport(h) PROVE TypeOK'
    <3>1. agent_status_memory' \in [Hosts -> SUBSET Metrics]
      BY <2>3 DEF RefuseReport, ChangeMemory, TypeOK, Raised
    <3>2. unheard' \in [Hosts -> SUBSET Metrics]
      BY <2>3 DEF RefuseReport, TypeOK, Raised
    <3>3. QED
      BY <2>3, <3>1, <3>2 DEF RefuseReport, ChangeMemory, TypeOK, heartbeat
  <2>4. CASE ReadReports
    <3>1. last_map' \in [Hosts -> Unseen..Window]
      BY <2>4 DEF ReadReports, TypeOK, Unseen
    <3>2. QED
      BY <2>4, <3>1 DEF ReadReports, TypeOK, memory, history
  <2>5. CASE MarkOffline
    BY <2>5 DEF MarkOffline, TypeOK, Unseen, history
  <2>6. ASSUME NEW h \in Hosts, AddHost(h) PROVE TypeOK'
    BY <2>6 DEF AddHost, TypeOK, memory, heartbeat, history
  <2>7. ASSUME NEW h \in Hosts, DeleteHost(h) PROVE TypeOK'
    BY <2>7 DEF DeleteHost, TypeOK, heartbeat
  <2>8. CASE Tick
    <3>1. age' \in [Hosts -> 0..Window] /\ last_map' \in [Hosts -> Unseen..Window]
      BY <2>8, OlderTypes DEF Tick, TypeOK
    <3>2. QED
      BY <2>8, <3>1 DEF Tick, TypeOK, memory, history
  <2>9. CASE Restart
    BY <2>9 DEF Restart, TypeOK, Rebuilt, NoReport, Unseen
  <2>10. CASE UNCHANGED vars
    BY <2>10 DEF vars, TypeOK, memory, heartbeat, history
  <2>11. QED
    BY <2>1, <2>2, <2>3, <2>4, <2>5, <2>6, <2>7, <2>8, <2>9, <2>10 DEF Next
<1>3. QED
  BY <1>1, <1>2, PTL DEF Spec

-----------------------------------------------------------------------------
(* AgentAlarm: what is held to be high was announced                        *)

\* The stored metrics are what a restart rebuilds the memory from: whatever they
\* hold above a threshold was announced, or was high already in a report that
\* was refused.
AnnouncedInv ==
    /\ TypeOK
    /\ AlarmsWereAnnounced
    /\ \A h \in Hosts :
          {m \in Metrics : last[h][m] = "high"} \subseteq announced[h] \cup unheard[h]

\* No metric of any host is held to be high that was not announced, after any
\* number of restarts, unless the report that raised it was refused: neither
\* the report handler nor rebuild_alarm_memory raises an alarm silently.
THEOREM AnnouncedTheorem == Spec => []AlarmsWereAnnounced
<1>1. Init => AnnouncedInv
  BY DEF Init, AnnouncedInv, AlarmsWereAnnounced, TypeOK, Report, Levels, NoReport,
         Unseen
<1>2. AnnouncedInv /\ TypeOK' /\ [Next]_vars => AnnouncedInv'
  <2> SUFFICES ASSUME AnnouncedInv, TypeOK', [Next]_vars PROVE AnnouncedInv'
    OBVIOUS
  <2>1. CASE UNCHANGED <<agent_status_memory, announced, unheard, last>>
    BY <2>1 DEF AnnouncedInv, AlarmsWereAnnounced
  <2>2. ASSUME NEW h \in Hosts, StoreReport(h) PROVE AnnouncedInv'
    <3>1. /\ agent_status_memory'[h] = (agent_status_memory[h] \cup Raised(h))
                                          \ Cleared(h)
          /\ announced'[h] = (announced[h] \cup Raised(h)) \ Cleared(h)
          /\ unheard'[h] = {m \in unheard[h] : request[h][m] # "low"} \ Raised(h)
          /\ last'[h] = request[h]
      BY <2>2 DEF StoreReport, ChangeMemory, AnnouncedInv, TypeOK
    <3>2. {m \in Metrics : request[h][m] = "high"} \subseteq announced'[h] \cup unheard'[h]
      BY <3>1 DEF Raised, Cleared, AnnouncedInv, AlarmsWereAnnounced
    <3>3. agent_status_memory'[h] \subseteq announced'[h] \cup unheard'[h]
      BY <3>1 DEF Raised, Cleared, AnnouncedInv, AlarmsWereAnnounced
    <3>4. \A g \in Hosts \ {h} :
            /\ agent_status_memory'[g] = agent_status_memory[g]
            /\ announced'[g] = announced[g]
            /\ unheard'[g] = unheard[g]
            /\ last'[g] = last[g]
      BY <2>2 DEF StoreReport, ChangeMemory, AnnouncedInv, TypeOK
    <3>5. QED
      BY <3>1, <3>2, <3>3, <3>4 DEF AnnouncedInv, AlarmsWereAnnounced
  <2>3. ASSUME NEW h \in Hosts, RefuseReport(h) PROVE AnnouncedInv'
    <3>1. /\ agent_status_memory'[h] \subseteq agent_status_memory[h] \cup Raised(h)
          /\ unheard'[h] = unheard[h] \cup Raised(h)
      BY <2>3 DEF RefuseReport, ChangeMemory, AnnouncedInv, TypeOK
    <3>2. \A g \in Hosts \ {h} : /\ agent_status_memory'[g] = agent_status_memory[g]
                                 /\ unheard'[g] = unheard[g]
      BY <2>3 DEF RefuseReport, ChangeMemory, AnnouncedInv, TypeOK
    <3>3. last' = last /\ announced' = announced
      BY <2>3 DEF RefuseReport
    <3>4. QED
      BY <3>1, <3>2, <3>3 DEF AnnouncedInv, AlarmsWereAnnounced
  <2>4. ASSUME NEW h \in Hosts, DeleteHost(h) PROVE AnnouncedInv'
    BY <2>4 DEF DeleteHost, AnnouncedInv, AlarmsWereAnnounced, TypeOK
  <2>5. CASE Restart
    <3>1. \A h \in Hosts : agent_status_memory'[h] \subseteq announced[h] \cup unheard[h]
      BY <2>5 DEF Restart, Rebuilt, AnnouncedInv
    <3>2. QED
      BY <2>5, <3>1 DEF Restart, AnnouncedInv, AlarmsWereAnnounced
  <2>6. QED
    BY <2>1, <2>2, <2>3, <2>4, <2>5
    DEF Next, CheckHost, ReadReports, MarkOffline, AddHost, Tick, vars, memory, history
<1>3. AnnouncedInv => AlarmsWereAnnounced
  BY DEF AnnouncedInv
<1>4. QED
  BY <1>1, <1>2, <1>3, AgentTypeCorrect, PTL DEF Spec

-----------------------------------------------------------------------------
(* AgentAlarm: a silent agent is found offline                              *)

\* How old the last report of an agent may be that is not held to be offline:
\* between two heartbeats OfflineAfter and the time since the last one; during a
\* heartbeat it was either read (and will be judged by the age that was read) or
\* it came after the read.
Awaited(h) ==
    \/ hb = "idle" /\ age[h] <= OfflineAfter + since_hb
    \/ /\ hb = "read" /\ h \in hb_targets
       /\ age[h] <= last_map[h]
       /\ age[h] <= OfflineAfter + Period + since_hb
    \/ hb = "read" /\ age[h] <= since_hb

SilentInv ==
    /\ TypeOK
    /\ reported \subseteq hosts
    /\ \A h \in reported : h \in agent_offline_memory \/ Awaited(h)

\* Where the five minutes that are read are longer than the two minutes of
\* silence and two periods of the heartbeat, every agent that falls silent is
\* held to be offline before its last accepted report is out of sight.
THEOREM SilentTheorem ==
    ASSUME OfflineAfter + 2 * Period < Window
    PROVE  Spec => []SilentIsOffline
<1>1. Init => SilentInv
  BY DEF Init, SilentInv, TypeOK, Report, Levels, NoReport, Unseen
<1>2. SilentInv /\ TypeOK' /\ [Next]_vars => SilentInv'
  <2> SUFFICES ASSUME SilentInv, TypeOK', [Next]_vars PROVE SilentInv'
    OBVIOUS
  <2> USE DEF SilentInv
  <2>1. ASSUME UNCHANGED <<age, agent_offline_memory, hb, hb_targets, last_map,
                           since_hb, reported>>,
               reported \subseteq hosts'
        PROVE  SilentInv'
    BY <2>1 DEF Awaited
  <2>2. ASSUME NEW h \in Hosts, StoreReport(h) PROVE SilentInv'
    <3>1. \A g \in Hosts \ {h} : /\ Awaited(g)' <=> Awaited(g)
                                 /\ g \in reported' <=> g \in reported
                                 /\ g \in agent_offline_memory'
                                       <=> g \in agent_offline_memory
      BY <2>2 DEF StoreReport, ChangeMemory, Awaited, heartbeat, TypeOK
    <3>2. Awaited(h)'
      BY <2>2 DEF StoreReport, ChangeMemory, Awaited, heartbeat, TypeOK
    <3>3. reported' \subseteq hosts'
      BY <2>2 DEF StoreReport, ChangeMemory
    <3>4. QED
      BY <3>1, <3>2, <3>3 DEF TypeOK
  <2>3. ASSUME NEW h \in Hosts, RefuseReport(h) PROVE SilentInv'
    <3>1. \A g \in reported' : g \in reported /\ g # h
      BY <2>3 DEF RefuseReport
    <3>2. \A g \in reported' : Awaited(g)' <=> Awaited(g)
      BY <2>3, <3>1 DEF RefuseReport, ChangeMemory, Awaited, heartbeat, TypeOK
    <3>3. QED
      BY <2>3, <3>1, <3>2 DEF RefuseReport, ChangeMemory
  <2>4. CASE ReadReports
    <3>1. ASSUME NEW h \in reported, h \notin agent_offline_memory
          PROVE  Awaited(h)'
      <4>1. h \in Hosts /\ h \in hosts
        BY <3>1 DEF TypeOK
      <4>2. age[h] <= OfflineAfter + since_hb
        BY <2>4, <3>1 DEF ReadReports, Awaited
      <4>3. age[h] \in Nat /\ since_hb \in 0..Period
        BY <4>1 DEF TypeOK
      <4>4. age[h] < Window /\ age[h] <= OfflineAfter + Period
        BY <4>2, <4>3
      <4>5. last_map'[h] = age[h] /\ h \in hb_targets' /\ age'[h] = age[h]
        BY <2>4, <4>1, <4>4 DEF ReadReports
      <4>6. hb' = "read" /\ since_hb' = 0
        BY <2>4 DEF ReadReports
      <4>7. QED
        BY <4>3, <4>4, <4>5, <4>6 DEF Awaited
    <3>2. QED
      BY <2>4, <3>1 DEF ReadReports, memory, history
  <2>5. CASE MarkOffline
    <3>1. ASSUME NEW h \in reported, h \notin agent_offline_memory'
          PROVE  Awaited(h)'
      <4>1. h \in Hosts /\ h \notin agent_offline_memory
        BY <2>5, <3>1 DEF TypeOK, MarkOffline
      <4>2. age[h] \in Nat /\ since_hb \in Nat /\ last_map[h] \in Int
        BY <4>1 DEF TypeOK, Unseen
      <4>3. age[h] <= OfflineAfter + since_hb
        <5>1. CASE h \in hb_targets /\ age[h] <= last_map[h]
          <6>1. ~(last_map[h] > OfflineAfter)
            BY <2>5, <3>1, <5>1 DEF MarkOffline
          <6>2. QED
            BY <4>2, <5>1, <6>1
        <5>2. CASE hb = "read" /\ age[h] <= since_hb
          BY <4>2, <5>2
        <5>3. QED
          BY <2>5, <3>1, <4>1, <5>1, <5>2 DEF MarkOffline, Awaited
      <4>4. QED
        BY <2>5, <4>3 DEF MarkOffline, Awaited
    <3>2. QED
      BY <2>5, <3>1 DEF MarkOffline, history
  <2>6. ASSUME NEW h \in Hosts, DeleteHost(h) PROVE SilentInv'
    BY <2>6 DEF DeleteHost, Awaited, heartbeat
  <2>7. CASE Tick
    <3>1. ASSUME NEW h \in reported, Awaited(h) PROVE Awaited(h)'
      <4>1. h \in Hosts
        BY <3>1 DEF TypeOK
      <4>2. age[h] \in 0..Window /\ since_hb \in Nat /\ last_map[h] \in Unseen..Window
        BY <4>1 DEF TypeOK
      <4>3. /\ age'[h] = Older(age[h]) /\ last_map'[h] = Older(last_map[h])
            /\ since_hb' = since_hb + 1 /\ hb' = hb /\ hb_targets' = hb_targets
        BY <2>7, <4>1 DEF Tick
      <4>4. age'[h] \in 0..Window /\ age'[h] <= age[h] + 1
        BY <4>2, <4>3, OlderTypes
      <4>5. age[h] <= last_map[h] => age'[h] <= last_map'[h]
        BY <4>2, <4>3, OlderTypes
      <4>6. QED
        BY <3>1, <4>2, <4>3, <4>4, <4>5 DEF Awaited
    <3>2. QED
      BY <2>7, <3>1 DEF Tick, memory, history
  <2>8. CASE Restart
    <3>1. ASSUME NEW h \in reported' PROVE h \in agent_offline_memory' \/ Awaited(h)'
      <4>1. h \in Hosts /\ h \in hosts /\ age[h] < Window /\ age[h] \in Nat
        BY <2>8, <3>1 DEF Restart, TypeOK
      <4>2. CASE age[h] > OfflineAfter
        BY <2>8, <4>1, <4>2 DEF Restart
      <4>3. CASE age[h] <= OfflineAfter
        BY <2>8, <4>1, <4>3 DEF Restart, Awaited
      <4>4. QED
        BY <4>1, <4>2, <4>3
    <3>2. QED
      BY <2>8, <3>1 DEF Restart
  <2>9. QED
    BY <2>1, <2>2, <2>3, <2>4, <2>5, <2>6, <2>7, <2>8
    DEF Next, CheckHost, AddHost, vars, memory, heartbeat, history
<1>3. SilentInv => SilentIsOffline
  <2> SUFFICES ASSUME SilentInv, NEW h \in hosts \cap reported, age[h] = Window,
                      h \notin agent_offline_memory
               PROVE  FALSE
    BY DEF SilentIsOffline
  <2>1. Awaited(h) /\ since_hb \in 0..Period
    BY DEF SilentInv, TypeOK
  <2>2. QED
    BY <2>1 DEF Awaited
<1>4. QED
  BY <1>1, <1>2, <1>3, AgentTypeCorrect, PTL DEF Spec

\* If the two periods of the heartbeat fit into the window, both what is held of
\* an agent's silence and of its alarms is true (app.py:3398-3474,
\* nms/monitor.py:99-138).
THEOREM HeardTheorem ==
    ASSUME OfflineAfter + 2 * Period < Window
    PROVE  Spec => []AgentsAreHeard
<1>1. SilentIsOffline /\ AlarmsWereAnnounced => AgentsAreHeard
  BY DEF AgentsAreHeard
<1>2. QED
  BY <1>1, SilentTheorem, AnnouncedTheorem, PTL

-----------------------------------------------------------------------------
(* What the instance checks together                                        *)

\* Alerts, rows and memory agree between any two polls, for any ports, polls
\* and mishaps (nms/mikrotik_poll.py:607-846).
THEOREM PortsTheorem == PortSpec => []PortsAreConsistent
<1>1. OneOpenUtilization /\ DownAlertIsExplained /\ TableFollowsMemory => PortsAreConsistent
  BY DEF PortsAreConsistent
<1>2. QED
  BY <1>1, UtilizationTheorem, ExplainedTheorem, FollowTheorem, PTL

\* What is told of a device's health is earned, for any counter, temperatures,
\* limits and hysteresis (nms/mikrotik_poll.py:435-600).
THEOREM HealthTheorem == HealthSpec => []HealthAlarmsEarned
<1>1. RebootIsReal /\ CriticalIsWarned => HealthAlarmsEarned
  BY DEF HealthAlarmsEarned
<1>2. QED
  BY <1>1, RebootTheorem, CriticalTheorem, PTL

(* A behaviour is one component's, chosen at the start, while the others    *)
(* stay as they are: of each component it is a behaviour.                   *)
LEMMA MovesOrStays ==
  [MCNext]_<<scene, vars, portVars, healthVars, trapVars, limitVars, backupVars,
             discoveryVars, maintVars, codecVars, powerVars>> =>
    /\ [Next]_vars /\ [PortNext]_portVars /\ [HealthNext]_healthVars /\ [TrapNext]_trapVars
    /\ [LimitNext]_limitVars /\ [BackupNext]_backupVars /\ [DiscoveryNext]_discoveryVars
    /\ [MaintNext]_maintVars /\ [CodecNext]_codecVars /\ [PowerNext]_powerVars
<1>1. (OnePoll => PortNext) /\ (TwoPolls => PortNext)
  BY Zenon DEF OnePoll, TwoPolls, PortSteps
<1>2. MCNext =>
        /\ [Next]_vars /\ [PortNext]_portVars /\ [HealthNext]_healthVars /\ [TrapNext]_trapVars
        /\ [LimitNext]_limitVars /\ [BackupNext]_backupVars /\ [DiscoveryNext]_discoveryVars
        /\ [MaintNext]_maintVars /\ [CodecNext]_codecVars /\ [PowerNext]_powerVars
  BY <1>1, Zenon DEF MCNext, Moves
<1>3. UNCHANGED <<scene, vars, portVars, healthVars, trapVars, limitVars, backupVars,
                  discoveryVars, maintVars, codecVars, powerVars>> =>
        /\ UNCHANGED vars /\ UNCHANGED portVars /\ UNCHANGED healthVars /\ UNCHANGED trapVars
        /\ UNCHANGED limitVars /\ UNCHANGED backupVars /\ UNCHANGED discoveryVars
        /\ UNCHANGED maintVars /\ UNCHANGED codecVars /\ UNCHANGED powerVars
  OBVIOUS
<1>4. QED
  BY <1>2, <1>3, Zenon

LEMMA EachComponent ==
  MCSpec => /\ Spec /\ PortSpec /\ HealthSpec /\ TrapSpec /\ LimitSpec /\ BackupSpec
            /\ DiscoverySpec /\ MaintSpec /\ CodecSpec /\ PowerSpec
<1>1. MCInit => /\ Init /\ PortInit /\ HealthInit /\ TrapInit /\ LimitInit /\ BackupInit
                /\ DiscoveryInit /\ MaintInit /\ CodecInit /\ PowerInit
  BY Zenon DEF MCInit
<1>2. QED
  BY <1>1, MovesOrStays, PTL
     DEF MCSpec, Spec, PortSpec, HealthSpec, TrapSpec, LimitSpec, BackupSpec, DiscoverySpec,
         MaintSpec, CodecSpec, PowerSpec

LEMMA PortTypeCorrect == PortSpec => []PortTypeOK
<1>1. PortInv => PortTypeOK
  BY DEF PortInv, LockInv
<1>2. QED
  BY <1>1, PortInvInit, PortInvNext, PTL DEF PortSpec

LEMMA HealthTypeCorrect == HealthSpec => []HealthTypeOK
<1>1. HealthInv => HealthTypeOK
  BY DEF HealthInv
<1>2. QED
  BY <1>1, HealthInvInit, HealthInvNext, PTL DEF HealthSpec

LEMMA TrapTypeCorrect == TrapSpec => []TrapTypeOK
<1>1. TrapInv => TrapTypeOK
  BY DEF TrapInv
<1>2. QED
  BY <1>1, TrapInvAlways, PTL

LEMMA LimitTypeCorrect == LimitSpec => []LimitTypeOK
<1>1. LimitInv => LimitTypeOK
  BY DEF LimitInv
<1>2. QED
  BY <1>1, LimitInvInit, LimitInvNext, PTL DEF LimitSpec

LEMMA BackupTypeCorrect == BackupSpec => []BackupTypeOK
<1>1. BackupInv => BackupTypeOK
  BY DEF BackupInv
<1>2. QED
  BY <1>1, BackupInvAlways, PTL

LEMMA DiscoveryTypeCorrect == DiscoverySpec => []DiscoveryTypeOK
<1>1. DiscoveryInv => DiscoveryTypeOK
  BY DEF DiscoveryInv
<1>2. QED
  BY <1>1, DiscoveryInvInit, DiscoveryInvNext, PTL DEF DiscoverySpec

LEMMA MaintTypeCorrect == MaintSpec => []MaintTypeOK
<1>1. MaintInit => MaintInv
  BY MaintenanceAssumption DEF MaintInit, MaintInv, MaintTypeOK, Apart
<1>2. MaintInv => MaintTypeOK
  BY DEF MaintInv
<1>3. QED
  BY <1>1, <1>2, MaintInvNext, PTL DEF MaintSpec

LEMMA PowerTypeCorrect == PowerSpec => []PowerTypeOK
<1>1. PowerInv => PowerTypeOK
  BY DEF PowerInv
<1>2. QED
  BY <1>1, PowerInvInit, PowerInvNext, PTL DEF PowerSpec

\* Every variable of every component keeps its type, whichever component moves.
THEOREM ComponentsTypeCorrect == MCSpec => []ComponentsTypeOK
<1>1. TypeOK /\ PortTypeOK /\ HealthTypeOK /\ TrapTypeOK /\ LimitTypeOK /\ BackupTypeOK
      /\ DiscoveryTypeOK /\ MaintTypeOK /\ CodecTypeOK /\ PowerTypeOK => ComponentsTypeOK
  BY Zenon DEF ComponentsTypeOK
<1>2. QED
  BY <1>1, EachComponent, AgentTypeCorrect, PortTypeCorrect, HealthTypeCorrect,
     TrapTypeCorrect, LimitTypeCorrect, BackupTypeCorrect, DiscoveryTypeCorrect,
     MaintTypeCorrect, PacketTypeCorrect, PowerTypeCorrect, PTL
=============================================================================
