---------------------------- MODULE FollowUpProofs ----------------------------
(***************************************************************************)
(* Theorems about what is followed up, for any number of alerts, messages, *)
(* monitors, runs and requests: the escalation of alerts, the rows of the  *)
(* monitors, and the levels of certificates.                               *)
(***************************************************************************)
EXTENDS AlertWorkflow, ServiceCheck, SslWatch, FiniteSetTheorems, TLAPS

-----------------------------------------------------------------------------
(* SslWatch                                                                 *)

SslInv == SslTypeOK /\ LevelWasAnnounced

LEMMA SslLevelType ==
  ASSUME NEW d \in Days
  PROVE  SslLevel(d) \in Levels
<1>1. d \in Int
  BY SslAssumption
<1>2. d < 0 \/ d \in 0..7 \/ d \in 8..30 \/ d > 30
  BY <1>1
<1>3. QED
  BY <1>1, <1>2 DEF SslLevel, Levels, None

LEMMA SslInvInit == SslInit => SslInv
<1> SUFFICES ASSUME SslInit PROVE SslInv
  OBVIOUS
<1>1. MaxMissed \in Nat /\ 0 \in 0..MaxMissed /\ 0 \in 0..3
  BY SslAssumption
<1>2. sslRun \in [SslRuns -> [at : {"idle", "loaded", "fetched", "announce"},
                             prev : Levels, level : Levels]]
  BY <1>1 DEF SslInit, NoRun, None, Levels
<1>3. SslTypeOK
  BY <1>1, <1>2 DEF SslInit, SslTypeOK, None, Levels
<1>4. LevelWasAnnounced
  BY DEF SslInit, LevelWasAnnounced, None
<1>5. QED
  BY <1>3, <1>4 DEF SslInv

\* A run that stores compares with the level in the table, or is stale.
LEMMA StoreLevelKeeps ==
  ASSUME SslInv, NEW r \in SslRuns, StoreLevel(r)
  PROVE  SslInv'
<1>1. SslTypeOK /\ MaxMissed \in Nat /\ 0 \in Levels
  BY SslAssumption DEF SslInv, Levels
<1>2. /\ sslRun[r] = [at |-> "fetched", prev |-> sslRun[r].prev, level |-> sslRun[r].level]
      /\ sslRun[r].prev \in Levels /\ sslRun[r].level \in Levels
      /\ stored \in Levels /\ told \in Levels
  BY <1>1 DEF StoreLevel, SslTypeOK
<1>3. NoRun \in [at : {"idle", "loaded", "fetched", "announce"}, prev : Levels, level : Levels]
  BY <1>1 DEF NoRun, None
<1>4. CASE /\ stored' = sslRun[r].level
           /\ told' = IF sslRun[r].level = None THEN None ELSE told
           /\ stale' = (stale \/ sslRun[r].prev # stored)
           /\ sslRun' = [sslRun EXCEPT ![r] =
                 IF Escalated(r) THEN [at |-> "announce", prev |-> @.prev, level |-> @.level]
                 ELSE NoRun]
           /\ missed' = missed
  <2> DEFINE next == IF Escalated(r)
                     THEN [at |-> "announce", prev |-> sslRun[r].prev, level |-> sslRun[r].level]
                     ELSE NoRun
  <2>1. next \in [at : {"idle", "loaded", "fetched", "announce"}, prev : Levels, level : Levels]
    BY <1>2, <1>3
  <2>2. sslRun' = [sslRun EXCEPT ![r] = next]
    BY <1>4
  <2>3. stale' \in BOOLEAN
    BY <1>4, Zenon
  <2>4. SslTypeOK'
    BY <1>1, <1>2, <1>4, <2>1, <2>2, <2>3 DEF StoreLevel, SslTypeOK, None
  <2>5. sslRun'[r] = next /\ \A q \in SslRuns : q # r => sslRun'[q] = sslRun[q]
    BY <1>1, <2>2 DEF SslTypeOK
  <2>6. ASSUME ~stale', ~silent'
        PROVE  \/ stored' <= told'
               \/ \E q \in SslRuns : sslRun'[q].at = "announce" /\ sslRun'[q].level >= stored'
    <3>1. ~stale /\ ~silent /\ sslRun[r].prev = stored
      <4>1. ~(stale \/ sslRun[r].prev # stored) /\ silent' = silent
        BY <1>4, <2>6, Zenon DEF StoreLevel
      <4>2. QED
        BY <2>6, <4>1, Zenon
    <3>2. CASE Escalated(r)
      <4>1. sslRun'[r].at = "announce" /\ sslRun'[r].level = stored'
        BY <1>4, <2>5, <3>2
      <4>2. sslRun'[r].level >= stored'
        BY <1>2, <1>4, <4>1 DEF Levels
      <4>3. QED
        BY <4>1, <4>2
    <3>3. CASE ~Escalated(r)
      <4>1. stored' <= stored
        BY <1>2, <1>4, <3>1, <3>3 DEF Escalated, Levels
      <4>2. CASE sslRun[r].level = None
        BY <1>4, <4>2 DEF None
      <4>3. CASE sslRun[r].level # None /\ stored <= told
        BY <1>2, <1>4, <4>1, <4>3 DEF Levels
      <4>4. CASE ~(stored <= told)
        <5>1. PICK q \in SslRuns : sslRun[q].at = "announce" /\ sslRun[q].level >= stored
          BY <3>1, <4>4 DEF SslInv, LevelWasAnnounced
        <5>2. sslRun'[q] = sslRun[q] /\ sslRun[q].level \in Levels
          BY <1>1, <1>2, <2>5, <5>1 DEF SslTypeOK
        <5>3. sslRun'[q].level >= stored'
          BY <1>2, <1>4, <4>1, <5>1, <5>2 DEF Levels
        <5>4. QED
          BY <5>1, <5>2, <5>3
      <4>5. QED
        BY <4>2, <4>3, <4>4
    <3>4. QED
      BY <3>2, <3>3
  <2>7. QED
    BY <2>4, <2>6 DEF SslInv, LevelWasAnnounced
<1>5. CASE /\ Miss /\ sslRun' = [sslRun EXCEPT ![r] = NoRun]
           /\ stored' = stored /\ told' = told /\ stale' = stale
  <2>1. missed' \in 0..MaxMissed
    BY <1>1, <1>5 DEF Miss, SslTypeOK
  <2>2. SslTypeOK'
    BY <1>1, <1>3, <1>5, <2>1 DEF StoreLevel, SslTypeOK
  <2>3. \A q \in SslRuns : sslRun[q].at = "announce" => sslRun'[q] = sslRun[q]
    BY <1>1, <1>2, <1>5 DEF SslTypeOK
  <2>4. QED
    BY <1>5, <2>2, <2>3 DEF StoreLevel, SslInv, LevelWasAnnounced
<1>6. QED
  BY <1>4, <1>5 DEF StoreLevel, StoredLevel

LEMMA AnnounceKeeps ==
  ASSUME SslInv, NEW r \in SslRuns, Announce(r)
  PROVE  SslInv'
<1>1. SslTypeOK /\ 0 \in Levels
  BY DEF SslInv, Levels
<1>2. sslRun[r].level \in Levels /\ told \in Levels /\ stored \in Levels
  BY <1>1 DEF SslTypeOK
<1>3. told' \in Levels /\ told' >= told /\ told' >= sslRun[r].level
  BY <1>2 DEF Announce, Worse, Levels
<1>4. SslTypeOK'
  BY <1>1, <1>3 DEF Announce, SslTypeOK, NoRun, None
<1>5. ASSUME NEW q \in SslRuns, sslRun[q].at = "announce", sslRun[q].level >= stored
      PROVE  stored <= told' \/ sslRun'[q] = sslRun[q]
  <2>1. CASE q = r
    BY <1>2, <1>3, <1>5, <2>1 DEF Levels
  <2>2. CASE q # r
    BY <1>1, <2>2 DEF Announce, SslTypeOK
  <2>3. QED
    BY <2>1, <2>2
<1>6. stored <= told => stored <= told'
  BY <1>2, <1>3 DEF Levels
<1>7. stored' = stored /\ stale' = stale /\ silent' = silent
  BY DEF Announce
<1>8. LevelWasAnnounced'
  BY <1>5, <1>6, <1>7 DEF SslInv, LevelWasAnnounced
<1>9. QED
  BY <1>4, <1>8 DEF SslInv

LEMMA SslInvNext == SslInv /\ [SslNext]_sslVars => SslInv'
<1> SUFFICES ASSUME SslInv, [SslNext]_sslVars PROVE SslInv'
  OBVIOUS
<1>1. SslTypeOK /\ MaxMissed \in Nat /\ 0 \in Levels
  BY SslAssumption DEF SslInv, Levels
<1>2. CASE UNCHANGED sslVars
  BY <1>2 DEF sslVars, SslInv, SslTypeOK, LevelWasAnnounced
<1>3. CASE CertificateChanges
  BY <1>3 DEF CertificateChanges, SslInv, SslTypeOK, LevelWasAnnounced
<1>4. ASSUME NEW r \in SslRuns, LoadLevel(r) PROVE SslInv'
  <2>1. SslTypeOK'
    BY <1>1, <1>4 DEF LoadLevel, SslTypeOK, None
  <2>2. \A q \in SslRuns : sslRun[q].at = "announce" => sslRun'[q] = sslRun[q]
    BY <1>1, <1>4 DEF LoadLevel, SslTypeOK
  <2>3. QED
    BY <1>4, <2>1, <2>2 DEF LoadLevel, SslInv, LevelWasAnnounced
<1>5. ASSUME NEW r \in SslRuns, FetchCertificate(r) PROVE SslInv'
  <2> DEFINE next == IF ~Verified THEN NoRun
                     ELSE [at |-> "fetched", prev |-> sslRun[r].prev, level |-> SslLevel(days)]
  <2>1. sslRun' = [sslRun EXCEPT ![r] = next]
    BY <1>5 DEF FetchCertificate
  <2>2. Verified => SslLevel(days) \in Levels
    <3>1. days = Unreachable => ~Verified
      BY SMT DEF Verified, Unreachable
    <3>2. days \in Days \cup {Unreachable}
      BY <1>1 DEF SslTypeOK
    <3>3. QED
      BY <3>1, <3>2, SslLevelType, Zenon
  <2>3. next \in [at : {"idle", "loaded", "fetched", "announce"}, prev : Levels, level : Levels]
    BY <1>1, <2>2 DEF SslTypeOK, NoRun, None
  <2> HIDE DEF next
  <2>4. SslTypeOK'
    BY <1>1, <1>5, <2>1, <2>3 DEF FetchCertificate, SslTypeOK
  <2>5. \A q \in SslRuns : sslRun[q].at = "announce" => sslRun'[q] = sslRun[q]
    BY <1>1, <1>5, <2>1 DEF FetchCertificate, SslTypeOK
  <2>6. QED
    BY <1>5, <2>4, <2>5 DEF FetchCertificate, SslInv, LevelWasAnnounced
<1>6. CASE StopSsl
  <2>1. missed' \in 0..MaxMissed
    BY <1>1, <1>6 DEF StopSsl, Miss, SslTypeOK
  <2>2. silent' \in BOOLEAN
    BY <1>6, Zenon DEF StopSsl
  <2>3. SslTypeOK'
    BY <1>1, <1>6, <2>1, <2>2 DEF StopSsl, SslTypeOK, NoRun, None
  <2>4. ~silent' => ~silent /\ \A r \in SslRuns : sslRun[r].at # "announce"
    BY <1>6, Zenon DEF StopSsl
  <2>5. stored' = stored /\ told' = told /\ stale' = stale
    BY <1>6 DEF StopSsl
  <2>6. LevelWasAnnounced'
    BY <2>4, <2>5 DEF SslInv, LevelWasAnnounced
  <2>7. QED
    BY <2>3, <2>6 DEF SslInv
<1>7. QED
  BY <1>2, <1>3, <1>4, <1>5, <1>6, StoreLevelKeeps, AnnounceKeeps DEF SslNext, SslStep

\* For any number of runs at a time, and whatever the certificate shows, a
\* level in the table was announced or is about to be (app.py:815-860).
THEOREM LevelTheorem == SslSpec => []LevelWasAnnounced
<1>1. SslInv => LevelWasAnnounced
  BY DEF SslInv
<1>2. QED
  BY <1>1, SslInvInit, SslInvNext, PTL DEF SslSpec

-----------------------------------------------------------------------------
(* ServiceCheck                                                             *)

ServiceInv == ServiceTypeOK /\ NewServiceHasNoPast /\ \A i \in Ids : i > given => i \notin Exists

LEMMA StatusOfType ==
  ASSUME NEW t, NEW r
  PROVE  StatusOf(t, r) \in {"ONLINE", "OFFLINE"}
BY DEF StatusOf

LEMMA ServiceInvInit == ServiceInit => ServiceInv
<1> SUFFICES ASSUME ServiceInit PROVE ServiceInv
  OBVIOUS
<1>1. MaxServices \in Nat /\ MaxRefused \in Nat /\ 0 \in 0..MaxServices /\ 0 \in 0..MaxRefused
  BY ServiceAssumption
<1>2. ServiceTypeOK
  BY <1>1 DEF ServiceInit, ServiceTypeOK, NoCheck
<1>3. NewServiceHasNoPast
  BY DEF ServiceInit, NewServiceHasNoPast, NoCheck
<1>4. \A i \in Ids : i > given => i \notin Exists
  BY DEF ServiceInit, Exists
<1>5. QED
  BY <1>2, <1>3, <1>4 DEF ServiceInv

LEMMA ServiceInvNext == ServiceInv /\ [ServiceNext]_serviceVars => ServiceInv'
<1> SUFFICES ASSUME ServiceInv, [ServiceNext]_serviceVars PROVE ServiceInv'
  OBVIOUS
<1>1. ServiceTypeOK /\ MaxServices \in Nat /\ MaxRefused \in Nat
  BY ServiceAssumption DEF ServiceInv
<1>2. Exists \subseteq Ids /\ Ids \subseteq Nat
  BY <1>1 DEF Exists, Ids
<1>3. CASE UNCHANGED serviceVars
  BY <1>3 DEF serviceVars, ServiceInv, ServiceTypeOK, NewServiceHasNoPast, Exists
<1>4. CASE ReplyChanges
  <2>1. reply' \in Replies(target.kind) /\ target' = target
    BY <1>4 DEF ReplyChanges
  <2>2. ServiceTypeOK'
    BY <1>1, <1>4, <2>1, Zenon DEF ReplyChanges, ServiceTypeOK
  <2>3. QED
    BY <1>4, <2>2 DEF ReplyChanges, ServiceInv, NewServiceHasNoPast, Exists
<1>5. ASSUME NEW a \in Adders, LookForService(a) PROVE ServiceInv'
  <2>1. adding' \subseteq Adders
    BY <1>1, <1>5 DEF LookForService, ServiceTypeOK
  <2>2. ServiceTypeOK'
    BY <1>1, <1>5, <2>1, Zenon DEF LookForService, ServiceTypeOK
  <2>3. QED
    BY <1>5, <2>2 DEF LookForService, ServiceInv, NewServiceHasNoPast, Exists
<1>6. ASSUME NEW a \in Adders, InsertService(a) PROVE ServiceInv'
  <2>1. given \in Nat /\ given' = given + 1 /\ given' \in 0..MaxServices
    BY <1>1, <1>6 DEF InsertService, NextId, Ids, ServiceTypeOK
  <2>2. services' \in [Ids -> {"absent", "PENDING", "ONLINE", "OFFLINE"}] /\ adding' \subseteq Adders
    BY <1>1, <1>6 DEF InsertService, ServiceTypeOK
  <2>3. ServiceTypeOK'
    BY <1>1, <1>6, <2>1, <2>2, Zenon DEF InsertService, ServiceTypeOK
  <2>4. ASSUME NEW i \in Ids, i > given'
        PROVE  i > given /\ services'[i] = services[i]
    BY <1>1, <1>2, <1>6, <2>1, <2>4 DEF InsertService, NextId, ServiceTypeOK
  <2>5. QED
    BY <1>6, <2>3, <2>4 DEF InsertService, ServiceInv, NewServiceHasNoPast, Exists
<1>7. ASSUME NEW i \in Ids, DeleteService(i) PROVE ServiceInv'
  <2>1. services' \in [Ids -> {"absent", "PENDING", "ONLINE", "OFFLINE"}] /\ past' \subseteq Ids
    BY <1>1, <1>7 DEF DeleteService, ServiceTypeOK
  <2>2. ServiceTypeOK'
    BY <1>1, <1>7, <2>1, Zenon DEF DeleteService, ServiceTypeOK
  <2>3. \A j \in Ids : j \in Exists' => j \in Exists
    BY <1>1, <1>7 DEF DeleteService, ServiceTypeOK, Exists
  <2>4. QED
    BY <1>7, <2>2, <2>3 DEF DeleteService, ServiceInv, NewServiceHasNoPast
<1>8. ASSUME NEW c \in Checkers, LoadServices(c) PROVE ServiceInv'
  <2>1. checks' = [checks EXCEPT ![c] = [at |-> "loaded", ids |-> Exists, status |-> "PENDING"]]
    BY <1>8 DEF LoadServices
  <2>2. checks' \in [Checkers -> [at : {"idle", "loaded", "probed"}, ids : SUBSET Ids,
                                  status : {"PENDING", "ONLINE", "OFFLINE"}]]
    BY <1>1, <1>2, <2>1 DEF ServiceTypeOK
  <2>3. ServiceTypeOK'
    BY <1>1, <1>8, <2>2, Zenon DEF LoadServices, ServiceTypeOK
  <2>4. \A d \in Checkers : checks'[d].ids = checks[d].ids \/ checks'[d].ids = Exists
    BY <1>1, <2>1 DEF ServiceTypeOK
  <2>5. QED
    BY <1>8, <2>3, <2>4 DEF LoadServices, ServiceInv, NewServiceHasNoPast, Exists
<1>9. ASSUME NEW c \in Checkers, ProbeServices(c) PROVE ServiceInv'
  <2> DEFINE next == [at |-> "probed", ids |-> checks[c].ids, status |-> StatusOf(target, reply)]
  <2>1. checks' = [checks EXCEPT ![c] = next]
    BY <1>1, <1>9 DEF ProbeServices, ServiceTypeOK
  <2>2. next \in [at : {"idle", "loaded", "probed"}, ids : SUBSET Ids,
                  status : {"PENDING", "ONLINE", "OFFLINE"}]
    BY <1>1, StatusOfType DEF ServiceTypeOK
  <2>3. next.ids = checks[c].ids
    OBVIOUS
  <2> HIDE DEF next
  <2>4. checks' \in [Checkers -> [at : {"idle", "loaded", "probed"}, ids : SUBSET Ids,
                                  status : {"PENDING", "ONLINE", "OFFLINE"}]]
    BY <1>1, <2>1, <2>2 DEF ServiceTypeOK
  <2>5. ServiceTypeOK'
    BY <1>1, <1>9, <2>4, Zenon DEF ProbeServices, ServiceTypeOK
  <2>6. \A d \in Checkers : checks'[d].ids = checks[d].ids
    BY <1>1, <2>1, <2>3 DEF ServiceTypeOK
  <2>7. QED
    BY <1>9, <2>5, <2>6 DEF ProbeServices, ServiceInv, NewServiceHasNoPast, Exists
<1>10. ASSUME NEW c \in Checkers, StoreResults(c) PROVE ServiceInv'
  <2>1. checks[c].ids \subseteq Ids /\ checks[c].status \in {"PENDING", "ONLINE", "OFFLINE"}
    BY <1>1 DEF ServiceTypeOK
  <2>2. StoredRows(c) \in [Ids -> {"absent", "PENDING", "ONLINE", "OFFLINE"}]
    BY <1>1, <2>1 DEF StoredRows, ServiceTypeOK
  <2>3. services' \in {services, StoredRows(c)} /\ past' \in {past, past \cup checks[c].ids}
    BY <1>10 DEF StoreResults
  <2>4. refused' \in 0..MaxRefused
    BY <1>1, <1>10 DEF StoreResults, ServiceTypeOK
  <2>5. NoCheck \in [at : {"idle", "loaded", "probed"}, ids : SUBSET Ids,
                     status : {"PENDING", "ONLINE", "OFFLINE"}] /\ NoCheck.ids = {}
    BY DEF NoCheck
  <2>6. checks' = [checks EXCEPT ![c] = NoCheck] /\ UNCHANGED <<target, reply, given, adding>>
    BY <1>10 DEF StoreResults
  <2>7. checks' \in [Checkers -> [at : {"idle", "loaded", "probed"}, ids : SUBSET Ids,
                                  status : {"PENDING", "ONLINE", "OFFLINE"}]]
    BY <1>1, <2>5, <2>6 DEF ServiceTypeOK
  <2>8. services' \in [Ids -> {"absent", "PENDING", "ONLINE", "OFFLINE"}] /\ past' \subseteq Ids
    BY <1>1, <2>1, <2>2, <2>3 DEF ServiceTypeOK
  <2>9. ServiceTypeOK'
    BY <1>1, <2>4, <2>6, <2>7, <2>8, Zenon DEF ServiceTypeOK
  <2>10. \A d \in Checkers : checks'[d].ids = checks[d].ids \/ checks'[d].ids = {}
    BY <1>1, <2>5, <2>6 DEF ServiceTypeOK
  <2>11. \A i \in Ids : services'[i] # "absent" => services[i] # "absent"
    BY <2>3 DEF StoredRows, Exists
  <2>12. QED
    BY <2>3, <2>6, <2>9, <2>10, <2>11 DEF ServiceInv, NewServiceHasNoPast, Exists
<1>11. QED
  BY <1>3, <1>4, <1>5, <1>6, <1>7, <1>8, <1>9, <1>10 DEF ServiceNext, Check

\* For any number of monitors, runs and requests, an id that is still to be
\* given has neither rows of history nor a run that will write some
\* (app.py:925-935, 4900-4935).
THEOREM NewServiceTheorem == ServiceSpec => []NewServiceHasNoPast
<1>1. ServiceInv => NewServiceHasNoPast
  BY DEF ServiceInv
<1>2. QED
  BY <1>1, ServiceInvInit, ServiceInvNext, PTL DEF ServiceSpec

\* There is one monitor at most for each request that was in between.
BoundInv == ServiceInv /\ MonitorsBounded

LEMMA BoundNext == BoundInv /\ [ServiceNext]_serviceVars => BoundInv'
<1> SUFFICES ASSUME BoundInv, [ServiceNext]_serviceVars PROVE MonitorsBounded'
  BY ServiceInvNext DEF BoundInv
<1>1. ServiceInv /\ ServiceInv' /\ ServiceTypeOK /\ MaxServices \in Nat /\ IsFiniteSet(Adders)
  BY ServiceInvNext, ServiceAssumption DEF BoundInv, ServiceInv
<1>2. Exists \subseteq Ids /\ Exists' \subseteq Ids /\ IsFiniteSet(Ids)
  BY <1>1, FS_Interval DEF Exists, Ids
<1>3. adding \subseteq Adders /\ adding' \subseteq Adders
  BY <1>1 DEF ServiceInv, ServiceTypeOK
<1>4. IsFiniteSet(Exists) /\ IsFiniteSet(Exists') /\ IsFiniteSet(adding) /\ IsFiniteSet(adding')
  BY <1>1, <1>2, <1>3, FS_Subset
<1>5. /\ Cardinality(Exists) \in Nat /\ Cardinality(Exists') \in Nat
      /\ Cardinality(adding) \in Nat /\ Cardinality(adding') \in Nat /\ Cardinality(Adders) \in Nat
  BY <1>1, <1>4, FS_CardinalityType
<1>6. ASSUME Exists' \subseteq Exists, adding' \subseteq adding
      PROVE  MonitorsBounded'
  <2>1. Cardinality(Exists') <= Cardinality(Exists) /\ Cardinality(adding') <= Cardinality(adding)
    BY <1>4, <1>6, FS_Subset
  <2>2. QED
    BY <1>5, <2>1 DEF BoundInv, MonitorsBounded
<1>7. CASE UNCHANGED serviceVars
  BY <1>6, <1>7 DEF serviceVars, Exists
<1>8. CASE ReplyChanges
  BY <1>6, <1>8 DEF ReplyChanges, Exists
<1>9. ASSUME NEW a \in Adders, LookForService(a) PROVE MonitorsBounded'
  <2>1. Exists' = {}
    BY <1>9 DEF LookForService, Exists
  <2>2. Cardinality(Exists') = 0
    BY <2>1, FS_EmptySet
  <2>3. Cardinality(adding') <= Cardinality(Adders)
    BY <1>1, <1>3, FS_Subset
  <2>4. QED
    BY <1>5, <2>2, <2>3 DEF MonitorsBounded
<1>10. ASSUME NEW a \in Adders, InsertService(a) PROVE MonitorsBounded'
  <2>1. Exists' \subseteq Exists \cup {NextId} /\ adding' = adding \ {a} /\ a \in adding
    BY <1>1, <1>10 DEF InsertService, Exists, ServiceTypeOK
  <2>2. /\ IsFiniteSet(Exists \cup {NextId})
        /\ Cardinality(Exists \cup {NextId}) \in {Cardinality(Exists), Cardinality(Exists) + 1}
    BY <1>4, FS_AddElement
  <2>3. Cardinality(Exists') <= Cardinality(Exists \cup {NextId})
    BY <2>1, <2>2, FS_Subset
  <2>4. Cardinality(adding') = Cardinality(adding) - 1
    BY <1>4, <2>1, FS_RemoveElement
  <2>5. QED
    BY <1>5, <2>2, <2>3, <2>4 DEF BoundInv, MonitorsBounded
<1>11. ASSUME NEW i \in Ids, DeleteService(i) PROVE MonitorsBounded'
  <2>1. Exists' \subseteq Exists
    BY <1>1, <1>11 DEF DeleteService, Exists, ServiceTypeOK
  <2>2. QED
    BY <1>6, <1>11, <2>1 DEF DeleteService
<1>12. ASSUME NEW c \in Checkers, Check(c) PROVE MonitorsBounded'
  <2>1. services' \in {services, StoredRows(c)} /\ adding' = adding
    BY <1>12 DEF Check, LoadServices, ProbeServices, StoreResults
  <2>2. \A i \in Ids : services'[i] # "absent" => services[i] # "absent"
    BY <2>1 DEF StoredRows, Exists
  <2>3. Exists' \subseteq Exists
    BY <2>2 DEF Exists
  <2>4. QED
    BY <1>6, <2>1, <2>3
<1>13. QED
  BY <1>7, <1>8, <1>9, <1>10, <1>11, <1>12 DEF ServiceNext

\* For any number of requests that add the same monitor, there are never more
\* of it than requests (app.py:4880-4907).
THEOREM MonitorsTheorem == ServiceSpec => []MonitorsBounded
<1>1. ServiceInit => BoundInv
  <2> SUFFICES ASSUME ServiceInit PROVE MonitorsBounded
    BY ServiceInvInit DEF BoundInv
  <2>1. Exists = {} /\ adding = {}
    BY DEF ServiceInit, Exists
  <2>2. Cardinality(Adders) \in Nat
    BY ServiceAssumption, FS_CardinalityType
  <2>3. QED
    BY <2>1, <2>2, FS_EmptySet DEF MonitorsBounded
<1>2. BoundInv => MonitorsBounded
  BY DEF BoundInv
<1>3. QED
  BY <1>1, <1>2, BoundNext, PTL DEF ServiceSpec

-----------------------------------------------------------------------------
(* AlertWorkflow                                                            *)

\* Alerts the job holds are real, and none of them has been escalated.
HeldIsFresh == \A i \in escalate.ids : alerts[i] # NoAlert /\ ~alerts[i].escalated
\* The alert has been named by the run that marked it, or is being marked.
Named(i) == alerts[i].escalated \/ (escalate.sent /\ i \in escalate.ids)
PagesExplained ==
    \A i \in Slots :
        /\ pages[i] <= lost + (IF Named(i) THEN 1 ELSE 0)
        /\ Named(i) /\ ~crowded => pages[i] > 0
WorkflowInv ==
    /\ WorkflowTypeOK
    /\ \A t \in Threads : page[t].at # "idle" => page[t].alarms # {}
    /\ HeldIsFresh
    /\ PagesExplained
    /\ ~crowded => Cardinality(escalate.ids) <= PageLimit

LEMMA WorkflowInvInit == WorkflowInit => WorkflowInv
<1> SUFFICES ASSUME WorkflowInit PROVE WorkflowInv
  OBVIOUS
<1>1. MaxLost \in Nat /\ PageLimit \in Nat /\ 0 \in 0..MaxLost
  BY WorkflowAssumption
<1>2. WorkflowTypeOK
  BY <1>1 DEF WorkflowInit, WorkflowTypeOK, Rows, Idle, NoJob
<1>3. escalate.ids = {} /\ Cardinality({}) = 0
  BY FS_EmptySet DEF WorkflowInit, NoJob
<1>4. PagesExplained
  BY <1>1 DEF WorkflowInit, PagesExplained, Named, NoAlert, NoJob
<1>5. HeldIsFresh
  BY <1>3 DEF HeldIsFresh
<1>6. \A t \in Threads : page[t].at = "idle"
  BY DEF WorkflowInit, Idle
<1>7. Cardinality(escalate.ids) <= PageLimit
  BY <1>1, <1>3
<1>8. QED
  BY <1>2, <1>4, <1>5, <1>6, <1>7 DEF WorkflowInv

LEMMA CardinalityOfSlots ==
  ASSUME NEW A \in SUBSET Slots
  PROVE  IsFiniteSet(A) /\ Cardinality(A) \in Nat
BY WorkflowAssumption, FS_Subset, FS_CardinalityType

\* What becomes of a row when one field of it is set.
LEMMA FieldSet ==
  ASSUME NEW a \in Alert, NEW b \in BOOLEAN
  PROVE  /\ [a EXCEPT !.open = b] = [kind |-> a.kind, open |-> b, acknowledged |-> a.acknowledged,
                                     escalated |-> a.escalated, overdue |-> a.overdue]
         /\ [a EXCEPT !.acknowledged = b] = [kind |-> a.kind, open |-> a.open, acknowledged |-> b,
                                     escalated |-> a.escalated, overdue |-> a.overdue]
         /\ [a EXCEPT !.escalated = b] = [kind |-> a.kind, open |-> a.open, acknowledged |-> a.acknowledged,
                                     escalated |-> b, overdue |-> a.overdue]
         /\ [a EXCEPT !.overdue = b] = [kind |-> a.kind, open |-> a.open, acknowledged |-> a.acknowledged,
                                     escalated |-> a.escalated, overdue |-> b]
BY DEF Alert

\* Rows of which no kind and no mark changes, and none is opened.
RowsKept ==
    /\ alerts' \in Rows
    /\ \A i \in Slots :
          /\ alerts'[i].kind = alerts[i].kind
          /\ alerts'[i].escalated = alerts[i].escalated
          /\ alerts'[i].open => alerts[i].open
          /\ alerts[i] # NoAlert => alerts'[i] # NoAlert

LEMMA RowIsKept ==
  ASSUME NEW i \in Slots, alerts \in Rows, alerts[i] \in Alert, NEW a \in Alert,
         a.kind = alerts[i].kind, a.escalated = alerts[i].escalated, a.open => alerts[i].open,
         alerts' = [alerts EXCEPT ![i] = a]
  PROVE  RowsKept
<1>1. alerts' \in Rows
  BY DEF Rows
<1>2. a # NoAlert
  BY WorkflowAssumption DEF Alert, NoAlert, Kinds
<1>3. alerts'[i] = a /\ \A j \in Slots : j # i => alerts'[j] = alerts[j]
  BY DEF Rows
<1>4. QED
  BY <1>1, <1>2, <1>3, Zenon DEF RowsKept

LEMMA RealIsAlert ==
  ASSUME NEW i \in Slots, alerts \in Rows
  PROVE  /\ alerts[i] # NoAlert <=> alerts[i] \in Alert
         /\ alerts[i].open => alerts[i] \in Alert
         /\ alerts[i].open \in BOOLEAN /\ alerts[i].acknowledged \in BOOLEAN
         /\ alerts[i].escalated \in BOOLEAN /\ alerts[i].overdue \in BOOLEAN
<1>1. alerts[i] \in Alert \/ alerts[i] = NoAlert
  BY DEF Rows
<1>2. NoAlert \notin Alert
  BY WorkflowAssumption DEF Alert, NoAlert, Kinds
<1>3. CASE alerts[i] \in Alert
  BY <1>2, <1>3 DEF Alert
<1>4. CASE alerts[i] = NoAlert
  BY <1>2, <1>4 DEF NoAlert
<1>5. QED
  BY <1>1, <1>3, <1>4

LEMMA EndpointsKeepRows ==
  ASSUME WorkflowInv, NEW i \in Slots, ResolveAlert(i) \/ SetAcknowledged(i) \/ BecomeOverdue(i)
  PROVE  RowsKept
<1>1. alerts \in Rows /\ alerts[i] \in Alert
  BY RealIsAlert DEF WorkflowInv, WorkflowTypeOK, ResolveAlert, SetAcknowledged, BecomeOverdue
<1> DEFINE a == alerts[i]
<1>2. CASE ResolveAlert(i)
  <2> DEFINE b == [kind |-> a.kind, open |-> FALSE, acknowledged |-> a.acknowledged,
                   escalated |-> a.escalated, overdue |-> a.overdue]
  <2>1. alerts' = [alerts EXCEPT ![i] = [alerts[i] EXCEPT !.open = FALSE]]
    BY <1>1, <1>2 DEF ResolveAlert, Rows
  <2>2. alerts' = [alerts EXCEPT ![i] = b]
    BY <1>1, <2>1, FieldSet, Zenon
  <2>3. b \in Alert /\ b.kind = a.kind /\ b.escalated = a.escalated /\ ~b.open
    BY <1>1 DEF Alert
  <2> HIDE DEF b
  <2>4. QED
    BY <1>1, <2>2, <2>3, RowIsKept
<1>3. CASE SetAcknowledged(i)
  <2> DEFINE b == [kind |-> a.kind, open |-> a.open, acknowledged |-> ~a.acknowledged,
                   escalated |-> a.escalated, overdue |-> a.overdue]
  <2>1. alerts' = [alerts EXCEPT ![i] = [alerts[i] EXCEPT !.acknowledged = ~alerts[i].acknowledged]]
    BY <1>1, <1>3 DEF SetAcknowledged, Rows
  <2>2. (~alerts[i].acknowledged) \in BOOLEAN
    OBVIOUS
  <2>3. alerts' = [alerts EXCEPT ![i] = b]
    BY <1>1, <2>1, <2>2, FieldSet, Zenon
  <2>4. b \in Alert /\ b.kind = a.kind /\ b.escalated = a.escalated /\ b.open = a.open
    BY <1>1 DEF Alert
  <2> HIDE DEF b
  <2>5. QED
    BY <1>1, <2>3, <2>4, RowIsKept
<1>4. CASE BecomeOverdue(i)
  <2> DEFINE b == [kind |-> a.kind, open |-> a.open, acknowledged |-> a.acknowledged,
                   escalated |-> a.escalated, overdue |-> TRUE]
  <2>1. alerts' = [alerts EXCEPT ![i] = [alerts[i] EXCEPT !.overdue = TRUE]]
    BY <1>1, <1>4 DEF BecomeOverdue, Rows
  <2>2. alerts' = [alerts EXCEPT ![i] = b]
    BY <1>1, <2>1, FieldSet, Zenon
  <2>3. b \in Alert /\ b.kind = a.kind /\ b.escalated = a.escalated /\ b.open = a.open
    BY <1>1 DEF Alert
  <2> HIDE DEF b
  <2>4. QED
    BY <1>1, <2>2, <2>3, RowIsKept
<1>5. QED
  BY <1>2, <1>3, <1>4

LEMMA JobResolvesKeepsRows ==
  ASSUME WorkflowInv, NEW k \in JobKinds, JobResolves(k)
  PROVE  RowsKept
<1>1. alerts \in Rows
  BY DEF WorkflowInv, WorkflowTypeOK
<1>2. ASSUME NEW i \in Slots
      PROVE  /\ alerts'[i] \in Alert \cup {NoAlert}
             /\ alerts'[i].kind = alerts[i].kind /\ alerts'[i].escalated = alerts[i].escalated
             /\ alerts'[i].open => alerts[i].open
             /\ alerts[i] # NoAlert => alerts'[i] # NoAlert
  <2>1. CASE i \in OpenRows(k)
    <3> DEFINE a == alerts[i]
    <3> DEFINE b == [kind |-> a.kind, open |-> FALSE, acknowledged |-> a.acknowledged,
                     escalated |-> a.escalated, overdue |-> a.overdue]
    <3>1. a \in Alert
      BY <1>1, <2>1, RealIsAlert DEF OpenRows
    <3>2. alerts'[i] = [a EXCEPT !.open = FALSE]
      BY <2>1 DEF JobResolves
    <3>3. alerts'[i] = b
      BY <3>1, <3>2, FieldSet, Zenon
    <3>4. b \in Alert /\ b # NoAlert
      BY <3>1, WorkflowAssumption DEF Alert, NoAlert, Kinds
    <3>5. QED
      BY <3>3, <3>4
  <2>2. CASE i \notin OpenRows(k)
    BY <1>1, <2>2 DEF JobResolves, Rows
  <2>3. QED
    BY <2>1, <2>2
<1>3. alerts' = [i \in Slots |-> alerts'[i]]
  BY DEF JobResolves
<1>4. alerts' \in Rows
  BY <1>2, <1>3 DEF Rows
<1>5. QED
  BY <1>2, <1>4 DEF RowsKept

\* A step that keeps rows, messages and the job keeps the invariant.
LEMMA KeptKeeps ==
  ASSUME WorkflowInv, RowsKept, UNCHANGED <<escalate, pages, lost, crowded>>,
         page' \in [Threads -> [at : {"idle", "alarms", "todo", "insert"}, alarms : SUBSET Messages]],
         \A t \in Threads : page'[t].at # "idle" => page'[t].alarms # {}
  PROVE  WorkflowInv'
<1>1. WorkflowTypeOK'
  BY DEF WorkflowInv, WorkflowTypeOK, RowsKept
<1>2. escalate.ids \subseteq Slots
  BY DEF WorkflowInv, WorkflowTypeOK
<1>3. ASSUME NEW i \in escalate.ids PROVE alerts'[i] # NoAlert /\ ~alerts'[i].escalated
  <2>1. i \in Slots /\ alerts[i] # NoAlert /\ ~alerts[i].escalated
    BY <1>2 DEF WorkflowInv, HeldIsFresh
  <2>2. QED
    BY <2>1, Zenon DEF RowsKept
<1>4. ASSUME NEW i \in Slots PROVE alerts'[i].escalated = alerts[i].escalated
  BY DEF RowsKept
<1>5. PagesExplained'
  BY <1>4 DEF WorkflowInv, PagesExplained, Named
<1>6. QED
  BY <1>1, <1>3, <1>5 DEF WorkflowInv, HeldIsFresh

LEMMA OpenAlertType ==
  ASSUME WorkflowInv, NEW k \in Kinds, OpenAlert(k)
  PROVE  /\ NewSlot \in Slots /\ NewSlot \notin escalate.ids /\ ~alerts[NewSlot].open
         /\ alerts' \in Rows /\ alerts'[NewSlot] = NewAlert(k)
         /\ pages' \in [Slots -> Nat] /\ pages'[NewSlot] = 0
         /\ \A i \in Slots : i # NewSlot => alerts'[i] = alerts[i] /\ pages'[i] = pages[i]
<1>1. NewSlot \in Free
  BY DEF OpenAlert, NewSlot
<1>2. NewSlot \in Slots /\ NewSlot \notin escalate.ids /\ ~alerts[NewSlot].open
  BY <1>1 DEF Free
<1>3. NewAlert(k) \in Alert
  BY DEF NewAlert, Alert
<1>4. alerts \in Rows /\ pages \in [Slots -> Nat]
  BY DEF WorkflowInv, WorkflowTypeOK
<1>5. alerts' = [alerts EXCEPT ![NewSlot] = NewAlert(k)] /\ pages' = [pages EXCEPT ![NewSlot] = 0]
  BY DEF OpenAlert
<1> HIDE DEF NewSlot
<1>6. QED
  BY <1>2, <1>3, <1>4, <1>5 DEF Rows

LEMMA OpenAlertKeeps ==
  ASSUME WorkflowInv, NEW k \in Kinds, OpenAlert(k), UNCHANGED <<escalate, lost, crowded>>,
         page' \in [Threads -> [at : {"idle", "alarms", "todo", "insert"}, alarms : SUBSET Messages]],
         \A t \in Threads : page'[t].at # "idle" => page'[t].alarms # {}
  PROVE  WorkflowInv'
<1> DEFINE n == NewSlot
<1>1. /\ n \in Slots /\ n \notin escalate.ids
      /\ alerts' \in Rows /\ alerts'[n] = NewAlert(k)
      /\ pages' \in [Slots -> Nat] /\ pages'[n] = 0
      /\ \A i \in Slots : i # n => alerts'[i] = alerts[i] /\ pages'[i] = pages[i]
  BY OpenAlertType
<1> HIDE DEF n
<1>2. WorkflowTypeOK /\ escalate.ids \subseteq Slots /\ MaxLost \in Nat /\ lost \in Nat
  BY WorkflowAssumption DEF WorkflowInv, WorkflowTypeOK
<1>3. WorkflowTypeOK'
  BY <1>1, <1>2 DEF WorkflowTypeOK
<1>4. HeldIsFresh'
  <2>1. ASSUME NEW i \in escalate.ids PROVE alerts'[i] # NoAlert /\ ~alerts'[i].escalated
    <3>1. alerts'[i] = alerts[i]
      BY <1>1, <1>2
    <3>2. QED
      BY <3>1 DEF WorkflowInv, HeldIsFresh
  <2>2. QED
    BY <2>1 DEF HeldIsFresh
<1>5. PagesExplained'
  <2>1. ASSUME NEW i \in Slots
        PROVE  /\ pages'[i] <= lost + (IF Named(i)' THEN 1 ELSE 0)
               /\ Named(i)' /\ ~crowded => pages'[i] > 0
    <3>1. CASE i = n
      <4>1. pages'[i] = 0 /\ ~alerts'[i].escalated /\ i \notin escalate.ids
        BY <1>1, <3>1 DEF NewAlert
      <4>2. ~Named(i)'
        BY <4>1 DEF Named
      <4>3. QED
        BY <1>2, <4>1, <4>2
    <3>2. CASE i # n
      <4>1. alerts'[i] = alerts[i] /\ pages'[i] = pages[i]
        BY <1>1, <3>2
      <4>2. QED
        BY <4>1 DEF WorkflowInv, PagesExplained, Named
    <3>3. QED
      BY <3>1, <3>2
  <2>2. QED
    BY <2>1 DEF PagesExplained
<1>6. QED
  BY <1>3, <1>4, <1>5 DEF WorkflowInv

LEMMA ReadCandidatesKeeps ==
  ASSUME WorkflowInv, ReadCandidates
  PROVE  WorkflowInv'
<1>1. WorkflowTypeOK /\ Candidates \subseteq Slots /\ PageLimit \in Nat
  BY WorkflowAssumption DEF WorkflowInv, Candidates
<1>2. escalate' = [sent |-> FALSE, ids |-> Candidates] /\ UNCHANGED <<alerts, page, pages, lost>>
      /\ escalate = NoJob
  BY DEF ReadCandidates
<1>3. crowded' \in BOOLEAN /\ (~crowded' => ~crowded /\ ~(Cardinality(Candidates) > PageLimit))
  BY <1>1, Zenon DEF ReadCandidates
<1>4. ~crowded' => Cardinality(escalate'.ids) <= PageLimit
  BY <1>1, <1>2, <1>3, CardinalityOfSlots
<1>5. WorkflowTypeOK'
  BY <1>1, <1>2, <1>3 DEF WorkflowTypeOK
<1>6. HeldIsFresh'
  <2>1. ASSUME NEW i \in Candidates PROVE alerts[i] # NoAlert /\ ~alerts[i].escalated
    BY DEF Candidates, Overdue, NoAlert
  <2>2. QED
    BY <1>2, <2>1 DEF HeldIsFresh
<1>7. PagesExplained'
  BY <1>2, <1>3 DEF WorkflowInv, PagesExplained, Named, NoJob
<1>8. QED
  BY <1>2, <1>4, <1>5, <1>6, <1>7 DEF WorkflowInv

LEMMA SendEscalationKeeps ==
  ASSUME WorkflowInv, SendEscalation
  PROVE  WorkflowInv'
<1>1. /\ WorkflowTypeOK /\ escalate.ids \subseteq Slots /\ PageLimit \in Nat
      /\ lost \in Nat /\ pages \in [Slots -> Nat] /\ Cardinality(escalate.ids) \in Nat
  BY WorkflowAssumption, CardinalityOfSlots DEF WorkflowInv, WorkflowTypeOK
<1>2. PICK named \in SUBSET escalate.ids :
          /\ \/ Cardinality(escalate.ids) <= PageLimit /\ named = escalate.ids
             \/ Cardinality(escalate.ids) > PageLimit /\ Cardinality(named) = PageLimit
          /\ pages' = [i \in Slots |-> IF i \in named THEN pages[i] + 1 ELSE pages[i]]
  BY DEF SendEscalation
<1>3. escalate' = [sent |-> TRUE, ids |-> escalate.ids] /\ ~escalate.sent
  BY <1>1 DEF SendEscalation, WorkflowTypeOK
<1>4. UNCHANGED <<alerts, page, lost, crowded>>
  BY DEF SendEscalation
<1>5. pages' \in [Slots -> Nat]
  BY <1>1, <1>2
<1>6. WorkflowTypeOK'
  BY <1>1, <1>3, <1>4, <1>5 DEF WorkflowTypeOK
<1>7. HeldIsFresh'
  BY <1>3, <1>4 DEF WorkflowInv, HeldIsFresh
<1>8. ~crowded => named = escalate.ids
  BY <1>1, <1>2 DEF WorkflowInv
<1>9. PagesExplained'
  <2>1. ASSUME NEW i \in Slots
        PROVE  /\ pages'[i] <= lost + (IF Named(i)' THEN 1 ELSE 0)
               /\ Named(i)' /\ ~crowded => pages'[i] > 0
    <3>1. pages[i] \in Nat /\ pages'[i] = IF i \in named THEN pages[i] + 1 ELSE pages[i]
      BY <1>1, <1>2
    <3>2. CASE i \in escalate.ids
      <4>1. ~Named(i) /\ Named(i)'
        BY <1>3, <3>2 DEF Named, WorkflowInv, HeldIsFresh
      <4>2. pages[i] <= lost
        BY <1>1, <4>1 DEF WorkflowInv, PagesExplained
      <4>3. QED
        BY <1>1, <1>8, <3>1, <3>2, <4>1, <4>2
    <3>3. CASE i \notin escalate.ids
      <4>1. pages'[i] = pages[i]
        BY <3>1, <3>3
      <4>2. Named(i) <=> Named(i)'
        BY <1>3, <1>4, <3>3 DEF Named
      <4>3. QED
        BY <4>1, <4>2 DEF WorkflowInv, PagesExplained
    <3>4. QED
      BY <3>2, <3>3
  <2>2. QED
    BY <1>4, <2>1 DEF PagesExplained
<1>10. QED
  BY <1>3, <1>4, <1>6, <1>7, <1>9 DEF WorkflowInv

LEMMA NoJobKeeps ==
  ASSUME WorkflowInv, escalate' = NoJob, UNCHANGED crowded
  PROVE  HeldIsFresh' /\ (~crowded' => Cardinality(escalate'.ids) <= PageLimit)
         /\ escalate' \in [sent : BOOLEAN, ids : SUBSET Slots]
BY FS_EmptySet, WorkflowAssumption DEF HeldIsFresh, NoJob

LEMMA MarkEscalatedKeeps ==
  ASSUME WorkflowInv, MarkEscalated
  PROVE  WorkflowInv'
<1>1. /\ WorkflowTypeOK /\ escalate.ids \subseteq Slots /\ alerts \in Rows
      /\ lost \in Nat /\ pages \in [Slots -> Nat] /\ MaxLost \in Nat /\ escalate.sent
  BY WorkflowAssumption DEF WorkflowInv, WorkflowTypeOK, MarkEscalated
<1>2. escalate' = NoJob /\ UNCHANGED <<page, pages, crowded>>
  BY DEF MarkEscalated
<1>3. CASE /\ alerts' = [i \in Slots |->
                 IF i \in escalate.ids THEN [alerts[i] EXCEPT !.escalated = TRUE] ELSE alerts[i]]
           /\ lost' = lost
  <2>1. ASSUME NEW i \in Slots
        PROVE  /\ alerts'[i] \in Alert \cup {NoAlert}
               /\ alerts'[i].escalated <=> alerts[i].escalated \/ i \in escalate.ids
    <3>1. CASE i \in escalate.ids
      <4> DEFINE a == alerts[i]
      <4> DEFINE b == [kind |-> a.kind, open |-> a.open, acknowledged |-> a.acknowledged,
                       escalated |-> TRUE, overdue |-> a.overdue]
      <4>1. a \in Alert
        BY <1>1, <3>1, RealIsAlert DEF WorkflowInv, HeldIsFresh
      <4>2. alerts'[i] = [a EXCEPT !.escalated = TRUE]
        BY <1>3, <3>1
      <4>3. alerts'[i] = b
        BY <4>1, <4>2, FieldSet, Zenon
      <4>4. b \in Alert
        BY <4>1 DEF Alert
      <4>5. QED
        BY <3>1, <4>3, <4>4
    <3>2. CASE i \notin escalate.ids
      BY <1>1, <1>3, <3>2 DEF Rows
    <3>3. QED
      BY <3>1, <3>2
  <2>2. alerts' = [i \in Slots |-> alerts'[i]]
    BY <1>3
  <2>3. alerts' \in Rows
    BY <2>1, <2>2 DEF Rows
  <2>4. WorkflowTypeOK'
    BY <1>1, <1>2, <1>3, <2>3, NoJobKeeps DEF WorkflowTypeOK
  <2>5. ASSUME NEW i \in Slots PROVE Named(i) <=> Named(i)'
    BY <1>1, <1>2, <2>1 DEF Named, NoJob
  <2>6. PagesExplained'
    BY <1>2, <1>3, <2>5 DEF WorkflowInv, PagesExplained
  <2>7. QED
    BY <1>2, <2>4, <2>6, NoJobKeeps DEF WorkflowInv
<1>4. CASE LoseRun /\ alerts' = alerts
  <2>1. lost' = lost + 1 /\ lost' \in 0..MaxLost
    BY <1>1, <1>4 DEF LoseRun
  <2>2. WorkflowTypeOK'
    BY <1>1, <1>2, <1>4, <2>1, NoJobKeeps DEF WorkflowTypeOK
  <2>3. ASSUME NEW i \in Slots
        PROVE  /\ pages[i] <= lost' + (IF Named(i)' THEN 1 ELSE 0)
               /\ Named(i)' /\ ~crowded => pages[i] > 0
    <3>1. pages[i] <= lost + 1 /\ (Named(i) /\ ~crowded => pages[i] > 0)
      BY <1>1 DEF WorkflowInv, PagesExplained
    <3>2. Named(i)' => Named(i)
      BY <1>2, <1>4 DEF Named, NoJob
    <3>3. QED
      BY <1>1, <2>1, <3>1, <3>2
  <2>4. PagesExplained'
    BY <1>2, <2>3 DEF PagesExplained
  <2>5. QED
    BY <1>2, <2>2, <2>4, NoJobKeeps DEF WorkflowInv
<1>5. QED
  BY <1>3, <1>4 DEF MarkEscalated

LEMMA StopKeeps ==
  ASSUME WorkflowInv, Stop
  PROVE  WorkflowInv'
<1>1. /\ WorkflowTypeOK /\ alerts \in Rows
      /\ lost \in Nat /\ pages \in [Slots -> Nat] /\ MaxLost \in Nat
  BY WorkflowAssumption DEF WorkflowInv, WorkflowTypeOK
<1>2. escalate' = NoJob /\ UNCHANGED <<alerts, pages, crowded>> /\ page' = [t \in Threads |-> Idle]
  BY DEF Stop
<1>3. lost' \in 0..MaxLost /\ (IF escalate = NoJob THEN lost' = lost ELSE lost' = lost + 1)
  BY <1>1 DEF Stop, LoseRun, WorkflowTypeOK
<1>4. /\ page' \in [Threads -> [at : {"idle", "alarms", "todo", "insert"}, alarms : SUBSET Messages]]
      /\ \A t \in Threads : page'[t].at = "idle"
  BY <1>2 DEF Idle
<1>5. WorkflowTypeOK'
  BY <1>1, <1>2, <1>3, <1>4, NoJobKeeps DEF WorkflowTypeOK
<1>6. ASSUME NEW i \in Slots
      PROVE  /\ pages[i] <= lost' + (IF Named(i)' THEN 1 ELSE 0)
             /\ Named(i)' /\ ~crowded => pages[i] > 0
  <2>1. Named(i)' <=> alerts[i].escalated
    BY <1>2 DEF Named, NoJob
  <2>2. pages[i] <= lost + (IF Named(i) THEN 1 ELSE 0) /\ (Named(i) /\ ~crowded => pages[i] > 0)
    BY DEF WorkflowInv, PagesExplained
  <2>3. CASE escalate = NoJob
    <3>1. Named(i) <=> alerts[i].escalated
      BY <2>3 DEF Named, NoJob
    <3>2. QED
      BY <1>3, <2>1, <2>2, <2>3, <3>1
  <2>4. CASE escalate # NoJob
    <3>1. pages[i] <= lost + 1 /\ pages[i] \in Nat /\ lost' = lost + 1
      BY <1>1, <1>3, <2>2, <2>4
    <3>2. Named(i)' => Named(i)
      BY <2>1 DEF Named
    <3>3. QED
      BY <1>1, <2>2, <3>1, <3>2
  <2>5. QED
    BY <2>3, <2>4
<1>7. PagesExplained'
  BY <1>2, <1>6 DEF PagesExplained
<1>8. QED
  BY <1>2, <1>4, <1>5, <1>7, NoJobKeeps DEF WorkflowInv

Requests == [at : {"idle", "alarms", "todo", "insert"}, alarms : SUBSET Messages]

\* One request moves, the others stay.
LEMMA RequestMoves ==
  ASSUME WorkflowInv, NEW t \in Threads, NEW r \in Requests,
         r.at # "idle" => r.alarms # {}, page' = [page EXCEPT ![t] = r]
  PROVE  /\ page' \in [Threads -> Requests]
         /\ \A u \in Threads : page'[u].at # "idle" => page'[u].alarms # {}
         /\ page'[t] = r /\ \A u \in Threads : u # t => page'[u] = page[u]
<1>1. page \in [Threads -> Requests]
  BY DEF WorkflowInv, WorkflowTypeOK, Requests
<1>2. page' \in [Threads -> Requests] /\ page'[t] = r /\ \A u \in Threads : u # t => page'[u] = page[u]
  BY <1>1
<1>3. QED
  BY <1>2 DEF WorkflowInv

LEMMA SameRows == WorkflowInv /\ alerts' = alerts => RowsKept
BY DEF WorkflowInv, WorkflowTypeOK, RowsKept

\* What a request does next: it moves to r and adds rows of its alarm m only.
RequestStep(t, r) ==
    /\ page' = [page EXCEPT ![t] = r]
    /\ r \in Requests /\ (r.at # "idle" => r.alarms # {})
    /\ UNCHANGED <<escalate, lost, crowded>>

LEMMA RequestNext ==
  ASSUME WorkflowInv, NEW t \in Threads
  PROVE  /\ \A A \in SUBSET Messages : ReadTriggers(t, A) =>
                RequestStep(t, [at |-> "alarms", alarms |-> A]) /\ UNCHANGED <<alerts, pages>>
         /\ ReadActive(t) => \E r : RequestStep(t, r) /\ r.at # "insert" /\ UNCHANGED <<alerts, pages>>
         /\ LookUp(t) => \E r : /\ RequestStep(t, r) /\ UNCHANGED <<alerts, pages>>
                                /\ r.at = "insert" => OpenRows(CHOOSE x \in r.alarms : TRUE) = {}
         /\ CreateAlert(t) => \E r : RequestStep(t, r) /\ r.at # "insert"
<1>1. page[t] \in Requests /\ (page[t].at # "idle" => page[t].alarms # {})
  BY DEF WorkflowInv, WorkflowTypeOK, Requests
<1>2. ASSUME NEW A \in SUBSET Messages, ReadTriggers(t, A)
      PROVE  RequestStep(t, [at |-> "alarms", alarms |-> A]) /\ UNCHANGED <<alerts, pages>>
  BY <1>2 DEF ReadTriggers, RequestStep, Requests
<1>3. ASSUME ReadActive(t)
      PROVE  \E r : RequestStep(t, r) /\ r.at # "insert" /\ UNCHANGED <<alerts, pages>>
  <2> DEFINE todo == {m \in page[t].alarms : OpenRows(m) = {}}
  <2> DEFINE r == IF todo = {} THEN Idle ELSE [at |-> "todo", alarms |-> todo]
  <2>1. page' = [page EXCEPT ![t] = r] /\ UNCHANGED <<alerts, escalate, pages, lost, crowded>>
    BY <1>3 DEF ReadActive
  <2>2. todo \subseteq Messages
    BY <1>1 DEF Requests
  <2> HIDE DEF todo
  <2>3. r \in Requests /\ (r.at # "idle" => r.alarms # {}) /\ r.at # "insert"
    BY <2>2 DEF Requests, Idle
  <2> HIDE DEF r
  <2>4. RequestStep(t, r)
    BY <2>1, <2>3 DEF RequestStep
  <2>5. QED
    BY <2>1, <2>3, <2>4
<1>4. ASSUME LookUp(t)
      PROVE  \E r : /\ RequestStep(t, r) /\ UNCHANGED <<alerts, pages>>
                    /\ r.at = "insert" => OpenRows(CHOOSE x \in r.alarms : TRUE) = {}
  <2> DEFINE m == CHOOSE x \in page[t].alarms : TRUE
  <2> DEFINE r == IF OpenRows(m) = {} THEN [at |-> "insert", alarms |-> page[t].alarms]
                  ELSE IF page[t].alarms = {m} THEN Idle
                  ELSE [at |-> "todo", alarms |-> page[t].alarms \ {m}]
  <2>1. page' = [page EXCEPT ![t] = r] /\ UNCHANGED <<alerts, escalate, pages, lost, crowded>>
    BY <1>4 DEF LookUp
  <2>2. m \in page[t].alarms /\ page[t].alarms \subseteq Messages /\ page[t].alarms # {}
    BY <1>1, <1>4 DEF LookUp, Requests
  <2>3. CASE OpenRows(m) = {}
    <3>1. r = [at |-> "insert", alarms |-> page[t].alarms]
      BY <2>3
    <3> HIDE DEF r
    <3>2. OpenRows(CHOOSE x \in r.alarms : TRUE) = {}
      BY <2>3, <3>1
    <3>3. r \in Requests /\ r.alarms # {}
      BY <2>2, <3>1 DEF Requests
    <3>4. RequestStep(t, r)
      BY <2>1, <3>3 DEF RequestStep
    <3>5. QED
      BY <2>1, <3>2, <3>4
  <2>4. CASE OpenRows(m) # {}
    <3>1. r = IF page[t].alarms = {m} THEN Idle ELSE [at |-> "todo", alarms |-> page[t].alarms \ {m}]
      BY <2>4
    <3> HIDE DEF r
    <3>2. r \in Requests /\ (r.at # "idle" => r.alarms # {}) /\ r.at # "insert"
      <4>1. CASE page[t].alarms = {m}
        BY <3>1, <4>1 DEF Requests, Idle
      <4>2. CASE page[t].alarms # {m}
        <5>1. r = [at |-> "todo", alarms |-> page[t].alarms \ {m}]
          BY <3>1, <4>2
        <5>2. page[t].alarms \ {m} # {}
          BY <2>2, <4>2
        <5> HIDE DEF m
        <5>3. QED
          BY <2>2, <5>1, <5>2 DEF Requests
      <4>3. QED
        BY <4>1, <4>2
    <3>3. RequestStep(t, r)
      BY <2>1, <3>2 DEF RequestStep
    <3>4. QED
      BY <2>1, <3>2, <3>3
  <2>5. QED
    BY <2>3, <2>4
<1>5. ASSUME CreateAlert(t)
      PROVE  \E r : RequestStep(t, r) /\ r.at # "insert"
  <2> DEFINE m == CHOOSE x \in page[t].alarms : TRUE
  <2> DEFINE r == IF page[t].alarms = {m} THEN Idle
                  ELSE [at |-> "todo", alarms |-> page[t].alarms \ {m}]
  <2>1. page' = [page EXCEPT ![t] = r] /\ UNCHANGED <<escalate, lost, crowded>>
    BY <1>5 DEF CreateAlert
  <2>2. m \in page[t].alarms /\ page[t].alarms \subseteq Messages /\ page[t].alarms # {}
    BY <1>1, <1>5 DEF CreateAlert, Requests
  <2>3. r \in Requests /\ (r.at # "idle" => r.alarms # {}) /\ r.at # "insert"
    <3>1. CASE page[t].alarms = {m}
      BY <3>1 DEF Requests, Idle
    <3>2. CASE page[t].alarms # {m}
      <4>1. page[t].alarms \ {m} # {} /\ r = [at |-> "todo", alarms |-> page[t].alarms \ {m}]
        BY <2>2, <3>2
      <4> HIDE DEF m, r
      <4>2. QED
        BY <2>2, <4>1 DEF Requests
    <3>3. QED
      BY <3>1, <3>2
  <2> HIDE DEF r
  <2>4. RequestStep(t, r)
    BY <2>1, <2>3 DEF RequestStep
  <2>5. QED
    BY <2>3, <2>4
<1>6. QED
  BY <1>2, <1>3, <1>4, <1>5

LEMMA CreateAlertRows ==
  ASSUME WorkflowInv, NEW t \in Threads, CreateAlert(t)
  PROVE  \/ OpenAlert(CHOOSE x \in page[t].alarms : TRUE)
         \/ UNCHANGED <<alerts, pages>>
BY DEF CreateAlert

LEMMA WorkflowInvNext == WorkflowInv /\ [WorkflowNext]_workflowVars => WorkflowInv'
<1> SUFFICES ASSUME WorkflowInv, [WorkflowNext]_workflowVars PROVE WorkflowInv'
  OBVIOUS
<1>1. /\ page \in [Threads -> Requests]
      /\ \A u \in Threads : page[u].at # "idle" => page[u].alarms # {}
  BY DEF WorkflowInv, WorkflowTypeOK, Requests
<1>2. CASE UNCHANGED workflowVars
  BY <1>1, <1>2, SameRows, KeptKeeps DEF workflowVars, Requests
<1>3. ASSUME NEW t \in Threads, NEW r, RequestStep(t, r), UNCHANGED <<alerts, pages>>
      PROVE  WorkflowInv'
  <2>1. /\ page' \in [Threads -> Requests]
        /\ \A u \in Threads : page'[u].at # "idle" => page'[u].alarms # {}
    BY <1>3, RequestMoves DEF RequestStep
  <2>2. QED
    BY <1>3, <2>1, SameRows, KeptKeeps DEF RequestStep, Requests
<1>4. ASSUME NEW t \in Threads, CreateAlert(t) PROVE WorkflowInv'
  <2>1. PICK r : RequestStep(t, r)
    BY <1>4, RequestNext
  <2>2. /\ page' \in [Threads -> Requests]
        /\ \A u \in Threads : page'[u].at # "idle" => page'[u].alarms # {}
    BY <2>1, RequestMoves DEF RequestStep
  <2>3. (CHOOSE x \in page[t].alarms : TRUE) \in Kinds
    <3>1. page[t].alarms \subseteq Messages /\ page[t].alarms # {}
      BY <1>1, <1>4 DEF CreateAlert, Requests
    <3>2. QED
      BY <3>1 DEF Kinds
  <2>4. CASE OpenAlert(CHOOSE x \in page[t].alarms : TRUE)
    BY <2>1, <2>2, <2>3, <2>4, OpenAlertKeeps DEF RequestStep, Requests
  <2>5. CASE UNCHANGED <<alerts, pages>>
    BY <1>3, <2>1, <2>5
  <2>6. QED
    BY <1>4, <2>4, <2>5, CreateAlertRows
<1>5. ASSUME NEW t \in Threads, NEW A \in SUBSET Messages, ReadTriggers(t, A) PROVE WorkflowInv'
  BY <1>3, <1>5, RequestNext
<1>6. ASSUME NEW t \in Threads, ReadActive(t) \/ LookUp(t) PROVE WorkflowInv'
  <2>1. \E r : RequestStep(t, r) /\ UNCHANGED <<alerts, pages>>
    <3>1. CASE ReadActive(t)
      BY <3>1, RequestNext
    <3>2. CASE LookUp(t)
      BY <3>2, RequestNext
    <3>3. QED
      BY <1>6, <3>1, <3>2
  <2>2. QED
    BY <1>3, <2>1
<1>7. ASSUME NEW i \in Slots, ResolveAlert(i) \/ SetAcknowledged(i) \/ BecomeOverdue(i) PROVE WorkflowInv'
  <2>1. RowsKept
    BY <1>7, EndpointsKeepRows
  <2>2. UNCHANGED <<page, escalate, pages, lost, crowded>>
    BY <1>7 DEF ResolveAlert, SetAcknowledged, BecomeOverdue
  <2>3. QED
    BY <1>1, <2>1, <2>2, KeptKeeps DEF Requests
<1>8. ASSUME NEW k \in JobKinds, JobOpens(k) PROVE WorkflowInv'
  BY <1>1, <1>8, OpenAlertKeeps DEF JobOpens, Requests, Kinds
<1>9. ASSUME NEW k \in JobKinds, JobResolves(k) PROVE WorkflowInv'
  <2>1. RowsKept
    BY <1>9, JobResolvesKeepsRows
  <2>2. QED
    BY <1>1, <1>9, <2>1, KeptKeeps DEF JobResolves, Requests
<1>10. QED
  BY <1>2, <1>4, <1>5, <1>6, <1>7, <1>8, <1>9,
     ReadCandidatesKeeps, SendEscalationKeeps, MarkEscalatedKeeps, StopKeeps DEF WorkflowNext, Escalate

\* For any number of alerts, requests and lost runs of the job: an alert is in
\* one message more than there were lost runs at most, and an escalated alert
\* was in one unless a message had too many to name (app.py:1096-1118).
THEOREM PagedTheorem == WorkflowSpec => []PagedOnce
<1>1. WorkflowInv => PagedOnce
  <2> SUFFICES ASSUME WorkflowInv, NEW i \in Slots
               PROVE  /\ pages[i] <= 1 + lost
                      /\ alerts[i].escalated /\ ~crowded => pages[i] > 0
    BY DEF PagedOnce
  <2>1. pages[i] \in Nat /\ lost \in Nat
    BY WorkflowAssumption DEF WorkflowInv, WorkflowTypeOK
  <2>2. QED
    BY <2>1 DEF WorkflowInv, PagesExplained, Named
<1>2. QED
  BY <1>1, WorkflowInvInit, WorkflowInvNext, PTL DEF WorkflowSpec

\* An alarm has no more open rows and insertions under way than requests.
DuplicatesInv == WorkflowInv /\ DuplicatesBounded

LEMMA FiniteRows ==
  /\ \A k : IsFiniteSet(OpenRows(k)) /\ Cardinality(OpenRows(k)) \in Nat
  /\ \A m : /\ IsFiniteSet(Inserting(m)) /\ Cardinality(Inserting(m)) \in Nat
            /\ Cardinality(Inserting(m)) <= Cardinality(Threads)
  /\ Cardinality(Threads) \in Nat /\ IsFiniteSet(Slots) /\ IsFiniteSet(Threads)
<1>1. /\ \A k : OpenRows(k) \in SUBSET Slots
      /\ \A m : Inserting(m) \in SUBSET Threads
  BY DEF OpenRows, Inserting
<1> HIDE DEF OpenRows, Inserting
<1>2. IsFiniteSet(Slots) /\ IsFiniteSet(Threads)
  BY WorkflowAssumption
<1>3. QED
  BY <1>1, <1>2, FS_Subset, FS_CardinalityType

\* Neither more rows nor more insertions of an alarm.
LEMMA FewerKeeps ==
  ASSUME DuplicatesBounded,
         NEW m \in Messages, OpenRows(m)' \subseteq OpenRows(m), Inserting(m)' \subseteq Inserting(m)
  PROVE  Cardinality(OpenRows(m)') + Cardinality(Inserting(m)') <= Cardinality(Threads)
<1>1. Cardinality(OpenRows(m)) + Cardinality(Inserting(m)) <= Cardinality(Threads)
  BY DEF DuplicatesBounded, OpenRows
<1>2. /\ IsFiniteSet(OpenRows(m)) /\ Cardinality(OpenRows(m)) \in Nat
      /\ IsFiniteSet(Inserting(m)) /\ Cardinality(Inserting(m)) \in Nat /\ Cardinality(Threads) \in Nat
  BY FiniteRows
<1> HIDE DEF OpenRows, Inserting
<1>3. Cardinality(OpenRows(m)') <= Cardinality(OpenRows(m)) /\ IsFiniteSet(OpenRows(m)')
  BY <1>2, FS_Subset
<1>4. Cardinality(Inserting(m)') <= Cardinality(Inserting(m)) /\ IsFiniteSet(Inserting(m)')
  BY <1>2, FS_Subset
<1>5. Cardinality(OpenRows(m)') \in Nat /\ Cardinality(Inserting(m)') \in Nat
  BY <1>3, <1>4, FS_CardinalityType
<1>6. QED
  BY <1>1, <1>2, <1>3, <1>4, <1>5

LEMMA KeptRowsFewer ==
  ASSUME RowsKept, NEW m
  PROVE  OpenRows(m)' \subseteq OpenRows(m)
BY DEF RowsKept, OpenRows

LEMMA OpenedRows ==
  ASSUME WorkflowInv, NEW k \in Kinds, OpenAlert(k), NEW m
  PROVE  IF m = k THEN OpenRows(m)' \subseteq OpenRows(m) \cup {NewSlot}
         ELSE OpenRows(m)' \subseteq OpenRows(m)
<1> DEFINE n == NewSlot
<1>1. /\ n \in Slots /\ alerts'[n] = NewAlert(k)
      /\ \A i \in Slots : i # n => alerts'[i] = alerts[i]
  BY OpenAlertType
<1>2. alerts'[n].kind = k
  BY <1>1 DEF NewAlert
<1> HIDE DEF n
<1>3. IF m = k THEN OpenRows(m)' \subseteq OpenRows(m) \cup {n} ELSE OpenRows(m)' \subseteq OpenRows(m)
  BY <1>1, <1>2 DEF OpenRows
<1>4. QED
  BY <1>3 DEF n

\* A request that does not go on to insert is in no more insertions than before.
LEMMA MovedInserting ==
  ASSUME WorkflowInv, NEW t \in Threads, NEW r, RequestStep(t, r), NEW m
  PROVE  /\ r.at # "insert" => Inserting(m)' \subseteq Inserting(m) \ {t}
         /\ m # (CHOOSE x \in r.alarms : TRUE) => Inserting(m)' \subseteq Inserting(m)
<1>1. page'[t] = r /\ \A u \in Threads : u # t => page'[u] = page[u]
  BY RequestMoves DEF RequestStep
<1>2. QED
  BY <1>1 DEF Inserting

LEMMA DuplicatesNext == DuplicatesInv /\ [WorkflowNext]_workflowVars => DuplicatesInv'
<1> SUFFICES ASSUME DuplicatesInv, [WorkflowNext]_workflowVars, NEW m \in Messages
             PROVE  Cardinality(OpenRows(m)') + Cardinality(Inserting(m)') <= Cardinality(Threads)
  BY WorkflowInvNext DEF DuplicatesInv, DuplicatesBounded, OpenRows
<1>1. WorkflowInv /\ DuplicatesBounded
  BY DEF DuplicatesInv
<1>2. CASE page' = page /\ alerts' = alerts
  <2>1. OpenRows(m)' \subseteq OpenRows(m) /\ Inserting(m)' \subseteq Inserting(m)
    BY <1>2 DEF OpenRows, Inserting
  <2>2. QED
    BY <1>1, <2>1, FewerKeeps
<1>3. ASSUME NEW t \in Threads, NEW r, RequestStep(t, r), r.at # "insert", alerts' = alerts
      PROVE  Cardinality(OpenRows(m)') + Cardinality(Inserting(m)') <= Cardinality(Threads)
  <2>1. OpenRows(m)' \subseteq OpenRows(m)
    BY <1>3 DEF OpenRows
  <2>2. Inserting(m)' \subseteq Inserting(m)
    BY <1>1, <1>3, MovedInserting
  <2>3. QED
    BY <1>1, <2>1, <2>2, FewerKeeps
<1>4. ASSUME NEW t \in Threads, LookUp(t)
      PROVE  Cardinality(OpenRows(m)') + Cardinality(Inserting(m)') <= Cardinality(Threads)
  <2>1. PICK r : /\ RequestStep(t, r) /\ UNCHANGED <<alerts, pages>>
                 /\ r.at = "insert" => OpenRows(CHOOSE x \in r.alarms : TRUE) = {}
    BY <1>1, <1>4, RequestNext
  <2>2. CASE r.at # "insert"
    BY <1>3, <2>1, <2>2
  <2>3. CASE r.at = "insert" /\ m = CHOOSE x \in r.alarms : TRUE
    <3>1. OpenRows(m)' = {}
      BY <2>1, <2>3 DEF OpenRows
    <3>2. Cardinality(OpenRows(m)') = 0
      BY <3>1, FS_EmptySet
    <3>3. Inserting(m)' \in SUBSET Threads
      BY DEF Inserting
    <3>4. /\ Cardinality(Inserting(m)') <= Cardinality(Threads)
          /\ Cardinality(Inserting(m)') \in Nat /\ Cardinality(Threads) \in Nat
      BY <3>3, FiniteRows, FS_Subset, FS_CardinalityType
    <3>5. QED
      BY <3>2, <3>4
  <2>4. CASE m # CHOOSE x \in r.alarms : TRUE
    <3>1. OpenRows(m)' \subseteq OpenRows(m)
      BY <2>1 DEF OpenRows
    <3>2. Inserting(m)' \subseteq Inserting(m)
      BY <1>1, <2>1, <2>4, MovedInserting
    <3>3. QED
      BY <1>1, <3>1, <3>2, FewerKeeps
  <2>5. QED
    BY <2>2, <2>3, <2>4
<1>5. ASSUME NEW t \in Threads, CreateAlert(t)
      PROVE  Cardinality(OpenRows(m)') + Cardinality(Inserting(m)') <= Cardinality(Threads)
  <2> DEFINE k == CHOOSE x \in page[t].alarms : TRUE
  <2>1. PICK r : RequestStep(t, r) /\ r.at # "insert"
    BY <1>1, <1>5, RequestNext
  <2>2. Inserting(m)' \subseteq Inserting(m) \ {t} /\ k \in Kinds /\ page[t].at = "insert"
    <3>1. page[t].alarms \subseteq Messages /\ page[t].alarms # {} /\ page[t].at = "insert"
      BY <1>1, <1>5 DEF CreateAlert, WorkflowInv, WorkflowTypeOK
    <3>2. k \in Messages
      BY <3>1
    <3>3. QED
      BY <1>1, <2>1, <3>1, <3>2, MovedInserting DEF Kinds
  <2>3. OpenAlert(k) \/ UNCHANGED <<alerts, pages>>
    BY <1>1, <1>5, CreateAlertRows
  <2>4. k = m => t \in Inserting(m)
    BY <2>2 DEF Inserting
  <2> HIDE DEF k
  <2>5. CASE UNCHANGED <<alerts, pages>>
    BY <1>3, <2>1, <2>5
  <2>6. CASE OpenAlert(k) /\ k # m
    <3>1. OpenRows(m)' \subseteq OpenRows(m)
      BY <1>1, <2>2, <2>6, OpenedRows
    <3>2. QED
      BY <1>1, <2>2, <3>1, FewerKeeps
  <2>7. CASE OpenAlert(k) /\ k = m
    <3>1. OpenRows(m)' \subseteq OpenRows(m) \cup {NewSlot}
      BY <1>1, <2>2, <2>7, OpenedRows
    <3>2. /\ IsFiniteSet(OpenRows(m)) /\ Cardinality(OpenRows(m)) \in Nat
          /\ IsFiniteSet(Inserting(m)) /\ Cardinality(Inserting(m)) \in Nat
          /\ Cardinality(Threads) \in Nat
          /\ Cardinality(OpenRows(m)) + Cardinality(Inserting(m)) <= Cardinality(Threads)
      BY <1>1, FiniteRows DEF DuplicatesBounded, OpenRows
    <3>3. t \in Inserting(m)
      BY <2>4, <2>7
    <3> HIDE DEF OpenRows, Inserting
    <3>4. /\ IsFiniteSet(OpenRows(m) \cup {NewSlot})
          /\ Cardinality(OpenRows(m) \cup {NewSlot})
                \in {Cardinality(OpenRows(m)), Cardinality(OpenRows(m)) + 1}
      BY <3>2, FS_AddElement
    <3>5. Cardinality(OpenRows(m)') <= Cardinality(OpenRows(m) \cup {NewSlot}) /\ IsFiniteSet(OpenRows(m)')
      BY <3>1, <3>4, FS_Subset
    <3>6. IsFiniteSet(Inserting(m) \ {t}) /\ Cardinality(Inserting(m) \ {t}) = Cardinality(Inserting(m)) - 1
      BY <3>2, <3>3, FS_RemoveElement
    <3>7. Cardinality(Inserting(m)') <= Cardinality(Inserting(m) \ {t}) /\ IsFiniteSet(Inserting(m)')
      BY <2>2, <3>6, FS_Subset
    <3>8. Cardinality(OpenRows(m)') \in Nat /\ Cardinality(Inserting(m)') \in Nat
      BY <3>5, <3>7, FS_CardinalityType
    <3>9. QED
      BY <3>2, <3>4, <3>5, <3>6, <3>7, <3>8
  <2>8. QED
    BY <2>3, <2>5, <2>6, <2>7
<1>6. ASSUME RowsKept, page' = page
      PROVE  Cardinality(OpenRows(m)') + Cardinality(Inserting(m)') <= Cardinality(Threads)
  <2>1. Inserting(m)' \subseteq Inserting(m)
    BY <1>6 DEF Inserting
  <2>2. QED
    BY <1>1, <1>6, <2>1, KeptRowsFewer, FewerKeeps
<1>7. ASSUME NEW k \in JobKinds, JobOpens(k)
      PROVE  Cardinality(OpenRows(m)') + Cardinality(Inserting(m)') <= Cardinality(Threads)
  <2>1. OpenAlert(k) /\ page' = page /\ k \in Kinds /\ k # m
    BY <1>7, WorkflowAssumption DEF JobOpens, Kinds
  <2>2. OpenRows(m)' \subseteq OpenRows(m)
    BY <1>1, <2>1, OpenedRows
  <2>3. Inserting(m)' \subseteq Inserting(m)
    BY <2>1 DEF Inserting
  <2>4. QED
    BY <1>1, <2>2, <2>3, FewerKeeps
<1>8. CASE MarkEscalated
  <2>1. page' = page
    BY <1>8 DEF MarkEscalated
  <2>2. alerts \in Rows /\ \A i \in escalate.ids : alerts[i] \in Alert
    BY <1>1, RealIsAlert DEF WorkflowInv, WorkflowTypeOK, HeldIsFresh
  <2>3. ASSUME NEW i \in Slots PROVE alerts'[i].open = alerts[i].open /\ alerts'[i].kind = alerts[i].kind
    <3>1. CASE alerts'[i] = [alerts[i] EXCEPT !.escalated = TRUE] /\ i \in escalate.ids
      BY <2>2, <3>1, FieldSet DEF Alert
    <3>2. CASE alerts'[i] = alerts[i]
      BY <3>2
    <3>3. QED
      BY <1>8, <3>1, <3>2 DEF MarkEscalated
  <2>4. OpenRows(m)' \subseteq OpenRows(m)
    BY <2>3 DEF OpenRows
  <2>5. Inserting(m)' \subseteq Inserting(m)
    BY <2>1 DEF Inserting
  <2>6. QED
    BY <1>1, <2>4, <2>5, FewerKeeps
<1>9. CASE Stop
  <2>1. OpenRows(m)' \subseteq OpenRows(m)
    BY <1>9 DEF Stop, OpenRows
  <2>2. \A t \in Threads : page'[t].at = "idle"
    BY <1>9 DEF Stop, Idle
  <2>3. Inserting(m)' \subseteq Inserting(m)
    BY <2>2 DEF Inserting
  <2>4. QED
    BY <1>1, <2>1, <2>3, FewerKeeps
<1>10. ASSUME NEW i \in Slots, ResolveAlert(i) \/ SetAcknowledged(i) \/ BecomeOverdue(i)
       PROVE  RowsKept /\ page' = page
  BY <1>1, <1>10, EndpointsKeepRows DEF ResolveAlert, SetAcknowledged, BecomeOverdue
<1>11. ASSUME NEW k \in JobKinds, JobResolves(k) PROVE RowsKept /\ page' = page
  BY <1>1, <1>11, JobResolvesKeepsRows DEF JobResolves
<1>12. ASSUME NEW t \in Threads, NEW A \in SUBSET Messages, ReadTriggers(t, A)
       PROVE  Cardinality(OpenRows(m)') + Cardinality(Inserting(m)') <= Cardinality(Threads)
  <2>1. RequestStep(t, [at |-> "alarms", alarms |-> A]) /\ alerts' = alerts
    BY <1>1, <1>12, RequestNext
  <2>2. QED
    BY <1>3, <2>1
<1>13. ASSUME NEW t \in Threads, ReadActive(t)
       PROVE  Cardinality(OpenRows(m)') + Cardinality(Inserting(m)') <= Cardinality(Threads)
  <2>1. PICK r : RequestStep(t, r) /\ r.at # "insert" /\ UNCHANGED <<alerts, pages>>
    BY <1>1, <1>13, RequestNext
  <2>2. QED
    BY <1>3, <2>1
<1>14. CASE UNCHANGED workflowVars
  BY <1>2, <1>14 DEF workflowVars
<1>15. CASE ReadCandidates \/ SendEscalation
  BY <1>2, <1>15 DEF ReadCandidates, SendEscalation
<1>16. QED
  BY <1>4, <1>5, <1>6, <1>7, <1>8, <1>9, <1>10, <1>11, <1>12, <1>13, <1>14, <1>15
  DEF WorkflowNext, Escalate

\* For any number of alarms and requests, an alarm never has more open rows
\* than there are requests (nms/db.py:1282-1311).
THEOREM DuplicatesTheorem == WorkflowSpec => []DuplicatesBounded
<1>1. WorkflowInit => DuplicatesInv
  <2> SUFFICES ASSUME WorkflowInit, NEW m \in Messages
               PROVE  Cardinality(OpenRows(m)) + Cardinality(Inserting(m)) <= Cardinality(Threads)
    BY WorkflowInvInit DEF DuplicatesInv, DuplicatesBounded, OpenRows
  <2>1. OpenRows(m) = {} /\ Inserting(m) = {}
    BY DEF WorkflowInit, OpenRows, Inserting, NoAlert, Idle
  <2>2. QED
    BY <2>1, FS_EmptySet, FiniteRows
<1>2. DuplicatesInv => DuplicatesBounded
  BY DEF DuplicatesInv
<1>3. QED
  BY <1>1, <1>2, DuplicatesNext, PTL DEF WorkflowSpec

-----------------------------------------------------------------------------
(* What the instance checks together                                        *)

\* Messages and rows of an alert are counted by lost runs and by requests, for
\* any number of each (nms/db.py:1282-1420, app.py:1096-1118).
THEOREM CountedTheorem == WorkflowSpec => []AlertsAreCounted
<1>1. PagedOnce /\ DuplicatesBounded => AlertsAreCounted
  BY DEF AlertsAreCounted
<1>2. QED
  BY <1>1, PagedTheorem, DuplicatesTheorem, PTL

\* Monitors are neither doubled beyond the requests nor mixed up with deleted
\* ones, for any number of each (app.py:4880-4935).
THEOREM ApartTheorem == ServiceSpec => []MonitorsStayApart
<1>1. NewServiceHasNoPast /\ MonitorsBounded => MonitorsStayApart
  BY DEF MonitorsStayApart
<1>2. QED
  BY <1>1, NewServiceTheorem, MonitorsTheorem, PTL
=============================================================================
