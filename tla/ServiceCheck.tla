---------------------------- MODULE ServiceCheck ------------------------------
(***************************************************************************)
(* Service monitors (app.py, nms/service_checks.py): rows of the table     *)
(* services and of service_history, the requests that add and delete a     *)
(* monitor, and the runs of check_services, which load the rows, probe     *)
(* them without a lock and write the results by id under db_lock.  Runs of *)
(* the job and of the manual trigger overlap.                              *)
(*                                                                         *)
(* Init chooses one target and how it is probed; the rows of the table are *)
(* the monitors of that target.  Ids are given by AUTOINCREMENT.           *)
(***************************************************************************)
EXTENDS Integers, FiniteSets

CONSTANTS
    Checkers,     \* runs of check_services: the job's, those of requests
    Adders,       \* requests that add a monitor
    Targets,      \* how the target may be probed, a subset of Target
    MaxServices,  \* bound on the ids given
    MaxRefused    \* bound on writes SQLite refuses

Addresses == {"a", "b"}
Target    == [kind : {"tcp", "icmp"}, expected : {"none"}]
             \cup [kind : {"http"}, expected : {"none", "keyword"}]
             \cup [kind : {"dns"}, expected : Addresses \cup {"none"}]

ASSUME ServiceAssumption ==
    /\ MaxServices \in Nat /\ MaxRefused \in Nat
    /\ Targets \subseteq Target
    /\ IsFiniteSet(Adders)

VARIABLES
    target,     \* how the target is probed
    reply,      \* what it answers at the moment
    services,   \* status by id, "absent" without a row
    given,      \* the highest id given so far
    past,       \* ids that have rows in service_history
    checks,     \* runs of check_services
    adding,     \* requests that have found no such monitor
    refused     \* history: writes refused so far

serviceVars == <<target, reply, services, given, past, checks, adding, refused>>

Ids    == 1..MaxServices
Exists == {i \in Ids : services[i] # "absent"}

\* Answers that the probe of each kind tells apart.
Replies(k) ==
    CASE k = "tcp"  -> {"refused", "accepted"}
      [] k = "icmp" -> {0, 50, 100}                \* loss in percent
      [] k = "http" -> [code : {0}, found : {FALSE}]
                       \cup [code : {200, 404}, found : BOOLEAN]
      [] k = "dns"  -> SUBSET Addresses

\* check_tcp_service, check_icmp_service, check_http_service, check_dns_service
Works(t, r) ==
    CASE t.kind = "tcp"  -> r = "accepted"
      [] t.kind = "icmp" -> r < 100
      [] t.kind = "http" -> r.code \in 1..399 /\ (t.expected = "keyword" => r.found)
      [] t.kind = "dns"  -> r # {} /\ (t.expected # "none" => t.expected \in r)

\* run_check
StatusOf(t, r) == IF Works(t, r) THEN "ONLINE" ELSE "OFFLINE"

NoCheck == [at |-> "idle", ids |-> {}, status |-> "PENDING"]

ServiceTypeOK ==
    /\ target \in Targets
    /\ reply \in Replies(target.kind)
    /\ services \in [Ids -> {"absent", "PENDING", "ONLINE", "OFFLINE"}]
    /\ given \in 0..MaxServices
    /\ past \subseteq Ids
    /\ checks \in [Checkers -> [at : {"idle", "loaded", "probed"}, ids : SUBSET Ids,
                                status : {"PENDING", "ONLINE", "OFFLINE"}]]
    /\ adding \subseteq Adders
    /\ refused \in 0..MaxRefused

ServiceInit ==
    /\ target \in Targets
    /\ reply \in Replies(target.kind)
    /\ services = [i \in Ids |-> "absent"]
    /\ given = 0
    /\ past = {}
    /\ checks = [c \in Checkers |-> NoCheck]
    /\ adding = {}
    /\ refused = 0

-----------------------------------------------------------------------------
(* The target                                                               *)

ReplyChanges ==
    /\ reply' \in Replies(target.kind) \ {reply}
    /\ UNCHANGED <<target, services, given, past, checks, adding, refused>>

-----------------------------------------------------------------------------
(* add_service_api and delete_service_api                                   *)

\* Mutant: a monitor is inserted whether or not there is one.
LookForServiceBlindly(a) ==
    /\ a \notin adding
    /\ adding' = adding \cup {a}
    /\ UNCHANGED <<target, reply, services, given, past, checks, refused>>

\* The look-up for the same monitor.
LookForService(a) ==
    /\ a \notin adding
    /\ Exists = {}
    /\ adding' = adding \cup {a}
    /\ UNCHANGED <<target, reply, services, given, past, checks, refused>>

\* Mutant: the id of a row is one more than the highest in the table.
NextIdOfTable == 1 + Cardinality(Exists)
NextId == given + 1

InsertService(a) ==
    /\ a \in adding
    /\ NextId \in Ids
    /\ services' = [services EXCEPT ![NextId] = "PENDING"]
    /\ given' = NextId
    /\ adding' = adding \ {a}
    /\ UNCHANGED <<target, reply, past, checks, refused>>

\* Row and history go in one transaction.
DeleteService(i) ==
    /\ i \in Exists
    /\ services' = [services EXCEPT ![i] = "absent"]
    /\ past' = past \ {i}
    /\ UNCHANGED <<target, reply, given, checks, adding, refused>>

-----------------------------------------------------------------------------
(* check_services                                                           *)

LoadServices(c) ==
    /\ checks[c].at = "idle"
    /\ Exists # {}
    /\ checks' = [checks EXCEPT ![c] = [at |-> "loaded", ids |-> Exists, status |-> "PENDING"]]
    /\ UNCHANGED <<target, reply, services, given, past, adding, refused>>

\* The worker threads probe what was loaded.
ProbeServices(c) ==
    /\ checks[c].at = "loaded"
    /\ checks' = [checks EXCEPT ![c] =
          [at |-> "probed", ids |-> checks[c].ids, status |-> StatusOf(target, reply)]]
    /\ UNCHANGED <<target, reply, services, given, past, adding, refused>>

\* Mutant: only rows that were never checked are written.
StoredRowsOnce(c) == [i \in Ids |-> IF i \in checks[c].ids /\ services[i] = "PENDING"
                                    THEN checks[c].status ELSE services[i]]
StoredRows(c) ==
    [i \in Ids |-> IF i \in checks[c].ids \cap Exists THEN checks[c].status ELSE services[i]]

\* UPDATE by id, one history row for each result; a refused UPDATE or commit
\* takes everything back, a refused history does not.
StoreResults(c) ==
    /\ checks[c].at = "probed"
    /\ \/ /\ services' = StoredRows(c)
          /\ past' = past \cup checks[c].ids
          /\ UNCHANGED refused
       \/ /\ refused < MaxRefused /\ refused' = refused + 1
          /\ services' \in {services, StoredRows(c)}
          /\ UNCHANGED past
    /\ checks' = [checks EXCEPT ![c] = NoCheck]
    /\ UNCHANGED <<target, reply, given, adding>>

Check(c) == LoadServices(c) \/ ProbeServices(c) \/ StoreResults(c)

ServiceNext ==
    \/ ReplyChanges
    \/ \E a \in Adders : LookForService(a) \/ InsertService(a)
    \/ \E i \in Ids : DeleteService(i)
    \/ \E c \in Checkers : Check(c)

ServiceSpec == ServiceInit /\ [][ServiceNext]_serviceVars

-----------------------------------------------------------------------------
(* A monitor that was just added has no past: a run that outlives the      *)
(* deletion of a monitor writes history for the id, and no later monitor   *)
(* is given that id (app.py:925-935, 4900-4935; the ids are AUTOINCREMENT).*)
NewServiceHasNoPast ==
    \A i \in Ids : i > given =>
        /\ i \notin past
        /\ \A c \in Checkers : i \notin checks[c].ids

(* The look-up and the INSERT are two steps of a request, and no index     *)
(* forbids the second row: at worst there is one monitor for each request  *)
(* that was in between (app.py:4880-4907).                                 *)
MonitorsBounded == Cardinality(Exists) + Cardinality(adding) <= Cardinality(Adders)

(* A monitor is not doubled and not mixed up with one that was deleted     *)
(* (app.py:4880-4935).                                                     *)
MonitorsStayApart == NewServiceHasNoPast /\ MonitorsBounded

(* A monitor whose target goes on answering the same is shown with what    *)
(* that answer means, although a run may write what it saw before          *)
(* (app.py:885-951, nms/service_checks.py:178-207).                        *)
StatusConverges ==
    \A s \in {"ONLINE", "OFFLINE"} :
        <>[](StatusOf(target, reply) = s)
            => <>[](\A i \in Exists : services[i] = s)
=============================================================================
