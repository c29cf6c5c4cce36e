---------------------------- MODULE AlertWorkflow -----------------------------
(***************************************************************************)
(* The table alert_history (nms/db.py) and those who write it one row at a *)
(* time: get_or_create_alert for the alarms of the trigger page, the       *)
(* resolve and workflow endpoints, and escalate_unacknowledged_alerts,     *)
(* which reads the overdue alerts, sends one message and marks them        *)
(* afterwards (app.py).  None of these takes db_lock.  The interface poll  *)
(* (IfaceAlarm) appears as the job that opens and resolves alerts of       *)
(* JobKinds in one step.                                                   *)
(*                                                                         *)
(* An alarm of the trigger page is named by its message.  Rows live in     *)
(* Slots; a row that is resolved and that no running job remembers makes   *)
(* room for a new one, and an insertion that finds no room is refused.     *)
(***************************************************************************)
EXTENDS Integers, FiniteSets

CONSTANTS
    Slots,       \* rows of alert_history that are followed at a time
    Messages,    \* alarms the trigger page may compute
    JobKinds,    \* alerts the interface poll opens and resolves
    Threads,     \* requests of the trigger page
    PageLimit,   \* alerts one escalation message names (20)
    MaxLost      \* bound on runs of the escalation job that do not reach their mark

ASSUME WorkflowAssumption ==
    /\ PageLimit \in Nat /\ MaxLost \in Nat
    /\ Messages \cap JobKinds = {} /\ "none" \notin Messages \cup JobKinds
    /\ IsFiniteSet(Slots) /\ IsFiniteSet(Threads)

VARIABLES
    alerts,    \* rows of alert_history
    page,      \* requests of the trigger page
    escalate,  \* the escalation job: the ids it has read, and whether it sent
    pages,     \* history: messages that named the alert
    lost,      \* history: runs of the job that did not mark
    crowded    \* history: more candidates than a message names

workflowVars == <<alerts, page, escalate, pages, lost, crowded>>

Kinds   == JobKinds \cup Messages
Alert   == [kind : Kinds, open : BOOLEAN, acknowledged : BOOLEAN,
            escalated : BOOLEAN, overdue : BOOLEAN]
NoAlert == [kind |-> "none", open |-> FALSE, acknowledged |-> FALSE,
            escalated |-> FALSE, overdue |-> FALSE]
Rows    == [Slots -> Alert \cup {NoAlert}]

NewAlert(k) == [kind |-> k, open |-> TRUE, acknowledged |-> FALSE,
                escalated |-> FALSE, overdue |-> FALSE]
\* Mutant: an acknowledged alert counts for none.
OpenRowsUnacknowledged(k) ==
    {i \in Slots : alerts[i].open /\ alerts[i].kind = k /\ ~alerts[i].acknowledged}
OpenRows(k) == {i \in Slots : alerts[i].open /\ alerts[i].kind = k}

\* Rows that make room; a closed one whose id the escalation job holds does not.
Free    == {i \in Slots : ~alerts[i].open /\ i \notin escalate.ids}
NewSlot == CHOOSE i \in Free : TRUE

Idle      == [at |-> "idle", alarms |-> {}]
NoJob     == [sent |-> FALSE, ids |-> {}]

WorkflowTypeOK ==
    /\ alerts \in Rows
    /\ page \in [Threads -> [at : {"idle", "alarms", "todo", "insert"},
                             alarms : SUBSET Messages]]
    /\ escalate \in [sent : BOOLEAN, ids : SUBSET Slots]
    /\ pages \in [Slots -> Nat]
    /\ lost \in 0..MaxLost
    /\ crowded \in BOOLEAN

WorkflowInit ==
    /\ alerts = [i \in Slots |-> NoAlert]
    /\ page = [t \in Threads |-> Idle]
    /\ escalate = NoJob
    /\ pages = [i \in Slots |-> 0]
    /\ lost = 0
    /\ crowded = FALSE

-----------------------------------------------------------------------------
(* get_triggers: the end of the trigger page                                *)

OpenAlert(k) ==
    /\ Free # {}
    /\ alerts' = [alerts EXCEPT ![NewSlot] = NewAlert(k)]
    /\ pages' = [pages EXCEPT ![NewSlot] = 0]

\* The alarms as memory and tables have them at that moment.
ReadTriggers(t, alarms) ==
    /\ page[t] = Idle
    /\ alarms # {}
    /\ page' = [page EXCEPT ![t] = [at |-> "alarms", alarms |-> alarms]]
    /\ UNCHANGED <<alerts, escalate, pages, lost, crowded>>

\* get_active_alerts: alarms that have an active row are not looked up again.
ReadActive(t) ==
    /\ page[t].at = "alarms"
    /\ page' = [page EXCEPT
          ![t] = LET todo == {m \in page[t].alarms : OpenRows(m) = {}}
                 IN IF todo = {} THEN Idle ELSE [at |-> "todo", alarms |-> todo]]
    /\ UNCHANGED <<alerts, escalate, pages, lost, crowded>>

\* The SELECT of get_or_create_alert, for one alarm after the other.
LookUp(t) ==
    /\ page[t].at = "todo"
    /\ LET m == CHOOSE m \in page[t].alarms : TRUE
       IN page' = [page EXCEPT ![t] =
             IF OpenRows(m) = {} THEN [at |-> "insert", alarms |-> page[t].alarms]
             ELSE IF page[t].alarms = {m} THEN Idle
             ELSE [at |-> "todo", alarms |-> page[t].alarms \ {m}]]
    /\ UNCHANGED <<alerts, escalate, pages, lost, crowded>>

\* Its INSERT, which does not look again, and may be refused.
CreateAlert(t) ==
    /\ page[t].at = "insert"
    /\ LET m == CHOOSE m \in page[t].alarms : TRUE
       IN /\ page' = [page EXCEPT ![t] =
                IF page[t].alarms = {m} THEN Idle
                ELSE [at |-> "todo", alarms |-> page[t].alarms \ {m}]]
          /\ OpenAlert(m) \/ UNCHANGED <<alerts, pages>>
    /\ UNCHANGED <<escalate, lost, crowded>>

-----------------------------------------------------------------------------
(* The endpoints of one alert                                               *)

\* resolve_alert: an alert resolved before is resolved again.
ResolveAlert(i) ==
    /\ alerts[i] # NoAlert
    /\ alerts' = [alerts EXCEPT ![i].open = FALSE]
    /\ UNCHANGED <<page, escalate, pages, lost, crowded>>

\* update_alert_workflow: acknowledge an alert, or take it back.
SetAcknowledged(i) ==
    /\ alerts[i] # NoAlert
    /\ alerts' = [alerts EXCEPT ![i].acknowledged = ~@]
    /\ UNCHANGED <<page, escalate, pages, lost, crowded>>

\* The fifteenth minute of an alert.
BecomeOverdue(i) ==
    /\ alerts[i].open /\ ~alerts[i].overdue
    /\ alerts' = [alerts EXCEPT ![i].overdue = TRUE]
    /\ UNCHANGED <<page, escalate, pages, lost, crowded>>

-----------------------------------------------------------------------------
(* escalate_unacknowledged_alerts                                           *)

Overdue(i) ==
    /\ alerts[i].open /\ alerts[i].overdue
    /\ ~alerts[i].acknowledged /\ ~alerts[i].escalated

\* Mutant: whether an alert has been escalated is not looked at.
CandidatesAgain ==
    {i \in Slots : alerts[i].open /\ alerts[i].overdue /\ ~alerts[i].acknowledged}
\* Mutant: alerts of an interface are escalated by the interface poll only.
CandidatesOfPage == {i \in Slots : Overdue(i) /\ alerts[i].kind \in Messages}
Candidates == {i \in Slots : Overdue(i)}

ReadCandidates ==
    /\ escalate = NoJob
    /\ Candidates # {}
    /\ escalate' = [sent |-> FALSE, ids |-> Candidates]
    /\ crowded' = (crowded \/ Cardinality(Candidates) > PageLimit)
    /\ UNCHANGED <<alerts, page, pages, lost>>

\* The message names the first of them; it is never known to have failed.
SendEscalation ==
    /\ escalate.ids # {} /\ ~escalate.sent
    /\ escalate' = [escalate EXCEPT !.sent = TRUE]
    /\ \E named \in SUBSET escalate.ids :
          /\ \/ Cardinality(escalate.ids) <= PageLimit /\ named = escalate.ids
             \/ Cardinality(escalate.ids) > PageLimit /\ Cardinality(named) = PageLimit
          /\ pages' = [i \in Slots |-> IF i \in named THEN pages[i] + 1 ELSE pages[i]]
    /\ UNCHANGED <<alerts, page, lost, crowded>>

LoseRun == lost < MaxLost /\ lost' = lost + 1

\* All of them are marked, named or not.
MarkEscalated ==
    /\ escalate.sent
    /\ \/ /\ alerts' = [i \in Slots |->
                IF i \in escalate.ids THEN [alerts[i] EXCEPT !.escalated = TRUE]
                ELSE alerts[i]]
          /\ UNCHANGED lost
       \/ LoseRun /\ UNCHANGED alerts
    /\ escalate' = NoJob
    /\ UNCHANGED <<page, pages, crowded>>

Escalate == ReadCandidates \/ SendEscalation \/ MarkEscalated

\* A restart ends requests and jobs where they are.
Stop ==
    /\ page' = [t \in Threads |-> Idle]
    /\ escalate' = NoJob
    /\ IF escalate = NoJob THEN UNCHANGED lost ELSE LoseRun
    /\ UNCHANGED <<alerts, pages, crowded>>

\* The interface poll: one open alert of a kind at most, all of it resolved.
JobOpens(k) ==
    /\ OpenRows(k) = {}
    /\ OpenAlert(k)
    /\ UNCHANGED <<page, escalate, lost, crowded>>

JobResolves(k) ==
    /\ OpenRows(k) # {}
    /\ alerts' = [i \in Slots |-> IF i \in OpenRows(k)
                                  THEN [alerts[i] EXCEPT !.open = FALSE] ELSE alerts[i]]
    /\ UNCHANGED <<page, escalate, pages, lost, crowded>>

WorkflowNext ==
    \/ \E t \in Threads, alarms \in SUBSET Messages : ReadTriggers(t, alarms)
    \/ \E t \in Threads : ReadActive(t) \/ LookUp(t) \/ CreateAlert(t)
    \/ \E i \in Slots : ResolveAlert(i) \/ SetAcknowledged(i) \/ BecomeOverdue(i)
    \/ \E k \in JobKinds : JobOpens(k) \/ JobResolves(k)
    \/ Escalate
    \/ Stop

WorkflowSpec == WorkflowInit /\ [][WorkflowNext]_workflowVars

-----------------------------------------------------------------------------
(* No alert is in more escalation messages than one and those whose mark   *)
(* was refused or died with the process, and every escalated alert was in  *)
(* one as long as no message had too many to name: the job sends before it *)
(* marks, without a lock, while rows are acknowledged, resolved and        *)
(* created (app.py:1096-1118, nms/db.py:1406-1420).                        *)
PagedOnce ==
    \A i \in Slots :
        /\ pages[i] <= 1 + lost
        /\ alerts[i].escalated /\ ~crowded => pages[i] > 0

(* Two requests may find no active row of the same alarm and insert one    *)
(* each; there are never more than requests, because one that looks up     *)
(* later finds those (nms/db.py:1282-1311, app.py:5797-5834).              *)
Inserting(m) == {t \in Threads : page[t].at = "insert"
                    /\ m = CHOOSE x \in page[t].alarms : TRUE}
DuplicatesBounded ==
    \A m \in Messages :
        Cardinality({i \in Slots : alerts[i].open /\ alerts[i].kind = m})
        + Cardinality(Inserting(m)) <= Cardinality(Threads)

(* No alert is told of or stored more often than runs were lost or         *)
(* requests met (nms/db.py:1282-1420, app.py:1096-1118).                   *)
AlertsAreCounted == PagedOnce /\ DuplicatesBounded

(* An alert that stays unresolved and unacknowledged for fifteen minutes   *)
(* is escalated, whatever else the table is used for (app.py:1096-1118).   *)
OverdueIsEscalated == \A i \in Slots : Overdue(i) ~> ~Overdue(i)
=============================================================================
