------------------------------ MODULE IfaceAlarm ------------------------------
(***************************************************************************)
(* The interfaces of one MikroTik host (nms/mikrotik_poll.py,              *)
(* nms/mikrotik_routes.py) and their alerts.  poll_mikrotik_ifaces loads   *)
(* the monitored rows, asks the device without a lock and then, under      *)
(* db_lock, goes through the ports in one transaction: memory first, then  *)
(* the row, its alert, and an alert for the rate.  It runs as a job and as *)
(* a thread that a discovery starts.  An interface_down alert is written   *)
(* by log_alert through a second connection, which waits in vain as long   *)
(* as the transaction of the first is writing.                             *)
(*                                                                         *)
(* To SQLite the transaction is "begun" once a statement was refused,      *)
(* "pinned" to what it reads once it has read in that state, and           *)
(* "writing" once one was accepted; pinned to a state that others have     *)
(* changed since (stale) it is refused everything.  While it is writing,   *)
(* nobody else writes.                                                     *)
(***************************************************************************)
EXTENDS Integers

CONSTANTS
    Ports,       \* interfaces of the host, by their index
    Handled,     \* ports whose row is deleted or switched off
    Pollers,     \* "job", and "thread" for the one a discovery starts
    MaxMishaps   \* bound on refused statements and restarts

ASSUME PortAssumption ==
    /\ Ports \subseteq Nat
    /\ Handled \subseteq Ports
    /\ "job" \in Pollers /\ Pollers \subseteq {"job", "thread"}
    /\ MaxMishaps \in Nat

VARIABLES
    known,          \* rows of snmp_interfaces
    monitor,        \* those with monitor = 1
    oper,           \* their column oper
    open,           \* number of unresolved alerts of the host of each kind
    mt_iface_oper,  \* memory of the poll
    cooling,        \* ports whose mt_iface_tg is younger than the cooldown
    forget,         \* deleted ports whose memory the handler has yet to drop
    poll,           \* where a poll is and the ports it has loaded
    todo,           \* ports the holder of db_lock has yet to go through
    answer,         \* the operational status the first of them has answered
    txn,            \* what the transaction is to SQLite
    view,           \* the rows and alerts as it sees them
    stale,          \* have others written since it was pinned?
    drift,          \* history: ports whose row was written apart from the memory
    hushed,         \* history: an UP that left the interface_down alerts alone
    mishaps         \* refused statements and restarts

rows   == <<known, monitor>>
tables == <<rows, oper, open>>
polled == <<mt_iface_oper, cooling>>
turn   == <<todo, answer>>
trans  == <<txn, view, stale>>
portVars == <<tables, polled, forget, poll, turn, trans, drift, hushed, mishaps>>

Opers    == {"up", "down"}
Answers  == {"up", "down", "silent"}
Rates    == {"none", "low", "high"}   \* below iface_utilization_mbps, or not
AlertKinds == {"interface_down", "interface_utilization"}
Rest     == [at |-> "rest", ports |-> {}]
Tables   == [oper |-> oper, open |-> open]
Nothing  == [oper |-> [p \in Ports |-> "up"], open |-> [k \in AlertKinds |-> 0]]
Locked   == \E w \in Pollers : poll[w].at \in {"oper", "alert", "log", "rate"}
\* Mutant: a second connection may write beside the poll's.
WritableAlways == TRUE
Writable == txn # "writing"
MayFail  == mishaps < MaxMishaps

PortTypeOK ==
    /\ known \subseteq Ports /\ monitor \subseteq known
    /\ oper \in [Ports -> Opers]
    /\ open \in [AlertKinds -> Nat]
    /\ mt_iface_oper \in [Ports -> Opers \cup {"unset"}]
    /\ cooling \subseteq Ports /\ forget \subseteq Ports
    /\ poll \in [Pollers -> [at : {"rest", "due", "loaded", "oper", "alert", "log", "rate"},
                             ports : SUBSET Ports]]
    /\ todo \subseteq Ports
    /\ answer \in Answers
    /\ txn \in {"none", "begun", "pinned", "writing"}
    /\ view \in [oper : [Ports -> Opers], open : [AlertKinds -> Nat]]
    /\ stale \in BOOLEAN
    /\ drift \subseteq Ports
    /\ hushed \in BOOLEAN
    /\ mishaps \in 0..MaxMishaps

PortInit ==
    /\ known = {} /\ monitor = {}
    /\ oper = Nothing.oper /\ open = Nothing.open
    /\ mt_iface_oper = [p \in Ports |-> "unset"]
    /\ cooling = {} /\ forget = {}
    /\ poll = [w \in Pollers |-> Rest]
    /\ todo = {} /\ answer = "silent"
    /\ txn = "none" /\ view = Nothing /\ stale = FALSE
    /\ drift = {} /\ hushed = FALSE
    /\ mishaps = 0

-----------------------------------------------------------------------------
(* Statements of the poll's transaction                                     *)

Read     == IF txn \in {"pinned", "writing"} THEN view ELSE Tables

\* A SELECT; after a refused statement it pins what is read.
Select   == /\ txn' = IF txn = "begun" THEN "pinned" ELSE txn
            /\ view' = IF txn = "begun" THEN Tables ELSE view
            /\ UNCHANGED stale

Accept(new) == /\ ~stale
               /\ txn' = "writing" /\ view' = new
               /\ UNCHANGED <<stale, mishaps>>

Refuse   == /\ Writable
            /\ stale \/ MayFail
            /\ mishaps' = IF stale THEN mishaps ELSE mishaps + 1
            /\ txn' = IF txn = "none" THEN "begun" ELSE txn
            /\ UNCHANGED <<view, stale>>

\* Others write; only then may what the transaction has read be out of date.
Elsewhere == /\ Writable
             /\ stale' = (stale \/ txn = "pinned")
             /\ UNCHANGED <<txn, view>>

-----------------------------------------------------------------------------
(* poll_mikrotik_ifaces                                                     *)

Go(w, at) == poll' = [poll EXCEPT ![w] = [at |-> at, ports |-> @.ports]]

Load(w) ==
    /\ poll[w].at = (IF w = "job" THEN "rest" ELSE "due")
    /\ monitor # {} \/ w = "thread"
    /\ poll' = [poll EXCEPT ![w] = IF monitor = {} THEN Rest
                                  ELSE [at |-> "loaded", ports |-> monitor]]
    /\ UNCHANGED <<tables, polled, forget, turn, trans, drift, hushed, mishaps>>

\* db_lock is taken.  The answers were fetched before it; nothing depends on
\* when, and that of a port is chosen when its turn comes.
Begin(w) ==
    /\ poll[w].at = "loaded" /\ ~Locked
    /\ Go(w, "oper")
    /\ todo' = poll[w].ports
    /\ answer' \in Answers
    /\ UNCHANGED <<tables, polled, forget, trans, drift, hushed, mishaps>>

Port       == CHOOSE p \in todo : \A q \in todo : p <= q
Now        == IF answer = "down" THEN "down" ELSE "up"
Changed    == answer # "silent" /\ mt_iface_oper[Port] \notin {"unset", Now}

\* No answer, the same answer, or the first one, which the row does not get.
NoTransition(w) ==
    /\ poll[w].at = "oper" /\ todo # {} /\ ~Changed
    /\ Go(w, "rate")
    /\ IF answer = "silent" \/ mt_iface_oper[Port] # "unset"
       THEN UNCHANGED <<mt_iface_oper, drift>>
       ELSE /\ mt_iface_oper' = [mt_iface_oper EXCEPT ![Port] = Now]
            /\ drift' = IF Read.oper[Port] = Now THEN drift \ {Port} ELSE drift \cup {Port}
    /\ UNCHANGED <<tables, cooling, forget, turn, trans, hushed, mishaps>>

\* Mutant: within the cooldown the row is left as it is.
RowMovedLoud == IF Port \in cooling THEN Read ELSE [Read EXCEPT !.oper[Port] = Now]
RowMoved == [Read EXCEPT !.oper[Port] = Now]

\* The memory moves; the row follows unless the statement is refused.  Within
\* the cooldown neither a message nor an alert follows.
Transition(w) ==
    /\ poll[w].at = "oper" /\ todo # {} /\ Changed
    /\ mt_iface_oper' = [mt_iface_oper EXCEPT ![Port] = Now]
    /\ \/ Accept(RowMoved) /\ drift' = drift \ {Port}
       \/ Refuse /\ drift' = drift \cup {Port}
    /\ IF Port \in cooling
       THEN /\ Go(w, "log")
            /\ hushed' = (hushed \/ Now = "up")
            /\ UNCHANGED cooling
       ELSE /\ Go(w, "alert")
            /\ cooling' = cooling \cup {Port}
            /\ UNCHANGED hushed
    /\ UNCHANGED <<tables, forget, turn>>

\* log_alert writes through a connection of its own, and cannot while the
\* poll's transaction is writing.  Nobody looks at its answer.
LogDown(w) ==
    /\ poll[w].at = "alert" /\ Now = "down"
    /\ Go(w, "log")
    /\ \/ /\ Read.open["interface_down"] = 0 /\ Writable
          /\ open' = [open EXCEPT !["interface_down"] = @ + 1]
          /\ view' = IF txn = "begun" THEN Tables ELSE view
          /\ txn' = IF txn = "begun" THEN "pinned" ELSE txn
          /\ stale' = (txn' = "pinned")
       \/ Select /\ UNCHANGED open
    /\ UNCHANGED <<rows, oper, polled, forget, turn, drift, hushed, mishaps>>

\* Mutant: an UP resolves the alert for the rates.
DownResolvedOther == [Read EXCEPT !.open["interface_utilization"] = 0]
\* An UP resolves the interface_down alerts of all ports of the host.
DownResolved == [Read EXCEPT !.open["interface_down"] = 0]
ResolveDown(w) ==
    /\ poll[w].at = "alert" /\ Now = "up"
    /\ Go(w, "log")
    /\ \/ Accept(DownResolved) /\ UNCHANGED hushed
       \/ Refuse /\ hushed' = TRUE
    /\ UNCHANGED <<tables, polled, forget, turn, drift>>

\* A line of the system log ends every transition.  Nobody reads it here, but
\* to SQLite it is a write.
InsertLog(w) ==
    /\ poll[w].at = "log"
    /\ Go(w, "rate")
    /\ Accept(Read) \/ Refuse
    /\ UNCHANGED <<tables, polled, forget, turn, drift, hushed>>

\* The counters are asked for apart from the status: they may come without it or
\* not at all, be a port's first ones or have been reset ("none").  The earlier
\* samples (iface_state) are not kept here, so that a rate may come at any time,
\* which only adds behaviours.  One alert stands for all ports of the host: a busy
\* port raises it, any other port with a rate resolves it.
\* Mutant: the alerts are looked up past the transaction.
AlertOpenOutside == open["interface_utilization"] # 0
AlertOpen == Read.open["interface_utilization"] # 0
AlertForRate(rate) ==
    \/ /\ rate = "none"
       /\ UNCHANGED <<trans, mishaps>>
    \/ /\ rate = "high" /\ AlertOpen
       /\ Select
       /\ UNCHANGED mishaps
    \/ /\ rate = "high" /\ ~AlertOpen
       /\ Accept([Read EXCEPT !.open["interface_utilization"] = @ + 1]) \/ Refuse
    \/ /\ rate = "low"
       /\ Accept([Read EXCEPT !.open["interface_utilization"] = 0]) \/ Refuse

Rate(w, rate) ==
    /\ poll[w].at = "rate"
    /\ Go(w, "oper")
    /\ todo' = todo \ {Port} /\ answer' \in Answers
    /\ AlertForRate(rate)
    /\ UNCHANGED <<tables, polled, forget, drift, hushed>>

\* What the transaction of a poll leaves behind; a refused commit rolls it back.
Finish(w) ==
    /\ poll[w].at = "oper" /\ todo = {}
    /\ poll' = [poll EXCEPT ![w] = Rest]
    /\ txn' = "none" /\ view' = Nothing /\ stale' = FALSE /\ answer' = "silent"
    /\ \/ /\ txn # "writing"
          /\ UNCHANGED <<oper, open, drift, hushed, mishaps>>
       \/ /\ txn = "writing"
          /\ oper' = view.oper /\ open' = view.open
          /\ hushed' = (hushed /\ view.open["interface_down"] > 0)
          /\ UNCHANGED <<drift, mishaps>>
       \/ /\ txn = "writing" /\ MayFail
          /\ mishaps' = mishaps + 1
          /\ drift' = drift \cup {p \in Ports : view.oper[p] # oper[p]}
          /\ hushed' = TRUE
          /\ UNCHANGED <<oper, open>>
    /\ UNCHANGED <<rows, polled, forget, todo>>

Work(w) == \/ Begin(w) \/ NoTransition(w) \/ Transition(w) \/ LogDown(w)
           \/ ResolveDown(w) \/ InsertLog(w) \/ Finish(w) \/ \E rate \in Rates : Rate(w, rate)

-----------------------------------------------------------------------------
(* The handlers                                                             *)

\* A discovery: the answers of the walk, stored under db_lock whatever a poll
\* has written since.  New rows are monitored; a poll is started.
StoreFound(walked, status) ==
    /\ walked # {} /\ ~Locked
    /\ known' = known \cup walked
    /\ monitor' = monitor \cup (walked \ known)
    /\ oper' = [p \in Ports |-> IF p \in walked THEN status[p] ELSE oper[p]]
    /\ drift' = (drift \ walked) \cup {p \in walked : mt_iface_oper[p] # status[p]}
    /\ poll' = [w \in Pollers |->
          IF w = "thread" /\ poll[w].at = "rest" THEN [Rest EXCEPT !.at = "due"]
          ELSE poll[w]]
    /\ UNCHANGED <<open, polled, forget, turn, trans, hushed, mishaps>>

\* PATCH of one row.
SetMonitor(p) ==
    /\ Elsewhere
    /\ p \in known
    /\ monitor' = IF p \in monitor THEN monitor \ {p} ELSE monitor \cup {p}
    /\ UNCHANGED <<known, oper, open, polled, forget, poll, turn, drift, hushed, mishaps>>

\* Deletion of a row, or of the host; the memory is dropped after the commit.
DeleteRow(p) ==
    /\ Elsewhere
    /\ p \in known
    /\ known' = known \ {p} /\ monitor' = monitor \ {p}
    /\ forget' = forget \cup {p}
    /\ UNCHANGED <<oper, open, polled, poll, turn, drift, hushed, mishaps>>

Forget(p) ==
    /\ p \in forget
    /\ forget' = forget \ {p}
    /\ mt_iface_oper' = [mt_iface_oper EXCEPT ![p] = "unset"]
    /\ cooling' = cooling \ {p}
    /\ hushed' = TRUE
    /\ UNCHANGED <<tables, poll, turn, trans, drift, mishaps>>

\* resolve_alert of an open one.
ResolveByHand(k) ==
    /\ Elsewhere
    /\ open[k] > 0
    /\ open' = [open EXCEPT ![k] = @ - 1]
    /\ UNCHANGED <<rows, oper, polled, forget, poll, turn, drift, hushed, mishaps>>

CoolDown(p) ==
    /\ p \in cooling
    /\ cooling' = cooling \ {p}
    /\ UNCHANGED <<tables, mt_iface_oper, forget, poll, turn, trans,
                   drift, hushed, mishaps>>

RestartPoll ==
    /\ MayFail
    /\ mishaps' = mishaps + 1
    /\ mt_iface_oper' = [p \in Ports |-> "unset"]
    /\ cooling' = {} /\ forget' = {}
    /\ poll' = [w \in Pollers |-> Rest]
    /\ todo' = {} /\ answer' = "silent"
    /\ txn' = "none" /\ view' = Nothing /\ stale' = FALSE
    /\ hushed' = TRUE
    /\ UNCHANGED <<tables, drift>>

PortNext ==
    \/ \E w \in Pollers : Load(w) \/ Work(w)
    \/ \E walked \in SUBSET Ports, status \in [Ports -> Opers] : StoreFound(walked, status)
    \/ \E p \in Handled : SetMonitor(p) \/ DeleteRow(p) \/ Forget(p)
    \/ \E p \in Ports : CoolDown(p)
    \/ \E k \in AlertKinds : ResolveByHand(k)
    \/ RestartPoll

PortSpec == PortInit /\ [][PortNext]_portVars

-----------------------------------------------------------------------------
(* A host has at most one open alert for its rates, in the table and in    *)
(* what a poll is about to commit: two polls overlap, the check and the    *)
(* insertion are two statements, commits are refused, and alerts are       *)
(* resolved by hand meanwhile (nms/mikrotik_poll.py:787-816).              *)
OneOpenUtilization ==
    /\ open["interface_utilization"] <= 1
    /\ view.open["interface_utilization"] <= 1

(* The alert of a port that goes down is lost unless something went wrong: *)
(* the UPDATE before it has taken SQLite's write lock, which the second    *)
(* connection of log_alert then waits for in vain; only a poll that was    *)
(* refused its UPDATE stores one (nms/mikrotik_poll.py:655-721,            *)
(* nms/db.py:1266-1279).                                                   *)
DownAlertsAreLost == mishaps = 0 => open["interface_down"] = 0

(* An interface_down alert stays open without a port that is held to be    *)
(* down only when the UP that should have resolved it came within the      *)
(* cooldown or was refused, or when the memory was dropped                 *)
(* (nms/mikrotik_poll.py:664-745).                                         *)
DownAlertIsExplained ==
    ~Locked /\ open["interface_down"] > 0 /\ ~hushed =>
        \E p \in Ports : mt_iface_oper[p] = "down"

(* The row of a port agrees with the memory of the poll, and with it the   *)
(* PORT DOWN alarm of the trigger page, unless the status was learnt       *)
(* silently, its write was refused, or a discovery has stored an older one *)
(* (nms/mikrotik_poll.py:650-663, nms/mikrotik_routes.py:224-240).         *)
TableFollowsMemory ==
    ~Locked => \A p \in known \ drift : mt_iface_oper[p] \in {"unset", oper[p]}

(* Alerts, rows and memory say the same of the ports, between any two      *)
(* polls (nms/mikrotik_poll.py:607-846).                                   *)
PortsAreConsistent == OneOpenUtilization /\ DownAlertIsExplained /\ TableFollowsMemory
=============================================================================
