----------------------------- MODULE OutageLedger -----------------------------
(***************************************************************************)
(* What the ping monitor promises about outages when the database accepts  *)
(* every write: the opinion the process holds about a host and the open    *)
(* entries of the outage ledger change together, so that every outage the  *)
(* process believes in is on record, and survives a restart.               *)
(***************************************************************************)
CONSTANT Hosts

VARIABLES
    opinion,   \* "absent", "up" or "down", by host
    open       \* hosts with an open entry in the ledger

ledger == <<opinion, open>>

Init ==
    /\ opinion \in [Hosts -> {"absent", "up"}]
    /\ open = {}

\* A round of checks: D are found down, U found up again, W are met for the
\* first time.
Watch(W) ==
    /\ \A h \in W : opinion[h] = "absent"
    /\ opinion' = [h \in Hosts |-> IF h \in W THEN "up" ELSE opinion[h]]
    /\ UNCHANGED open

Judge(D, U) ==
    /\ \A h \in D : opinion[h] # "down"
    /\ \A h \in U : opinion[h] = "down"
    /\ opinion' = [h \in Hosts |-> IF h \in D THEN "down"
                                   ELSE IF h \in U THEN "up" ELSE opinion[h]]
    /\ open' = (open \cup D) \ U

\* An operator strikes out the entries of the hosts E.
Strike(E) ==
    /\ open' = open \ E
    /\ \E K \in SUBSET E :
          opinion' = [h \in Hosts |-> IF h \in K THEN "up" ELSE opinion[h]]
    /\ \A h \in E : opinion'[h] # "down"

Forget(h) ==
    /\ opinion' = [opinion EXCEPT ![h] = "absent"]
    /\ UNCHANGED open

\* After a restart the opinion about a registered host is what the ledger says.
Recall(registered) ==
    /\ opinion' = [h \in Hosts |-> IF h \notin registered THEN "absent"
                                   ELSE IF h \in open THEN "down" ELSE "up"]
    /\ UNCHANGED open

Next ==
    \/ \E W \in SUBSET Hosts : Watch(W)
    \/ \E D, U \in SUBSET Hosts : Judge(D, U)
    \/ \E E \in SUBSET Hosts : Strike(E)
    \/ \E h \in Hosts : Forget(h)
    \/ \E R \in SUBSET Hosts : Recall(R)

Spec == Init /\ [][Next]_ledger

\* Every outage the process believes in is on record in the ledger.
Recorded == \A h \in Hosts : opinion[h] = "down" => h \in open
=============================================================================
