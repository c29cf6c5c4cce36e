------------------------------ MODULE MCFollowUp ------------------------------
(***************************************************************************)
(* Instances for TLC of the components that follow something up: alerts    *)
(* that nobody acknowledges, services, and certificates.  They share no    *)
(* state; a behaviour is one component's, chosen at the start.             *)
(***************************************************************************)
EXTENDS AlertWorkflow, ServiceCheck, SslWatch

VARIABLE scene  \* the component that moves

Scenes == {"alerts", "services", "certificates"}

MCTargets == {t \in Target : t.kind # "tcp"}
\* One day of every level.
MCDays == {-1, 7, 30, 31}

\* A component that does not move starts with nothing to follow up.
MCInit ==
    /\ scene \in Scenes
    /\ (scene # "services" => target = CHOOSE t \in Targets : t.kind = "icmp")
    /\ WorkflowInit /\ ServiceInit /\ SslInit
    /\ (scene # "services" => reply = 0)

Moves(s) ==
    /\ scene = s /\ UNCHANGED scene
    /\ s # "alerts"       => UNCHANGED workflowVars
    /\ s # "services"     => UNCHANGED serviceVars
    /\ s # "certificates" => UNCHANGED sslVars

MCNext ==
    \/ Moves("alerts")       /\ WorkflowNext
    \/ Moves("services")     /\ ServiceNext
    \/ Moves("certificates") /\ SslNext

(* The escalation job and the checks come round again as long as the       *)
(* scheduler runs, and no thread of theirs is left standing.               *)
MCSpec ==
    /\ MCInit /\ [][MCNext]_<<scene, workflowVars, serviceVars, sslVars>>
    /\ WF_workflowVars(Moves("alerts") /\ Escalate)
    /\ \A c \in Checkers : WF_serviceVars(Moves("services") /\ Check(c))
    /\ \A r \in SslRuns : WF_sslVars(Moves("certificates") /\ SslStep(r))
===============================================================================
