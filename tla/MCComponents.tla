----------------------------- MODULE MCComponents -----------------------------
(***************************************************************************)
(* Instances for TLC of the components that share no state with one        *)
(* another.  As nothing one of them does is seen by another, interleaving  *)
(* them would show no more than each shows by itself: a behaviour is one   *)
(* component's, chosen at the start, while the others stay as they are.    *)
(***************************************************************************)
EXTENDS AgentAlarm, IfaceAlarm, MtHealth, TrapAlert, LimitSettings, DbBackup, Discovery,
        MaintenanceWindows, SnmpCodec, PowerMeter

VARIABLE scene  \* the component that moves

Scenes == {"agents", "ports", "polls", "health", "traps", "limits", "backup", "discovery",
           "maintenance", "codec", "power"}

\* One tick of the agents' time stands for 60 seconds.
MCOfflineAfter == 2
MCWindow == 5
MCPeriod == 1

MCLimits == {[warn |-> 4, crit |-> 6], [warn |-> 8, crit |-> 10]}

(* The three limits of the received power, with two saves under way.       *)
MCLimit == <<"fiber_rx_overload", "fiber_rx_warn", "fiber_rx_crit">>
MCInRange == [k \in {"fiber_rx_overload", "fiber_rx_warn", "fiber_rx_crit"} |->
                 CASE k = "fiber_rx_overload" -> {2}
                   [] k = "fiber_rx_warn"     -> {1, 2}
                   [] k = "fiber_rx_crit"     -> {0, 1}]
MCDefaults == [k \in {"fiber_rx_overload", "fiber_rx_warn", "fiber_rx_crit"} |->
                 CASE k = "fiber_rx_overload" -> 2
                   [] k = "fiber_rx_warn"     -> 1
                   [] k = "fiber_rx_crit"     -> 0]

(* Lengths and numbers around 127, 128, 255 and 256, and the largest; texts *)
(* of characters of one to four octets.                                    *)
Text(n) == [i \in 1..n |-> 97 + (i % 26)]
SysName == <<1, 3, 6, 1, 2, 1, 1, 5, 0>>
Widest  == <<1, 3, 6, 1, 4, 1, 8072, 16384, 2097151>>
MCNameLists == {<<SysName>>, <<<<2, 40, 1>>>>, <<SysName, Widest>>}
Number(tag, n) == [tag |-> tag, int |-> n, text |-> << >>]
Octet(tag, text) == [tag |-> tag, int |-> 0, text |-> text]
\* Spaces around a text; what breaks off in a character of three octets; a
\* surrogate; a form that is too long; a character of four octets.
OddTexts == {<<32, 195, 169, 10>>, <<226, 130, 97>>, <<237, 160, 128>>, <<192, 175>>,
             <<240, 159, 152, 128>>}
MCAnswerLists ==
    {<<v>> : v \in {Number(2, n) : n \in {0, 127, 128, -1, -128, -129, 2147483647}}
                   \cup {Number(65, n) : n \in {255, 2147483647}}
                   \cup {Octet(4, Text(n)) : n \in {0, 127, 128, 129}}
                   \cup {Octet(4, text) : text \in OddTexts}
                   \cup {Octet(129, << >>), Octet(6, <<43, 6>>)}}
    \cup {<<v, w>> : v, w \in {Number(2, -1), Number(65, 255), Octet(4, Text(128)),
                               Octet(129, << >>)}}
MCNumbers == {0, 128, 2147483647}
MCTexts == {<< >>, Text(120) \o <<233, 8364, 128512>>}
MCCuts == {0, 1, 2, 3, 19, 20, 60, 120, 140}

MCHandIns == {<< >>}

-----------------------------------------------------------------------------
(* A component that does not move starts in one of its states only.        *)
MCInit ==
    /\ scene \in Scenes
    /\ (scene # "agents" => hosts = {})
    /\ (scene # "health" => limits = CHOOSE l \in Limits : TRUE)
    /\ (scene # "traps" => expected = "")
    /\ (scene # "codec" => sent = [what |-> "request",
                                   request |-> CHOOSE r \in Requests : r.community = << >>])
    /\ Init /\ PortInit /\ HealthInit /\ TrapInit /\ LimitInit /\ BackupInit /\ DiscoveryInit
    /\ MaintInit /\ CodecInit /\ PowerInit

\* What a port answers is chosen with its turn; after the last port there is none.
PortSteps == PortNext /\ (todo' = {} => answer' = "silent")

\* The interface poll of the job beside the handlers of the rows and mishaps,
\* where rows are switched off and deleted only as long as there was no mishap,
\* and beside the poll that a discovery starts without either.
OnePoll  == /\ PortSteps
            /\ poll'["thread"].at # "loaded"
            /\ mishaps' = 0 \/ (monitor' = known' /\ forget' = {})
TwoPolls == PortSteps /\ forget' = {} /\ monitor' = known' /\ mishaps' = 0

Moves(s) ==
    /\ scene = s /\ UNCHANGED scene
    /\ s # "agents"      => UNCHANGED vars
    /\ s \notin {"ports", "polls"} => UNCHANGED portVars
    /\ s # "health"      => UNCHANGED healthVars
    /\ s # "traps"       => UNCHANGED trapVars
    /\ s # "limits"      => UNCHANGED limitVars
    /\ s # "backup"      => UNCHANGED backupVars
    /\ s # "discovery"   => UNCHANGED discoveryVars
    /\ s # "maintenance" => UNCHANGED maintVars
    /\ s # "codec"       => UNCHANGED codecVars
    /\ s # "power"       => UNCHANGED powerVars

MCNext ==
    \/ Moves("agents")      /\ Next
    \/ Moves("ports")       /\ OnePoll
    \/ Moves("polls")       /\ TwoPolls
    \/ Moves("health")      /\ HealthNext
    \/ Moves("traps")       /\ TrapNext
    \/ Moves("limits")      /\ LimitNext
    \/ Moves("backup")      /\ BackupNext
    \/ Moves("discovery")   /\ DiscoveryNext
    \/ Moves("maintenance") /\ MaintNext
    \/ Moves("codec")       /\ CodecNext
    \/ Moves("power")       /\ PowerNext

MCSpec == MCInit /\ [][MCNext]_<<scene, vars, portVars, healthVars, trapVars, limitVars, backupVars,
                                 discoveryVars, maintVars, codecVars, powerVars>>

-----------------------------------------------------------------------------
\* Every variable of every component keeps its type, whatever the requests, polls
\* and restarts: times and counters stay within their bounds, and what is stored
\* refers to rows, days and devices there are (nms/db.py, app.py, nms/snmp.py).
ComponentsTypeOK ==
    /\ TypeOK /\ PortTypeOK /\ HealthTypeOK /\ TrapTypeOK /\ LimitTypeOK /\ BackupTypeOK
    /\ DiscoveryTypeOK /\ MaintTypeOK /\ CodecTypeOK /\ PowerTypeOK
=============================================================================
