---------------------------- MODULE MCHostMonitor ----------------------------
(* Instances of HostMonitor for TLC: every OLT of the model is reached through
   one of the hosts. *)
EXTENDS HostMonitor

MCOltIp == [o \in Olts |-> CHOOSE h \in Hosts : TRUE]
=============================================================================
