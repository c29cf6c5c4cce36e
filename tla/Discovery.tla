------------------------------- MODULE Discovery ------------------------------
(***************************************************************************)
(* Subnet discovery (app.py, nms/snmp.py): a run asks every address for    *)
(* sysDescr and sysName, compares those that answered with the list        *)
(* settings.discovery_last_hosts, sends one message about new and missing  *)
(* devices, and then stores the list.  The message names no more than the  *)
(* first NamedMost of the new and of the missing devices; the list has     *)
(* them all, and what a message left out no later one makes up for.  The   *)
(* job and the endpoint that starts it by hand run at the same time if     *)
(* they happen to.                                                         *)
(***************************************************************************)
EXTENDS Integers, FiniteSets

CONSTANTS
    Devices,   \* addresses of the subnet that a device may have, in their order
    NamedMost, \* new devices, and missing ones, that a message names (20)
    Runs,      \* runs of run_scheduled_snmp_discovery: of the job, of requests
    MaxLapses  \* bound on stores refused and runs that die

ASSUME DiscoveryAssumption ==
    /\ MaxLapses \in Nat /\ NamedMost \in Nat
    /\ Devices \subseteq Nat /\ IsFiniteSet(Devices)

VARIABLES
    listed,     \* discovery_last_hosts
    scan,       \* runs: what is left to ask, what answered, the list as it was
    told,       \* history: devices last announced as new rather than as missing
    unnamed,    \* history: devices that the last message about them did not name
    lapses,     \* history: stores refused and runs that died
    lapsed,     \* history: devices such a run told of, which the list missed
    overlapped  \* history: two runs were between reading and storing the list

discoveryVars == <<listed, scan, told, unnamed, lapses, lapsed, overlapped>>

NoScan == [at |-> "idle", ask |-> {}, found |-> {}, old |-> {}]

DiscoveryTypeOK ==
    /\ listed \subseteq Devices /\ told \subseteq Devices
    /\ scan \in [Runs -> [at : {"idle", "asking", "scanned", "compared", "told"},
                          ask : SUBSET Devices, found : SUBSET Devices, old : SUBSET Devices]]
    /\ lapses \in 0..MaxLapses
    /\ lapsed \subseteq Devices /\ unnamed \subseteq Devices
    /\ overlapped \in BOOLEAN

DiscoveryInit ==
    /\ listed = {} /\ told = {}
    /\ scan = [r \in Runs |-> NoScan]
    /\ unnamed = {} /\ lapses = 0 /\ lapsed = {} /\ overlapped = FALSE

StartScan(r) ==
    /\ scan[r] = NoScan
    /\ scan' = [scan EXCEPT ![r] = [NoScan EXCEPT !.at = "asking", !.ask = Devices]]
    /\ UNCHANGED <<listed, told, unnamed, lapses, lapsed, overlapped>>

(* What _snmp_get makes of a reply: all the values or none.  A reply that  *)
(* lacks one of the two, of an agent that knows one only, is no answer.    *)
Replied == {"both", "one", "none"}
Positional(reply) == IF reply = "both" THEN <<"sys_descr", "sys_name">> ELSE << >>

\* The workers ask one address each, in any order.
Probe(r, d, reply) ==
    LET run == scan[r]
    IN /\ run.at = "asking" /\ d \in run.ask
       /\ scan' = [scan EXCEPT ![r] =
             [at    |-> IF run.ask = {d} THEN "scanned" ELSE "asking",
              ask   |-> run.ask \ {d},
              found |-> IF Positional(reply) = << >> THEN run.found ELSE run.found \cup {d},
              old   |-> run.old]]
       /\ UNCHANGED <<listed, told, unnamed, lapses, lapsed, overlapped>>

\* The list as it was before, read when all have answered.
Compare(r) ==
    /\ scan[r].at = "scanned"
    /\ scan' = [scan EXCEPT ![r].at = "compared", ![r].old = listed]
    /\ overlapped' = (overlapped \/ \E u \in Runs \ {r} : scan[u].at \in {"compared", "told"})
    /\ UNCHANGED <<listed, told, unnamed, lapses, lapsed>>

Added(r)   == scan[r].found \ scan[r].old
Removed(r) == scan[r].old \ scan[r].found

\* The first ones of a sorted list of them.
First(devices) == {d \in devices : Cardinality({e \in devices : e < d}) < NamedMost}
NamedIn(r)  == First(Added(r)) \cup First(Removed(r))
LeftOut(r)  == (Added(r) \cup Removed(r)) \ NamedIn(r)

\* A message that fails is not known to have.
Tell(r) ==
    /\ scan[r].at = "compared"
    /\ told' = (told \cup First(Added(r))) \ First(Removed(r))
    /\ unnamed' = (unnamed \ NamedIn(r)) \cup LeftOut(r)
    /\ lapsed' = lapsed \ NamedIn(r)
    /\ scan' = [scan EXCEPT ![r].at = "told"]
    /\ UNCHANGED <<listed, lapses, overlapped>>

\* Mutant: the list only grows.
NewListGrows(r) == listed \cup scan[r].found
NewList(r) == scan[r].found

StoreList(r) ==
    /\ scan[r].at = "told"
    /\ \/ /\ listed' = NewList(r)
          /\ UNCHANGED <<lapses, lapsed>>
       \/ /\ lapses < MaxLapses /\ lapses' = lapses + 1
          /\ lapsed' = lapsed \cup Added(r) \cup Removed(r)
          /\ UNCHANGED listed
    /\ scan' = [scan EXCEPT ![r] = NoScan]
    /\ UNCHANGED <<told, unnamed, overlapped>>

DiscoveryNext ==
    \E r \in Runs :
        \/ StartScan(r) \/ Compare(r) \/ Tell(r) \/ StoreList(r)
        \/ \E d \in Devices, reply \in Replied : Probe(r, d, reply)

DiscoverySpec == DiscoveryInit /\ [][DiscoveryNext]_discoveryVars

-----------------------------------------------------------------------------
(* Between two runs, the devices announced as new and not as missing since *)
(* are those of the list, apart from devices that a long message did not   *)
(* name, and from those whose message went out while the list could not be *)
(* stored: it is compared with, told of and stored in three steps, and two *)
(* runs at a time announce against the same list (app.py:1062-1093).       *)
ToldIsTheList ==
    ~overlapped /\ (\A r \in Runs : scan[r].at # "told")
        => \A d \in Devices \ (lapsed \cup unnamed) : d \in told <=> d \in listed
=============================================================================
