------------------------------ MODULE TrapAlert -------------------------------
(***************************************************************************)
(* The SNMP trap receiver (nms/snmp_trap.py): one thread takes datagrams   *)
(* from a UDP socket, decodes them, stores a row with whether the          *)
(* community was the expected one, and announces linkDown and coldStart    *)
(* unless a message of the same source and category went out less than     *)
(* TRAP_ALERT_DEDUPE_S ago.  SnmpCodec models the packets themselves.      *)
(***************************************************************************)
EXTENDS Integers, FiniteSets

CONSTANTS
    Sources,    \* addresses of devices
    TrapCodes,  \* generic-trap numbers devices send
    Communities,
    Quiet,      \* TRAP_ALERT_DEDUPE_S, in ticks
    WireLimit,  \* bound on datagrams under way
    MaxFailed   \* bound on rows the database refuses

Versions == {"v1", "2c"}
Trap == [source : Sources, version : Versions, code : TrapCodes, community : Communities]

ASSUME TrapAssumption ==
    /\ Quiet \in Nat \ {0} /\ WireLimit \in Nat /\ MaxFailed \in Nat
    /\ TrapCodes \subseteq Nat /\ "" \notin Communities

VARIABLES
    wire,      \* datagrams under way
    expected,  \* the setting snmp_trap_community, "" accepts all
    quiet,     \* _trap_alert_mem: ticks until a message of the key goes out again
    since,     \* history: ticks since the last message of the key, at most Quiet
    receiver,  \* whether the thread runs
    failed     \* history: rows the database refused

trapVars == <<wire, expected, quiet, since, receiver, failed>>

\* _SNMP_GENERIC_V1 and _SNMP_GENERIC_V2, whose numbers start at 0 and at 1;
\* a generic trap that is neither is "other".
Generic == <<"coldstart", "warmstart", "linkdown", "linkup", "authfailure", "egpneigh">>
Category(trap) ==
    LET n == IF trap.version = "v1" THEN trap.code + 1 ELSE trap.code
    IN IF n \in DOMAIN Generic THEN Generic[n] ELSE "other"

AlertCategories == {"linkdown", "coldstart"}
Keys == Sources \X AlertCategories

TrapTypeOK ==
    /\ wire \subseteq Trap /\ Cardinality(wire) <= WireLimit
    /\ expected \in Communities \cup {""}
    /\ quiet \in [Keys -> 0..Quiet]
    /\ since \in [Keys -> 0..Quiet]
    /\ receiver \in BOOLEAN
    /\ failed \in 0..MaxFailed

TrapInit ==
    /\ wire = {}
    /\ expected \in Communities \cup {""}
    /\ quiet = [k \in Keys |-> 0]
    /\ since = [k \in Keys |-> Quiet]
    /\ receiver = TRUE
    /\ failed = 0

-----------------------------------------------------------------------------
(* Devices, the network and the clock                                       *)

SendTrap(trap) ==
    /\ Cardinality(wire) < WireLimit
    /\ wire' = wire \cup {trap}
    /\ UNCHANGED <<expected, quiet, since, receiver, failed>>

LoseTrap(trap) ==
    /\ trap \in wire
    /\ wire' = wire \ {trap}
    /\ UNCHANGED <<expected, quiet, since, receiver, failed>>

TrapTick ==
    /\ quiet' = [k \in Keys |-> IF quiet[k] > 0 THEN quiet[k] - 1 ELSE 0]
    /\ since' = [k \in Keys |-> IF since[k] < Quiet THEN since[k] + 1 ELSE Quiet]
    /\ UNCHANGED <<wire, expected, receiver, failed>>

-----------------------------------------------------------------------------
(* The receiver                                                             *)

SetCommunity(c) ==
    /\ expected' = c
    /\ UNCHANGED <<wire, quiet, since, receiver, failed>>

Accepted(trap) == expected = "" \/ trap.community = expected

Key(trap) == <<trap.source, Category(trap)>>

Muted(trap) == quiet[Key(trap)] > 0

Announces(trap) ==
    Accepted(trap) /\ Category(trap) \in AlertCategories /\ ~Muted(trap)

\* Mutant: every trap of the key starts its quiet time anew.
QuietAlways(trap) ==
    IF Accepted(trap) /\ Category(trap) \in AlertCategories
    THEN [quiet EXCEPT ![Key(trap)] = Quiet] ELSE quiet
\* Mutant: nothing is remembered of a message.
QuietNever(trap) == quiet
QuietAfter(trap) ==
    IF Announces(trap) THEN [quiet EXCEPT ![Key(trap)] = Quiet] ELSE quiet

\* A datagram is taken from the wire or, doubled by the network, left on it.
\* A row the database refuses is not announced.
HandleTrap(trap) ==
    /\ receiver
    /\ trap \in wire
    /\ wire' \in {wire, wire \ {trap}}
    /\ \/ /\ quiet' = QuietAfter(trap)
          /\ since' = IF Announces(trap) THEN [since EXCEPT ![Key(trap)] = 0] ELSE since
          /\ UNCHANGED failed
       \/ /\ failed < MaxFailed /\ failed' = failed + 1
          /\ UNCHANGED <<quiet, since>>
    /\ UNCHANGED <<expected, receiver>>

\* An error of the socket ends the thread; only a restart of the program
\* starts it again, without memory.
ReceiverDies ==
    /\ receiver
    /\ receiver' = FALSE
    /\ UNCHANGED <<wire, expected, quiet, since, failed>>

RestartReceiver ==
    /\ ~receiver
    /\ receiver' = TRUE
    /\ quiet' = [k \in Keys |-> 0]
    /\ since' = [k \in Keys |-> Quiet]
    /\ UNCHANGED <<wire, expected, failed>>

TrapNext ==
    \/ \E trap \in Trap : SendTrap(trap) \/ LoseTrap(trap) \/ HandleTrap(trap)
    \/ TrapTick
    \/ \E c \in Communities \cup {""} : SetCommunity(c)
    \/ ReceiverDies
    \/ RestartReceiver

TrapSpec == TrapInit /\ [][TrapNext]_trapVars

-----------------------------------------------------------------------------
(* A source and category is quiet exactly for the time since its last      *)
(* message: no trap is left unannounced because of another category, or    *)
(* for longer than the minute by traps that keep coming                    *)
(* (nms/snmp_trap.py:615-640).                                             *)
QuietBecauseAnnounced == \A k \in Keys : quiet[k] + since[k] = Quiet

(* However often a datagram is doubled, within a minute a source is        *)
(* announced at most once for a category while the program runs.           *)
TrapsSpaced ==
    [][\A k \in Keys : since'[k] = 0 /\ since[k] # 0 => since[k] = Quiet]_trapVars
=============================================================================
