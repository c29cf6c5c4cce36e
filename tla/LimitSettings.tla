----------------------------- MODULE LimitSettings ----------------------------
(***************************************************************************)
(* Saving limits (api_save_settings, app.py).  A request sends some of the *)
(* limits; each is held against its own range, then the limits that belong *)
(* together are put together from the request and, one SELECT after the    *)
(* other, from the table, and held against each other.  Only what was sent *)
(* is written, in one transaction, and no lock keeps two requests apart.   *)
(***************************************************************************)
EXTENDS Integers, Sequences

CONSTANTS
    Limit,      \* limits that belong together, in the order they are read
    InRange,    \* the values the range of each limit allows, a function
    Defaults,   \* what init_db puts into the table, a function
    Savers      \* requests

LimitKeys == {Limit[n] : n \in DOMAIN Limit}

(* The rules of api_save_settings about the limits in Limit.                *)
StrictPairs == {<<"fiber_rx_crit", "fiber_rx_warn">>,
                <<"fiber_rx_scale_min", "fiber_rx_scale_max">>,
                <<"temp_threshold", "temp_crit">>}
WeakPairs   == {<<"fiber_rx_warn", "fiber_rx_overload">>,
                <<"fiber_rx_crit", "fiber_rx_target">>,
                <<"fiber_rx_target", "fiber_rx_overload">>,
                <<"fiber_rx_scale_min", "fiber_rx_crit">>,
                <<"fiber_rx_overload", "fiber_rx_scale_max">>,
                <<"fiber_tx_min", "fiber_tx_max">>}
Pairs == {p \in StrictPairs \cup WeakPairs : p[1] \in LimitKeys /\ p[2] \in LimitKeys}

Ordered(p, l) == IF p \in StrictPairs THEN l[p[1]] < l[p[2]] ELSE l[p[1]] <= l[p[2]]
InOrder(l)    == \A p \in Pairs : Ordered(p, l)

Values == UNION {InRange[k] : k \in LimitKeys}

ASSUME LimitAssumption ==
    /\ Limit \in Seq(LimitKeys)
    /\ \A k \in LimitKeys : InRange[k] \subseteq Int /\ Defaults[k] \in InRange[k]
    /\ \A p \in Pairs : Ordered(p, [k \in LimitKeys |-> Defaults[k]])

VARIABLES
    limit,    \* the table settings
    save,     \* requests: how far they are, the limits they send, what they put together
    crossed   \* history: pairs of which one request wrote one while another,
              \* which sends the other one only, was under way

limitVars == <<limit, save, crossed>>

NoSave  == [at |-> 0, keys |-> {}, l |-> [k \in LimitKeys |-> Defaults[k]]]
Done   == Len(Limit) + 1

LimitTypeOK ==
    /\ limit \in [LimitKeys -> Values]
    /\ \A k \in LimitKeys : limit[k] \in InRange[k]
    /\ save \in [Savers -> [at : 0..Done, keys : SUBSET LimitKeys, l : [LimitKeys -> Values]]]
    /\ crossed \subseteq Pairs

LimitInit ==
    /\ limit = [k \in LimitKeys |-> Defaults[k]]
    /\ save = [s \in Savers |-> NoSave]
    /\ crossed = {}

\* The ranges are looked at first; a request outside of one changes nothing.
SubmitLimits(s, keys, l) ==
    /\ save[s].at = 0
    /\ \A k \in keys : l[k] \in InRange[k]
    /\ \A k \in LimitKeys \ keys : l[k] = Defaults[k]
    /\ save' = [save EXCEPT ![s] = [at |-> 1, keys |-> keys, l |-> l]]
    /\ UNCHANGED <<limit, crossed>>

\* What was sent stands, what was not is read.
ReadLimit(s) ==
    LET k    == Limit[save[s].at]
        read == IF k \in save[s].keys THEN save[s].l[k] ELSE limit[k]
    IN /\ save[s].at \in 1..Len(Limit)
       /\ save' = [save EXCEPT ![s] =
             [at |-> @.at + 1, keys |-> @.keys, l |-> [@.l EXCEPT ![k] = read]]]
       /\ UNCHANGED <<limit, crossed>>

\* Mutant: only limits that were sent are held against each other.
AcceptedAlone(s) ==
    \A p \in Pairs : {p[1], p[2]} \subseteq save[s].keys => Ordered(p, save[s].l)
AcceptedTogether(s) == InOrder(save[s].l)

RefuseLimits(s) ==
    /\ save[s].at = Done
    /\ ~AcceptedTogether(s)
    /\ save' = [save EXCEPT ![s] = NoSave]
    /\ UNCHANGED <<limit, crossed>>

\* The pairs that s breaks for a request that has read, or will have read,
\* what it writes now.
Crosses(s) ==
    {p \in Pairs : \E u \in Savers \ {s} :
        /\ save[u].at # 0
        /\ \/ p[1] \in save[s].keys \ save[u].keys /\ p[2] \in save[u].keys
           \/ p[2] \in save[s].keys \ save[u].keys /\ p[1] \in save[u].keys}

WriteLimits(s) ==
    /\ save[s].at = Done
    /\ AcceptedTogether(s)
    /\ limit' = [k \in LimitKeys |-> IF k \in save[s].keys THEN save[s].l[k] ELSE limit[k]]
    /\ crossed' = crossed \cup Crosses(s)
    /\ save' = [save EXCEPT ![s] = NoSave]

LimitNext ==
    \E s \in Savers :
        \/ \E keys \in SUBSET LimitKeys, l \in [LimitKeys -> Values] :
              SubmitLimits(s, keys, l)
        \/ ReadLimit(s)
        \/ RefuseLimits(s)
        \/ WriteLimits(s)

LimitSpec == LimitInit /\ [][LimitNext]_limitVars

-----------------------------------------------------------------------------
(* Two limits of a pair are in order, however many requests are under way  *)
(* and however they read, unless two that overlapped sent one of them each *)
(* - each then finds its own in order with a value the other replaces      *)
(* (app.py:3063-3127).                                                     *)
LimitsStayOrdered == \A p \in Pairs \ crossed : Ordered(p, limit)
=============================================================================
