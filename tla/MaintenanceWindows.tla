-------------------------- MODULE MaintenanceWindows --------------------------
(***************************************************************************)
(* Maintenance windows (app.py, nms/db.py): a request looks for a window   *)
(* of the same host that meets the one it wants and inserts its own under  *)
(* db_lock in a second connection; windows are deleted by hand and by the  *)
(* nightly cleanup long after their end.  The jobs ask which hosts have a  *)
(* window around the present moment; both ends belong to a window.         *)
(* Deleting a host leaves its windows.                                     *)
(***************************************************************************)
EXTENDS Integers, FiniteSets

CONSTANTS
    Planned,   \* hosts, ONTs, ODPs and OLTs that windows are for
    Planners,  \* requests that create one
    Times,     \* the last moment that is followed
    Longest,   \* the longest window allowed (30 days)
    MaxAge     \* how long after its end a window is kept (90 days)

ASSUME MaintenanceAssumption ==
    /\ Times \in Nat /\ Longest \in Nat /\ MaxAge \in Nat
    /\ IsFiniteSet(Planners)

VARIABLES
    moment,    \* the present
    windows,   \* rows of maintenance_windows, by the request that inserted them
    planning   \* windows that were found free and are about to be inserted

maintVars == <<moment, windows, planning>>

WindowRow == {w \in [on : Planned, start : 0..Times, end : 0..Times, by : Planners] :
              w.start < w.end /\ w.end - w.start <= Longest}

MaintTypeOK ==
    /\ moment \in 0..Times
    /\ windows \subseteq WindowRow
    /\ planning \subseteq WindowRow
    /\ \A v, w \in planning : v.by = w.by => v = w

MaintInit == moment = 0 /\ windows = {} /\ planning = {}

MaintTick ==
    /\ moment < Times
    /\ moment' = moment + 1
    /\ UNCHANGED <<windows, planning>>

\* Mutant: windows meet only if one starts inside of the other.
MeetsInside(v, w) == v.on = w.on /\ v.start > w.start /\ v.start <= w.end
Meets(v, w) == v.on = w.on /\ v.start <= w.end /\ w.start <= v.end

\* The checks of api_maintenance_create and its look-up.
PlanWindow(w) ==
    /\ \A v \in planning : v.by # w.by
    /\ \A v \in windows : ~Meets(w, v)
    /\ planning' = planning \cup {w}
    /\ UNCHANGED <<moment, windows>>

InsertWindow(w) ==
    /\ w \in planning
    /\ planning' = planning \ {w}
    /\ windows' \in {windows \cup {w}, windows}  \* the INSERT may be refused
    /\ UNCHANGED moment

DeleteWindow(w) ==
    /\ w \in windows
    /\ windows' = windows \ {w}
    /\ UNCHANGED <<moment, planning>>

Old(w) == w.end + MaxAge < moment

\* The look-up of get_active_maintenance_map for one host and moment.
Active(p, t) == {w \in windows : w.on = p /\ t \in w.start..w.end}

CleanUpWindows ==
    /\ windows' = {w \in windows : ~Old(w)}
    /\ UNCHANGED <<moment, planning>>

MaintNext ==
    \/ MaintTick
    \/ \E w \in WindowRow : PlanWindow(w) \/ InsertWindow(w) \/ DeleteWindow(w)
    \/ CleanUpWindows

MaintSpec == MaintInit /\ [][MaintNext]_maintVars


-----------------------------------------------------------------------------
(* At no moment more windows of a host are active than requests can be     *)
(* between their look-up and their INSERT: two that overlap are found free *)
(* by both (app.py:4726-4750).                                             *)
ActiveWindowsBounded ==
    \A p \in Planned, t \in 0..Times :
        Cardinality(Active(p, t)) <= Cardinality(Planners)
=============================================================================
