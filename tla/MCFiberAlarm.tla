---------------------------- MODULE MCFiberAlarm -----------------------------
(* Instances of FiberAlarm for TLC: every ONT hangs on the one OLT, if there
   is one. *)
EXTENDS FiberAlarm

MCOltOf == [o \in Onts |-> IF Olts = {} THEN "no OLT" ELSE CHOOSE olt \in Olts : TRUE]
=============================================================================
