--------------------------- MODULE MCFiberRegistry ----------------------------
(* Instance of FiberRegistry for TLC.                                       *)
EXTENDS FiberRegistry, TLC

MCNames == {"A", "a", "B"}
MCKey == [n \in {"", "A", "a", "B"} |-> IF n = "A" THEN "a" ELSE n]

\* "A" and "a" differ in the serial numbers of their ONTs, too.
MCSns == {"x", "A-1", "a-1", "B-1"}
MCDiscoveredSn == [n \in MCNames |-> [x \in {1} |-> n \o "-1"]]

Typed(sn, at, idx, src) == [sn |-> sn, at |-> at, idx |-> idx, src |-> src, rx |-> "user"]
MCForms == {Typed("x", "A", 1, "manual"), Typed("A-1", "a", 0, "manual")}

\* Measurements of x and A-1; a name for A-1 without one.
Cells(sn, at, rx) == [sn |-> sn, at |-> at, idx |-> 0, src |-> "empty", rx |-> rx]
MCFiles == {<<Cells("x", "", "user"), Cells("A-1", "", "user")>>, <<Cells("A-1", "B", "empty")>>}

MCSymmetry == Permutations(Threads)
=============================================================================
