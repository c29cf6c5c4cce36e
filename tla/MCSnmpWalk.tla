----------------------------- MODULE MCSnmpWalk ------------------------------
(* Instance of SnmpWalk for TLC: 0 asks for the default of 64 rows.         *)
EXTENDS SnmpWalk

MCMaxRows == {0, 2}
=============================================================================
