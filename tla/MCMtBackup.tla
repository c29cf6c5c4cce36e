----------------------------- MODULE MCMtBackup ------------------------------
(* Instance of MtBackup for TLC.                                            *)
EXTENDS MtBackup

CONSTANTS k1, k2, c1, c2

State(reach, key, config) == [reach |-> reach, key |-> key, config |-> config]
MCRouters == {State("ok", k1, c1), State("ok", k1, c2), State("login", k2, c1),
              State("down", k2, c2)}

MCSettings == {3, 4}
=============================================================================
