----------------------------- MODULE MCFailover -----------------------------
(***************************************************************************)
(* Small instances of Failover for TLC.                                    *)
(***************************************************************************)
EXTENDS Failover

CONSTANTS h1, h2

MCEnvRole == [h \in Host |-> IF h = h1 THEN "unset" ELSE "standby"]
=============================================================================
