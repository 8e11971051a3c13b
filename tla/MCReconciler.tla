---------------------------- MODULE MCReconciler ----------------------------
(***************************************************************************)
(* Small instances of Reconciler for TLC: two addresses, one of which may  *)
(* come in a second spelling, one or two targets, the poller and one web   *)
(* worker.                                                                 *)
(***************************************************************************)
EXTENDS Reconciler

CONSTANTS ip1, ip1host, ip2, capped   \* capped: the target with max_entries = 1

MCTwoSpellings == {ip1, ip1host, ip2}
MCPlain == {ip1, ip2}

MCNorm == [x \in Text |-> IF x = ip2 THEN "B" ELSE "A"]
MCRank == [x \in Text |-> CASE x = ip1 -> 1 [] x = ip1host -> 2 [] x = ip2 -> 3]
MCAge  == [x \in Text |-> CASE x = ip1 -> 2 [] x = ip1host -> 3 [] x = ip2 -> 1]

MCKeepAll == [t \in Target |-> Text]

MCMaxEntries == [t \in Target |-> IF t = capped THEN 1 ELSE 0]
=============================================================================
