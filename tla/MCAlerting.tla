----------------------------- MODULE MCAlerting -----------------------------
(***************************************************************************)
(* Small instances of Alerting for TLC: a rule with a debounce of three    *)
(* and a predicate that changes up to four times.                          *)
(***************************************************************************)
EXTENDS Alerting

At(E) == [e \in AlertEvent |-> CASE e = "flip" -> 4 [] e \in E -> 1 [] OTHER -> 0]

MCAll == At({"silence", "restart", "view"})
=============================================================================
