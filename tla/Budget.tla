------------------------------- MODULE Budget -------------------------------
(***************************************************************************)
(* The bounds shared by the parts of Insight: how often the surroundings   *)
(* change and how often something fails in one behaviour, and which part   *)
(* the behaviour is about. None of this is program state.                  *)
(***************************************************************************)
EXTENDS Integers

CONSTANTS
    Foci,         \* bound: the part a behaviour is about
    MaxEvents,    \* bound, per part: what operators and the world do
    MaxFaults     \* bound: calls that fail, processes that stop

Part == {"rules", "firewall", "keys", "feed", "escalation", "targets", "lists", "peers"}

ASSUME BudgetAssumption == Foci \subseteq Part /\ MaxEvents \in [Part -> Nat] /\ MaxFaults \in Nat

VARIABLES focus, spent

BudgetTypeOK == focus \in Foci /\ spent \in [{"event", "fault"} -> Nat]

BudgetInit == focus \in Foci /\ spent = [k \in {"event", "fault"} |-> 0]

Limit == [event |-> MaxEvents[focus], fault |-> MaxFaults]
Spend(k) == spent[k] < Limit[k] /\ spent' = [spent EXCEPT ![k] = @ + 1]
Event == Spend("event") /\ UNCHANGED focus
Fault == Spend("fault") /\ UNCHANGED focus
Free == UNCHANGED <<focus, spent>>
=============================================================================
