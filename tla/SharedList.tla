----------------------------- MODULE SharedList -----------------------------
(***************************************************************************)
(* What Protek promises about an address list it shares with the router's  *)
(* operator: it adds entries of its own under fresh ids, it removes only   *)
(* entries of its own, and everything else on the list is the operator's.  *)
(* edits counts the operator's changes, so a change that leaves it alone   *)
(* is Protek's.                                                            *)
(***************************************************************************)
EXTENDS Integers

CONSTANTS Text, Target

VARIABLES list, nextId, edits

vars == <<list, nextId, edits>>

\* Protek adds an entry, or removes one of its own.
ProtekAdd(t, x) ==
    /\ list' = [list EXCEPT ![t] = @ \cup {[id |-> nextId, text |-> x, owned |-> TRUE]}]
    /\ nextId' = nextId + 1
    /\ UNCHANGED edits

ProtekRemove(t, e) ==
    /\ e.owned
    /\ list' = [list EXCEPT ![t] = @ \ {e}]
    /\ UNCHANGED <<nextId, edits>>

\* The operator adds an entry without Protek's comment, or removes any entry.
OperatorAdds(t, x) ==
    /\ list' = [list EXCEPT ![t] = @ \cup {[id |-> nextId, text |-> x, owned |-> FALSE]}]
    /\ nextId' = nextId + 1
    /\ edits' = edits + 1

OperatorRemoves(t, e) ==
    /\ list' = [list EXCEPT ![t] = @ \ {e}]
    /\ edits' = edits + 1
    /\ UNCHANGED nextId

Init ==
    /\ list = [t \in Target |-> {}]
    /\ nextId = 1
    /\ edits = 0

Next ==
    \E t \in Target :
        \/ \E x \in Text : ProtekAdd(t, x) \/ OperatorAdds(t, x)
        \/ \E e \in list[t] : ProtekRemove(t, e) \/ OperatorRemoves(t, e)

Spec == Init /\ [][Next]_vars
=============================================================================
