----------------------------- MODULE Escalation -----------------------------
(***************************************************************************)
(* Suggestions to ban a whole network (asn_detector.py): the poller        *)
(* suggests an AS with many banned addresses, an operator decides, and a   *)
(* decided AS is left alone for the cooldown. The detector reads the busy  *)
(* networks once and then reads and writes row by row, while a worker      *)
(* decides with two statements of its own.                                 *)
(***************************************************************************)
EXTENDS Budget, Sequences, FiniteSets

CONSTANTS Asn, MaxRows           \* MaxRows bounds asn_escalations

ASSUME EscalationAssumption == MaxRows \in Nat

VARIABLES
    busy,     \* networks over the threshold
    rows,     \* asn_escalations: [asn, status, decided], oldest first
    eval,     \* the detector: networks to go through, the one to insert
    deciding, \* networks a worker approved and has yet to ban
    banned,   \* the row of decisions with scope AS: none, live, tombstoned
    undone    \* history: approved, but the ban failed or was lifted since

escalationVars == <<busy, rows, eval, deciding, banned, undone>>

NoEval == [todo |-> {}, next |-> {}, stale |-> {}]

EscalationTypeOK ==
    /\ busy \subseteq Asn /\ deciding \subseteq Asn /\ banned \in [Asn -> {"none", "live", "gone"}] /\ undone \subseteq Asn
    /\ eval \in [todo : SUBSET Asn, next : SUBSET Asn, stale : SUBSET Asn]
    /\ rows \in Seq([asn : Asn, status : {"pending", "approved", "rejected"}, decided : {"no", "lately", "long ago"}])

EscalationInit ==
    /\ busy = {} /\ rows = <<>> /\ eval = NoEval /\ deciding = {} /\ undone = {}
    /\ banned = [a \in Asn |-> "none"]

Pending(i) == rows[i].status = "pending"
Lately(i) == rows[i].decided = "lately"
RowsOf(a) == {i \in DOMAIN rows : rows[i].asn = a}

MutantSuppressed(a) == \E i \in RowsOf(a) : Lately(i)
MutantPendingOnly(a) == \E i \in RowsOf(a) : Pending(i)
\* The query behind "operator's decision should stick".
Suppressed(a) == \E i \in RowsOf(a) : Pending(i) \/ Lately(i)

-----------------------------------------------------------------------------
\* evaluate: the aggregate, then per network the query and the insert.
EvaluateBegin ==
    /\ eval = NoEval /\ busy # {}
    /\ eval' = [NoEval EXCEPT !.todo = busy]
    /\ Free /\ UNCHANGED <<busy, rows, deciding, banned, undone>>

EvaluateRow(a) ==
    /\ eval.next = {} /\ a \in eval.todo
    /\ eval' = [todo |-> eval.todo \ {a}, next |-> IF Suppressed(a) THEN {} ELSE {a}, stale |-> {}]
    /\ Free /\ UNCHANGED <<busy, rows, deciding, banned, undone>>

Suggest(a) ==
    /\ a \in eval.next /\ Len(rows) < MaxRows
    /\ rows' = Append(rows, [asn |-> a, status |-> "pending", decided |-> "no"])
    /\ eval' = [eval EXCEPT !.next = {}, !.stale = {}]
    /\ Free /\ UNCHANGED <<busy, deciding, banned, undone>>

\* decide: the status first, whatever it was; an approved network is banned
\* with a second statement. stale: decided while the detector holds its query.
Decide(i, d) ==
    /\ i \in DOMAIN rows
    /\ rows' = [rows EXCEPT ![i].status = d, ![i].decided = "lately"]
    /\ deciding' = IF d = "approved" THEN deciding \cup {rows[i].asn} ELSE deciding
    /\ undone' = IF d = "approved" THEN undone \ {rows[i].asn} ELSE undone
    /\ eval' = [eval EXCEPT !.stale = IF rows[i].asn \in eval.next THEN {rows[i].asn} ELSE @]
    /\ Event /\ UNCHANGED <<busy, banned>>

\* ON CONFLICT ... deleted_at = NULL: a lifted ban comes back.
BanNetwork(a) ==
    /\ a \in deciding
    /\ deciding' = deciding \ {a} /\ banned' = [banned EXCEPT ![a] = "live"]
    /\ Free /\ UNCHANGED <<busy, rows, eval, undone>>

\* The insert raises, which decide swallows, or the worker dies before it.
BanFails(a) ==
    /\ a \in deciding
    /\ deciding' = deciding \ {a} /\ undone' = undone \cup {a}
    /\ Fault /\ UNCHANGED <<busy, rows, eval, banned>>

\* The poller's process restarts.
DetectorRestarts ==
    /\ eval # NoEval /\ eval' = NoEval
    /\ Fault /\ UNCHANGED <<busy, rows, deciding, banned, undone>>

Traffic(a) ==
    /\ busy' = IF a \in busy THEN busy \ {a} ELSE busy \cup {a}
    /\ Event /\ UNCHANGED <<rows, eval, deciding, banned, undone>>

Unban(a) ==
    /\ banned[a] = "live" /\ banned' = [banned EXCEPT ![a] = "gone"] /\ undone' = undone \cup {a}
    /\ Event /\ UNCHANGED <<busy, rows, eval, deciding>>

\* The cooldown of every decision so far runs out. It is days long: not
\* while the detector is between a query and its insert.
CooldownEnds ==
    /\ eval.next = {} /\ \E i \in DOMAIN rows : Lately(i)
    /\ rows' = [i \in DOMAIN rows |-> IF Lately(i) THEN [rows[i] EXCEPT !.decided = "long ago"] ELSE rows[i]]
    /\ Free /\ UNCHANGED <<busy, eval, deciding, banned, undone>>

Evaluate == EvaluateBegin \/ \E a \in Asn : EvaluateRow(a) \/ Suggest(a)

EscalationNext ==
    \/ Evaluate \/ DetectorRestarts \/ CooldownEnds
    \/ \E i \in 1..MaxRows, d \in {"approved", "rejected"} : Decide(i, d)
    \/ \E a \in Asn : BanNetwork(a) \/ BanFails(a) \/ Traffic(a) \/ Unban(a)

EscalationFairness == 
    /\ WF_escalationVars(focus = "escalation" /\ Evaluate)
    /\ WF_escalationVars(focus = "escalation" /\ CooldownEnds)

-----------------------------------------------------------------------------
(* Properties *)

\* An operator is asked about a network once: no two suggestions for it wait
\* at a time, however decisions and the detector interleave.
OnePending == \A i, j \in DOMAIN rows : Pending(i) /\ Pending(j) /\ rows[i].asn = rows[j].asn => i = j

\* A network is suggested after a decision about it only when the cooldown
\* is over, unless the decision (on an older row) came while the detector
\* was between its query and its insert.
DecisionSticks ==
    [][\A a \in Asn : Suggest(a) /\ a \notin eval.stale => \A i \in RowsOf(a) : ~Lately(i)]_<<escalationVars, focus, spent>>

\* An approved network is banned: also when it is approved a second time
\* after the ban was lifted, unless the insert failed or it was lifted since.
ApprovedIsBanned ==
    \A i \in DOMAIN rows : rows[i].status = "approved" =>
        banned[rows[i].asn] = "live" \/ rows[i].asn \in deciding \cup undone

\* A network that stays busy keeps coming back to the operator: again and
\* again a suggestion waits or a decision is recent, so that a decision is
\* not for ever.
BusyIsAsked ==
    \A a \in Asn : <>[](a \in busy) => []<>(\E i \in RowsOf(a) : Pending(i) \/ Lately(i))
=============================================================================
