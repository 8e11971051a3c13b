-------------------------------- MODULE Tags --------------------------------
(***************************************************************************)
(* Labels on banned addresses (table ip_tags): the honeypot's targets      *)
(* (honeypot.py, from the scores of reputation.py), which the poller and   *)
(* a page recompute, and the Tor and Spamhaus lists (intel_providers.py),  *)
(* which the poller downloads about once a day.                            *)
(*                                                                         *)
(* A label expires by date: its expiry is compared as text with            *)
(* datetime('now'), whose separator sorts before the T of an ISO time, so  *)
(* a label is in force until the day of its expiry is over.                *)
(***************************************************************************)
EXTENDS Budget, FiniteSets

CONSTANTS
    Ip,            \* numbers: the order in which addresses sort
    MaxTargets,    \* honeypot.max_targets
    PerCall,       \* scores bulk_compute_for_min computes in one call: 200
    OnList         \* the addresses on each of the downloaded lists

List == {"tor", "drop", "edrop"}
Site == {"tor", "spamhaus"}
ListsOf(site) == IF site = "tor" THEN {"tor"} ELSE {"drop", "edrop"}

ASSUME TagsAssumption == Ip \subseteq Nat /\ MaxTargets \in Nat /\ PerCall \in Nat \ {0} /\ OnList \in [List -> SUBSET Ip]

\* Days a label of a list lasts after today (7 stands as 3).
Days == [tor |-> 2, drop |-> 3, edrop |-> 3]

\* Downloads are left out of behaviours about the targets.
Daily == IF focus = "lists" THEN Site ELSE {}

Refresher == {"poller", "page"}
Passes == 3       \* bound: cycles seen between two days, thousands in truth

VARIABLES
    active,      \* addresses with a live decision
    score,       \* their score now: 0 or 1
    remembered,  \* reputation_cache, -1 when absent or older than six hours
    floor,       \* honeypot.min_reputation: 0 or 1
    trapOn,      \* honeypot.enabled
    bound,       \* honeypot-bound: days of life left, 0 when expired or absent
    refresh,     \* the refresh_targets each process is in
    life,        \* labels of the lists, in the same way
    due,         \* sites whose last_refresh_at is 20 hours old or absent
    passes       \* cycles since the day changed

tagsVars == <<active, score, remembered, floor, trapOn, bound, refresh, life, due, passes>>

Rest == [at |-> "idle", top |-> {}, add |-> {}, drop |-> {}]

TagsTypeOK ==
    /\ active \subseteq Ip /\ score \in [Ip -> 0..1] /\ remembered \in [Ip -> -1..1]
    /\ floor \in 0..1 /\ trapOn \in BOOLEAN /\ bound \in [Ip -> 0..2]
    /\ refresh \in [Refresher -> [at : {"idle", "existing", "write"}, top : SUBSET Ip, add : SUBSET Ip, drop : SUBSET Ip]]
    /\ life \in [List -> [Ip -> 0..4]] /\ due \subseteq Site /\ passes \in 0..Passes

TagsInit ==
    /\ active \in SUBSET Ip /\ score \in [Ip -> 0..1] /\ remembered = [i \in Ip |-> -1]
    /\ floor = 1 /\ trapOn \in BOOLEAN /\ bound = [i \in Ip |-> 0]
    /\ refresh = [p \in Refresher |-> Rest]
    /\ life = [l \in List |-> [i \in Ip |-> 0]] /\ due = Daily /\ passes = 0

scores == <<active, score, floor, trapOn>>

-----------------------------------------------------------------------------
(* refresh_targets *)

\* sorted(...)[:max_targets]
Top(S) == {i \in S : Cardinality({j \in S : j < i}) < MaxTargets}

Missing == {i \in active : remembered[i] = -1}
Computable == {S \in SUBSET Missing : Cardinality(S) <= PerCall /\ (S = Missing \/ Cardinality(S) = PerCall)}

Known(done) == [i \in Ip |-> IF i \in done THEN score[i] ELSE remembered[i]]

\* bulk_compute_for_min: a remembered score is used as it is; of the missing
\* ones, in no order, some are computed and remembered, and an address left
\* over does not qualify this time. When switched off refresh_targets does
\* nothing.
Qualify(p) ==
    /\ refresh[p] = Rest
    /\ p = "poller" => passes' = IF passes < Passes /\ ~trapOn THEN passes + 1 ELSE passes
    /\ p = "page" => UNCHANGED passes
    /\ IF trapOn
       THEN \E done \in Computable :
              /\ remembered' = Known(done)
              /\ refresh' = [refresh EXCEPT ![p].at = "existing",
                                            ![p].top = Top({i \in active : Known(done)[i] >= floor})]
       ELSE UNCHANGED <<remembered, refresh>>
    /\ IF p = "poller" THEN Free ELSE Event
    /\ UNCHANGED <<scores, bound, life, due>>

InForce == {i \in Ip : bound[i] > 0}

ReadExisting(p) ==
    /\ refresh[p].at = "existing"
    /\ refresh' = [refresh EXCEPT ![p].at = "write", ![p].add = refresh[p].top \ InForce,
                                  ![p].drop = InForce \ refresh[p].top]
    /\ Free /\ UNCHANGED <<scores, remembered, bound, life, due, passes>>

\* One statement per address, the additions first; six hours end today or
\* tomorrow.
WriteTag(p) ==
    /\ refresh[p].at = "write"
    /\ \/ \E i \in refresh[p].add :
            /\ \E days \in 1..2 : bound' = [bound EXCEPT ![i] = days]
            /\ refresh' = [refresh EXCEPT ![p].add = @ \ {i}]
       \/ /\ refresh[p].add = {}
          /\ \E i \in refresh[p].drop :
               /\ bound' = [bound EXCEPT ![i] = 0]
               /\ refresh' = [refresh EXCEPT ![p].drop = @ \ {i}]
    /\ Free /\ UNCHANGED <<scores, remembered, life, due, passes>>

Written(p) ==
    /\ refresh[p].at = "write" /\ refresh[p].add = {} /\ refresh[p].drop = {}
    /\ refresh' = [refresh EXCEPT ![p] = Rest]
    /\ passes' = IF p = "poller" /\ passes < Passes THEN passes + 1 ELSE passes
    /\ Free /\ UNCHANGED <<scores, remembered, bound, life, due>>

\* The process stops between two statements.
Stopped(p) ==
    /\ refresh[p] # Rest /\ refresh' = [refresh EXCEPT ![p] = Rest]
    /\ Fault /\ UNCHANGED <<scores, remembered, bound, life, due, passes>>

-----------------------------------------------------------------------------
(* maybe_refresh_bulk *)

Labelled(got) ==
    [l \in List |-> [i \in Ip |-> IF l \in got /\ i \in OnList[l] \cap active THEN Days[l] + 1 ELSE life[l][i]]]

\* The lists that came are applied and the site is stamped, whether all came
\* or not; an HTTP error from the Tor site returns before the stamp, as does
\* a process that stops.
Download(site) ==
    /\ site \in due
    /\ \/ /\ life' = Labelled(ListsOf(site)) /\ due' = due \ {site} /\ Free
       \/ \E got \in SUBSET ListsOf(site) \ {ListsOf(site)} :
            life' = Labelled(got) /\ due' = due \ {site} /\ Fault
       \/ site = "tor" /\ Fault /\ UNCHANGED <<life, due>>
       \/ \E got \in SUBSET ListsOf(site) : life' = Labelled(got) /\ Fault /\ UNCHANGED due
    /\ UNCHANGED <<scores, remembered, bound, refresh, passes>>

-----------------------------------------------------------------------------
(* The world *)

Decision(i) ==
    /\ active' = IF i \in active THEN active \ {i} ELSE active \cup {i}
    /\ Event /\ UNCHANGED <<score, remembered, floor, trapOn, bound, refresh, life, due, passes>>

Rescored(i) ==
    /\ score' = [score EXCEPT ![i] = 1 - @]
    /\ Event /\ UNCHANGED <<active, remembered, floor, trapOn, bound, refresh, life, due, passes>>

\* honeypot_save
SaveHoneypot ==
    /\ \E on \in BOOLEAN, f \in 0..1 : trapOn' = on /\ floor' = f
    /\ Event /\ UNCHANGED <<active, score, remembered, bound, refresh, life, due, passes>>

Less(n) == IF n > 0 THEN n - 1 ELSE 0

MutantForgotten == remembered

\* WHERE computed_at >= ?: six hours old is as good as absent.
Forgotten == [i \in Ip |-> -1]

\* Midnight. The poller has been through its jobs since the last one.
DayEnds ==
    /\ passes = Passes /\ due = {}
    /\ bound' = [i \in Ip |-> Less(bound[i])]
    /\ life' = [l \in List |-> [i \in Ip |-> Less(life[l][i])]]
    /\ remembered' = Forgotten /\ due' = Daily /\ passes' = 0
    /\ Free /\ UNCHANGED <<scores, refresh>>

RefreshStep(p) == ReadExisting(p) \/ WriteTag(p) \/ Written(p)

TagsNext ==
    \/ \E p \in Refresher : Qualify(p) \/ RefreshStep(p) \/ Stopped(p)
    \/ \E site \in Site : Download(site)
    \/ \E i \in Ip : Decision(i) \/ Rescored(i)
    \/ SaveHoneypot \/ DayEnds

TagsFairness ==
    /\ WF_tagsVars(focus \in {"targets", "lists"} /\ Qualify("poller")) /\ WF_tagsVars(focus \in {"targets", "lists"} /\ DayEnds)
    /\ \A p \in Refresher : WF_tagsVars(focus \in {"targets", "lists"} /\ RefreshStep(p))
    /\ \A site \in Site : WF_tagsVars(focus \in {"targets", "lists"} /\ Download(site))

-----------------------------------------------------------------------------
(* Properties *)

Qualified == {i \in active : score[i] >= floor}
Target == Top(Qualified)

\* Once scores and settings are quiet, an address without a ban or with too
\* low a score is no longer handed to the honeypot, although a score may be
\* remembered for hours and the page's refresh may write what it found
\* before the poller's; when the honeypot is switched off its targets lapse;
\* and while it is on exactly the targets are handed over again and again.
\* Not at every moment: while expired scores are computed, a few in each
\* cycle, addresses take part that the full list leaves no place for.
TargetsSettle ==
    /\ <>[](IF trapOn THEN InForce \subseteq Qualified ELSE InForce = {})
    /\ (<>[]trapOn) => []<>(InForce = Target)

\* Once the sites answer, a banned address on a downloaded list carries its
\* label without a gap: a label outlives the time to the next download.
ListedIsLabelled == <>[](focus = "lists" => \A l \in List : \A i \in OnList[l] \cap active : life[l][i] > 0)
=============================================================================
