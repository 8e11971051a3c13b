------------------------------ MODULE Firewall ------------------------------
(***************************************************************************)
(* The firewall check over time (blocking.refresh and cached, the          *)
(* poller's _check_blocking, the /mikrotik page): the verdict every page   *)
(* shows comes from a cache that the poller and the pages write, each      *)
(* after reading the routers' rules, and from a count of IPv6 bans that    *)
(* the reconciler notes when it differs from what its process noted last.  *)
(***************************************************************************)
EXTENDS Budget, Blocking

CONSTANTS
    Router,       \* the MikroTik targets
    Changing,     \* bound: the ones that change in a behaviour
    V4Rules,      \* rule tables an operator may install
    V6Rules,      \* the same for IPv6; <<>> is a router without IPv6
    Inspected     \* bound: the tables the analysis is held against

ASSUME FirewallAssumption ==
    /\ Changing \subseteq Router
    /\ V4Rules \cup Inspected \subseteq RuleTables /\ V6Rules \subseteq RuleTables \cup {<<>>}

Proc == {"poller", "page"}        \* the poller's process and another worker

VARIABLES
    router,     \* rules, number of IPv6 bans on the list, reachable or not,
                \* and the IPv6 tables whose read just fails
    noted,      \* setting blocking.v6_entries.<target>, -1 when absent
    noteSeen,   \* _V6_SEEN of each process
    check,      \* the check each process is in: the routers as it read them
    cache,      \* setting blocking.status, with what it was computed from
    mixed       \* history: routers whose count another process noted

firewallVars == <<router, noted, noteSeen, check, cache, mixed>>

RouterState == [v4 : V4Rules \cup Inspected, v6 : V6Rules \cup {<<>>}, n6 : 0..1, up : BOOLEAN,
                lost : SUBSET Table]
Count == -1..1

FirewallTypeOK ==
    /\ router \in [Router -> RouterState]
    /\ noted \in [Router -> Count] /\ noteSeen \in [Proc -> [Router -> Count]]
    /\ mixed \subseteq Router
    /\ \A p \in Proc : check[p] = {} \/ \E s \in check[p] : check[p] = {s} /\ DOMAIN s = Router
    /\ cache = {} \/ \E c \in cache : cache = {c} /\ DOMAIN c.of = Router /\ c.entries \in [Router -> Count]

FirewallInit ==
    /\ \E v4 \in IF focus = "rules" THEN Inspected ELSE V4Rules,
          v6 \in IF focus = "rules" THEN {<<>>} ELSE V6Rules :
         router = [r \in Router |-> [v4 |-> v4, v6 |-> v6, n6 |-> 0, up |-> TRUE, lost |-> {}]]
    /\ noted = [r \in Router |-> -1] /\ noteSeen = [p \in Proc |-> [r \in Router |-> -1]]
    /\ check = [p \in Proc |-> {}] /\ cache = {} /\ mixed = {}

-----------------------------------------------------------------------------
\* note_v6_entries, from a run of the reconciler that could read the router.
Note(p, r) ==
    /\ router[r].up /\ noteSeen[p][r] # router[r].n6
    /\ noted' = [noted EXCEPT ![r] = router[r].n6]
    /\ noteSeen' = [noteSeen EXCEPT ![p][r] = router[r].n6]
    /\ mixed' = IF p = "page" THEN mixed \cup {r} ELSE mixed
    /\ IF p = "poller" THEN Free ELSE Event
    /\ UNCHANGED <<router, check, cache>>

\* check_target of every router, up to the write of the cache.
Fetch(p) ==
    /\ check[p] = {}
    /\ check' = [check EXCEPT ![p] = {router}]
    /\ IF p = "poller" THEN Free ELSE Event
    /\ UNCHANGED <<router, noted, noteSeen, cache, mixed>>

\* fetch_rules_api and fetch_rules_rest: an IPv6 table whose read fails is
\* taken for one the router does not have; without both, for a router
\* without an IPv6 firewall.
Readable(s) ==
    IF s.v6 = <<>> \/ s.lost = Table THEN <<>>
    ELSE [t \in Table |-> IF t \in s.lost THEN <<>> ELSE s.v6[t]]

CheckTarget(s, entries) == IF s.up THEN Analyze(s.v4, Readable(s), entries) ELSE Unknown

Verdicts(snap, entries) == [r \in Router |-> CheckTarget(snap[r], entries[r])]

\* The status every page shows, a function of what the check found.
Shown(c) == Summarize(Verdicts(c.of, c.entries))

\* refresh: the count is read with the verdicts; the cache is one setting.
Store(p) ==
    /\ \E snap \in check[p] : cache' = {[of |-> snap, entries |-> noted]}
    /\ check' = [check EXCEPT ![p] = {}]
    /\ Free /\ UNCHANGED <<router, noted, noteSeen, mixed>>

\* The world: an operator edits rules, bans come and go, a router is away or
\* does not answer for IPv6.
EditRules(r) ==
    /\ \/ \E v4 \in V4Rules : router' = [router EXCEPT ![r].v4 = v4]
       \/ \E v6 \in V6Rules : router' = [router EXCEPT ![r].v6 = v6]
    /\ Event /\ UNCHANGED <<noted, noteSeen, check, cache, mixed>>

BansChange(r) ==
    /\ router' = [router EXCEPT ![r].n6 = 1 - @]
    /\ Event /\ UNCHANGED <<noted, noteSeen, check, cache, mixed>>

GoesAway(r) ==
    /\ router[r].up /\ router' = [router EXCEPT ![r].up = FALSE]
    /\ Fault /\ UNCHANGED <<noted, noteSeen, check, cache, mixed>>

Loses(r, tables) ==
    /\ router[r].up /\ router[r].v6 # <<>> /\ tables # {} /\ router' = [router EXCEPT ![r].lost = tables]
    /\ Fault /\ UNCHANGED <<noted, noteSeen, check, cache, mixed>>

ComesBack(r) ==
    /\ ~router[r].up \/ router[r].lost # {}
    /\ router' = [router EXCEPT ![r].up = TRUE, ![r].lost = {}]
    /\ Free /\ UNCHANGED <<noted, noteSeen, check, cache, mixed>>

FirewallNext ==
    \/ \E p \in Proc : (\E r \in Router : Note(p, r)) \/ Fetch(p) \/ Store(p)
    \/ \E r \in Changing : \/ EditRules(r) \/ BansChange(r) \/ GoesAway(r) \/ ComesBack(r)
                           \/ \E tables \in SUBSET Table : Loses(r, tables)

FirewallFairness ==
    /\ \A r \in Router : /\ WF_firewallVars(focus = "firewall" /\ Note("poller", r))
                        /\ WF_firewallVars(focus = "firewall" /\ ComesBack(r))
    /\ WF_firewallVars(focus = "firewall" /\ Fetch("poller"))
    /\ \A p \in Proc : WF_firewallVars(focus = "firewall" /\ Store(p))

-----------------------------------------------------------------------------
(* Properties *)

\* The analysis of the rules agrees with what the router does with a packet
\* of a banned source (Blocking.tla), for IPv4 and IPv6.
AnalysisAgrees == \A r \in Router : Agrees(router[r].v4) /\ (router[r].v6 # <<>> => Agrees(router[r].v6))

\* What a green pill stands for: every router was read, and its rules, as
\* far as the analysis looks, stop IPv4 packets of a banned source both to
\* the router and through it.  Of IPv6, when the router has such a firewall,
\* bans were noted and it could be read at least in part, only that packets
\* in one of the two directions are stopped: that is all a "blocking" IPv6
\* verdict says.
GreenMeansStopped ==
    \A c \in cache : Pill(Shown(c)) = "ok" =>
        \A r \in Router :
            LET s == c.of[r]
            IN /\ s.up
               /\ Straight(s.v4) => \A dir \in Direction : Stopper(s.v4, dir, FALSE) # {}
               /\ s.v6 # <<>> /\ s.lost # Table /\ c.entries[r] # 0 /\ Straight(s.v6) =>
                    \E dir \in Direction : Stopper(s.v6, dir, FALSE) # {}

\* Once nobody edits rules or bans and the routers answer, the verdict
\* shown becomes and stays that of the routers as they are, although an
\* older check may still write the cache late; the count of a router that a
\* run in another process noted is excepted.
VerdictSettles ==
    <>[](focus # "firewall" \/ mixed # {} 
         \/ \E c \in cache : Shown(c) = Summarize(Verdicts(router, [r \in Router |-> router[r].n6])))
=============================================================================
