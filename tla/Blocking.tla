------------------------------ MODULE Blocking ------------------------------
(***************************************************************************)
(* blocking.py: does a router drop what Protek pushes? The pure analysis   *)
(* of a router's rules, and beside it what RouterOS does with a packet of  *)
(* a banned source, to hold the analysis against.                          *)
(*                                                                         *)
(* A rule is a record                                                      *)
(*   chain  input, forward, prerouting, output, or custom                  *)
(*   act    accept, drop (drop, reject, tarpit), jump (to custom), other   *)
(*   on     neither disabled nor invalid                                   *)
(*   list   src-address-list is Protek's list                              *)
(*   cond   some other key restricts what the rule matches                 *)
(* and the tables of a router are a function from {"raw", "filter"} to     *)
(* sequences of rules.                                                     *)
(***************************************************************************)
EXTENDS Integers, Sequences, FiniteSets, FiniteSetsExt

Direction == {"input", "forward"}
Table == {"raw", "filter"}

Rule == [chain : {"input", "forward", "prerouting", "output", "custom"}, act : {"accept", "drop", "jump", "other"},
         on : BOOLEAN, list : BOOLEAN, cond : BOOLEAN]
RuleTables == [Table -> Seq(Rule)]

\* _BUILTIN: what a packet from outside always goes through.
Builtin == [t \in Table |-> IF t = "raw" THEN {"prerouting"} ELSE {"input", "forward"}]
Covers(chain) == IF chain = "prerouting" THEN Direction ELSE {chain}
Irrelevant == {"output"}

Severity == <<"none", "disabled", "shadowed", "unknown", "unverified", "blocking">>
Grade(status) == CHOOSE i \in DOMAIN Severity : Severity[i] = status

-----------------------------------------------------------------------------
(* The analysis *)

UnconditionalAccept(r) == r.act = "accept" /\ r.on /\ ~r.list /\ ~r.cond

MutantShadowed(rules, i) == \E j \in 1..(i - 1) : UnconditionalAccept(rules[j])

\* seen_accept_all when the loop comes to rule i.
Shadowed(rules, i) == \E j \in 1..(i - 1) : UnconditionalAccept(rules[j]) /\ rules[j].chain = rules[i].chain

ListRule(r) == r.list /\ r.act = "drop" /\ r.chain \notin Irrelevant

Matches(tables) == UNION {{<<t, i>> : i \in {j \in DOMAIN tables[t] : ListRule(tables[t][j])}} : t \in Table}

AnalyzeFamily(tables) ==
    LET rule(m) == tables[m[1]][m[2]]
        matches == Matches(tables)
        enabled == {m \in matches : rule(m).on}
        live == {m \in enabled : ~Shadowed(tables[m[1]], m[2])}
        builtin == {m \in live : rule(m).chain \in Builtin[m[1]]}
    IN [status |-> CASE builtin # {} -> "blocking"
                     [] builtin = {} /\ live # {} -> "unverified"
                     [] live = {} /\ enabled # {} -> "shadowed"
                     [] enabled = {} /\ matches # {} -> "disabled"
                     [] OTHER -> "none",
        coverage |-> UNION {Covers(rule(m).chain) : m \in builtin}]

\* v6 is the empty function when the router has no IPv6 firewall; entries is
\* the noted number of IPv6 bans, or -1 when none was noted yet.
Analyze(v4, v6, entries) ==
    LET four == AnalyzeFamily(v4)
        gap == /\ four.status = "blocking" /\ entries # 0
               /\ v6 # <<>> /\ AnalyzeFamily(v6).status # "blocking"
    IN [status |-> four.status, gap |-> gap,
        warned |-> gap \/ (four.status = "blocking" /\ four.coverage # Direction)]

\* check_target when the rules could not be read.
Unknown == [status |-> "unknown", gap |-> FALSE, warned |-> FALSE]

\* summarize: the worst target, and whether one that blocks leaves a gap.
Summarize(results) ==
    LET worst == Min({Grade(results[t].status) : t \in DOMAIN results})
    IN [status |-> Severity[worst],
        partial |-> \E t \in DOMAIN results : results[t].status = "blocking" /\ results[t].warned]

Pill(sum) ==
    CASE sum.status = "blocking" -> IF sum.partial THEN "warn" ELSE "ok"
      [] sum.status \in {"unverified", "unknown"} -> "warn"
      [] OTHER -> "down"

-----------------------------------------------------------------------------
(* The reference: what happens to a packet of a banned source. It meets    *)
(* the conditions of no rule (cond = FALSE) or of every rule.              *)

Hits(r, cond) == r.on /\ (r.cond => cond)

First(rules, S) == rules[Min(S)]

\* The rule that ends the walk through a chain, or "none" in an empty set.
EndsIn(rules, chain, cond) ==
    LET of(c) == {i \in DOMAIN rules : rules[i].chain = c /\ Hits(rules[i], cond)}
        ends(S) == {i \in S : rules[i].act \in {"accept", "drop"}}
        inside == ends(of("custom"))
        jumps == {i \in of(chain) : rules[i].act = "jump" /\ inside # {}}
        S == ends(of(chain)) \cup jumps
    IN IF S = {} THEN {}
       ELSE IF First(rules, S).act = "jump" THEN {First(rules, inside)} ELSE {First(rules, S)}

\* The rule that stops a packet on its way in: raw first, where an accept
\* only ends the raw table, then the chain of its direction.
Stopper(tables, dir, cond) ==
    LET drops(S) == {r \in S : r.act = "drop"}
        raw == drops(EndsIn(tables["raw"], "prerouting", cond))
    IN IF raw # {} THEN raw ELSE drops(EndsIn(tables["filter"], dir, cond))

\* What the analysis does not look at: jumps, an accept for the list itself,
\* and further conditions on a rule that drops it.
Straight(tables) ==
    \A t \in Table : \A i \in DOMAIN tables[t] :
        LET r == tables[t][i] IN r.act # "jump" /\ (r.list => r.act = "drop" /\ ~r.cond)

\* The verdict against the reference, for every direction:
\*  - no verdict of none, disabled or shadowed while a rule for the list
\*    stops some packet;
\*  - where the verdict is blocking and covers the direction, a packet is
\*    stopped (as far as the analysis looks: see Straight);
\*  - where it does not, no rule for the list in a built-in chain stops one.
Agrees(tables) ==
    LET v == AnalyzeFamily(tables)
    IN \A dir \in Direction :
        /\ v.status \in {"none", "disabled", "shadowed"} =>
             \A cond \in BOOLEAN : \A r \in Stopper(tables, dir, cond) : ~r.list
        /\ Straight(tables) /\ dir \in v.coverage => Stopper(tables, dir, FALSE) # {}
        /\ Straight(tables) /\ dir \notin v.coverage =>
             \A cond \in BOOLEAN : \A r \in Stopper(tables, dir, cond) : ~r.list
=============================================================================
