---------------------------- MODULE InsightProofs ----------------------------
(***************************************************************************)
(* Proofs about Insight and its parts, for any routers and rules, workers, *)
(* networks, addresses, peers and bounds.                                  *)
(***************************************************************************)
EXTENDS Insight, TLAPS, WellFoundedInduction, FiniteSetTheorems

-----------------------------------------------------------------------------
(* Least elements *)

LEMMA NatMin ==
    ASSUME NEW S, S \subseteq Nat, S # {}
    PROVE  \E x \in S : \A y \in S : x <= y
<1> DEFINE R == OpToRel(<, Nat)
<1>1. IsWellFoundedOn(R, Nat)
  BY NatLessThanWellFounded
<1>2. \A x, y \in Nat : x < y => <<x, y>> \in R
  BY DEF OpToRel
<1> HIDE DEF R
<1>3. PICK x \in S : \A y \in S : ~ (<<y, x>> \in R)
  BY <1>1, WFMin
<1>4. ASSUME NEW y \in S PROVE x <= y
  <2>1. x \in Nat /\ y \in Nat /\ ~(y < x)
    BY <1>2, <1>3, Zenon
  <2> QED BY <2>1
<1> QED BY <1>4

LEMMA MinIs ==
    ASSUME NEW S, S \subseteq Nat, S # {}
    PROVE  Min(S) \in S /\ \A y \in S : Min(S) <= y
  BY NatMin DEF Min

-----------------------------------------------------------------------------
(* The analysis of rules against the walk of a packet *)

\* The rules of a chain that end a packet's walk when they apply to it.
Ends(rules, chain, cond) ==
    {i \in DOMAIN rules : rules[i].chain = chain /\ Hits(rules[i], cond) /\ rules[i].act \in {"accept", "drop"}}

\* A rule that ends a walk is the first of its chain that does.
EndsAt(rules, chain, cond, i) ==
    /\ i \in Ends(rules, chain, cond)
    /\ \A j \in Ends(rules, chain, cond) : i <= j

LEMMA RuleAt ==
    ASSUME NEW rules \in Seq(Rule), NEW i \in DOMAIN rules
    PROVE  i \in Nat /\ rules[i] \in Rule
  OBVIOUS

\* What EndsIn finds is the first in the chain itself, or in the custom chain.
LEMMA EndsInIsFirst ==
    ASSUME NEW rules \in Seq(Rule), NEW chain, NEW cond \in BOOLEAN, NEW r \in EndsIn(rules, chain, cond)
    PROVE  \E i \in DOMAIN rules :
             /\ r = rules[i]
             /\ EndsAt(rules, chain, cond, i) \/ EndsAt(rules, "custom", cond, i)
<1> DEFINE of(c) == {i \in DOMAIN rules : rules[i].chain = c /\ Hits(rules[i], cond)}
           ends(S) == {i \in S : rules[i].act \in {"accept", "drop"}}
           inside == ends(of("custom"))
           jumps == {i \in of(chain) : rules[i].act = "jump" /\ inside # {}}
           S == ends(of(chain)) \cup jumps
<1>1. \A c : ends(of(c)) = Ends(rules, c, cond)
  BY DEF Ends
<1>2. S \subseteq Nat /\ S \subseteq DOMAIN rules /\ inside \subseteq Nat /\ inside \subseteq DOMAIN rules
  BY RuleAt
<1>3. S # {} /\ (IF rules[Min(S)].act = "jump" THEN r = rules[Min(inside)] ELSE r = rules[Min(S)])
  BY DEF EndsIn, First
<1>4. CASE rules[Min(S)].act = "jump"
  <2>1. Min(S) \in S
    BY <1>2, <1>3, MinIs
  <2>2. inside # {}
    BY <1>4, <2>1
  <2>3. Min(inside) \in inside /\ \A y \in inside : Min(inside) <= y
    BY <1>2, <2>2, MinIs
  <2> QED BY <1>1, <1>2, <1>3, <1>4, <2>3 DEF EndsAt
<1>5. CASE rules[Min(S)].act # "jump"
  <2>1. Min(S) \in S /\ \A y \in S : Min(S) <= y
    BY <1>2, <1>3, MinIs
  <2>2. Min(S) \in ends(of(chain))
    BY <1>5, <2>1
  <2> QED BY <1>1, <1>2, <1>3, <1>5, <2>1, <2>2 DEF EndsAt
<1> QED BY <1>4, <1>5

\* Without jumps it is the first in the chain itself, and there is one when
\* some rule of the chain ends the walk.
LEMMA EndsInStraight ==
    ASSUME NEW rules \in Seq(Rule), NEW chain, NEW cond \in BOOLEAN,
           \A i \in DOMAIN rules : rules[i].act # "jump"
    PROVE  /\ \A r \in EndsIn(rules, chain, cond) :
                \E i \in DOMAIN rules : r = rules[i] /\ EndsAt(rules, chain, cond, i)
           /\ Ends(rules, chain, cond) # {} =>
                \E i \in DOMAIN rules : EndsIn(rules, chain, cond) = {rules[i]} /\ EndsAt(rules, chain, cond, i)
<1> DEFINE of(c) == {i \in DOMAIN rules : rules[i].chain = c /\ Hits(rules[i], cond)}
           ends(T) == {i \in T : rules[i].act \in {"accept", "drop"}}
           inside == ends(of("custom"))
           jumps == {i \in of(chain) : rules[i].act = "jump" /\ inside # {}}
           S == ends(of(chain)) \cup jumps
<1>1. S = Ends(rules, chain, cond)
  BY DEF Ends
<1>2. S \subseteq Nat /\ S \subseteq DOMAIN rules
  BY RuleAt
<1>3. EndsIn(rules, chain, cond) = IF S = {} THEN {} ELSE IF rules[Min(S)].act = "jump" THEN {rules[Min(inside)]} ELSE {rules[Min(S)]}
  BY DEF EndsIn, First
<1>4. ASSUME S # {} PROVE EndsIn(rules, chain, cond) = {rules[Min(S)]} /\ Min(S) \in DOMAIN rules /\ EndsAt(rules, chain, cond, Min(S))
  <2>1. Min(S) \in S /\ \A y \in S : Min(S) <= y
    BY <1>2, <1>4, MinIs
  <2> HIDE DEF S, inside
  <2>2. Min(S) \in DOMAIN rules
    BY <1>2, <2>1
  <2>3. EndsAt(rules, chain, cond, Min(S))
    BY <1>1, <2>1 DEF EndsAt
  <2> QED BY <1>3, <1>4, <2>2, <2>3
<1>5. ASSUME S = {} PROVE EndsIn(rules, chain, cond) = {}
  BY <1>3, <1>5
<1> HIDE DEF S
<1> QED BY <1>1, <1>4, <1>5

\* A rule that is the first of its chain to end a walk is not shadowed.
LEMMA FirstIsLive ==
    ASSUME NEW rules \in Seq(Rule), NEW chain, NEW cond \in BOOLEAN, NEW i \in DOMAIN rules,
           EndsAt(rules, chain, cond, i)
    PROVE  ~Shadowed(rules, i) /\ rules[i].on /\ rules[i].chain = chain
<1>1. i \in Nat /\ i \in 1..Len(rules) /\ rules[i].chain = chain /\ rules[i].on
  BY DEF EndsAt, Ends, Hits
<1>2. ASSUME NEW j \in 1..(i - 1), UnconditionalAccept(rules[j]), rules[j].chain = rules[i].chain PROVE FALSE
  <2>1. j \in DOMAIN rules /\ j < i /\ j \in Nat
    BY <1>1
  <2>2. j \in Ends(rules, chain, cond)
    BY <1>1, <1>2, <2>1 DEF Ends, Hits, UnconditionalAccept
  <2>3. i <= j
    BY <2>2 DEF EndsAt
  <2> QED BY <1>1, <2>1, <2>3
<1> QED BY <1>1, <1>2 DEF Shadowed

\* The rules AnalyzeFamily counts on, and those of them in a built-in chain.
Live(tables) == {m \in Matches(tables) : tables[m[1]][m[2]].on /\ ~Shadowed(tables[m[1]], m[2])}
InBuiltin(tables) == {m \in Live(tables) : tables[m[1]][m[2]].chain \in Builtin[m[1]]}

LEMMA FamilyVerdict ==
    ASSUME NEW tables
    PROVE  /\ AnalyzeFamily(tables).coverage = UNION {Covers(tables[m[1]][m[2]].chain) : m \in InBuiltin(tables)}
           /\ AnalyzeFamily(tables).status \in {"none", "disabled", "shadowed"} => Live(tables) = {}
           /\ AnalyzeFamily(tables).status \in {"none", "disabled", "shadowed", "unverified", "blocking"}
           /\ AnalyzeFamily(tables).status = "blocking" => InBuiltin(tables) # {}
<1> DEFINE enabled_ == {m \in Matches(tables) : tables[m[1]][m[2]].on}
           live_ == {m \in enabled_ : ~Shadowed(tables[m[1]], m[2])}
           builtin_ == {m \in live_ : tables[m[1]][m[2]].chain \in Builtin[m[1]]}
<1>1. live_ = Live(tables) /\ builtin_ = InBuiltin(tables)
  BY DEF Live, InBuiltin
<1>2. AnalyzeFamily(tables).coverage = UNION {Covers(tables[m[1]][m[2]].chain) : m \in builtin_}
  BY DEF AnalyzeFamily
<1>3. AnalyzeFamily(tables).status = CASE builtin_ # {} -> "blocking"
                     [] builtin_ = {} /\ live_ # {} -> "unverified"
                     [] live_ = {} /\ enabled_ # {} -> "shadowed"
                     [] enabled_ = {} /\ Matches(tables) # {} -> "disabled"
                     [] OTHER -> "none"
  BY DEF AnalyzeFamily
<1>4. live_ \subseteq enabled_ /\ enabled_ \subseteq Matches(tables) /\ builtin_ \subseteq live_
  OBVIOUS
<1> HIDE DEF enabled_, live_, builtin_
<1>5. AnalyzeFamily(tables).status \in {"none", "disabled", "shadowed"} => live_ = {}
  BY <1>3, <1>4
<1>6. AnalyzeFamily(tables).status \in {"none", "disabled", "shadowed", "unverified", "blocking"}
  BY <1>3
<1>7. AnalyzeFamily(tables).status = "blocking" => builtin_ # {}
  BY <1>3
<1> QED BY <1>1, <1>2, <1>5, <1>6, <1>7

LEMMA LiveIs ==
    ASSUME NEW tables, NEW t \in Table, NEW i \in DOMAIN tables[t],
           ListRule(tables[t][i]), tables[t][i].on, ~Shadowed(tables[t], i)
    PROVE  <<t, i>> \in Live(tables)
<1>1. <<t, i>> \in Matches(tables)
  BY DEF Matches
<1> QED BY <1>1 DEF Live

LEMMA LiveHas ==
    ASSUME NEW tables, NEW m \in InBuiltin(tables)
    PROVE  \E t \in Table : \E i \in DOMAIN tables[t] :
             /\ m = <<t, i>> /\ ListRule(tables[t][i]) /\ tables[t][i].on /\ ~Shadowed(tables[t], i)
             /\ tables[t][i].chain \in Builtin[t]
<1>1. m \in Matches(tables) /\ tables[m[1]][m[2]].on /\ ~Shadowed(tables[m[1]], m[2]) /\ tables[m[1]][m[2]].chain \in Builtin[m[1]]
  BY DEF InBuiltin, Live
<1>2. PICK t \in Table : \E i \in {j \in DOMAIN tables[t] : ListRule(tables[t][j])} : m = <<t, i>>
  BY <1>1 DEF Matches
<1> QED BY <1>1, <1>2

\* A rule for the list that stops a packet is one the analysis counts on.
LEMMA StopperIsLive ==
    ASSUME NEW tables \in RuleTables, NEW dir \in Direction, NEW cond \in BOOLEAN,
           NEW r \in Stopper(tables, dir, cond), r.list
    PROVE  Live(tables) # {}
<1>1. tables["raw"] \in Seq(Rule) /\ tables["filter"] \in Seq(Rule)
  BY DEF RuleTables, Table
<1>2. PICK t \in Table, chain \in {"prerouting", "input", "forward"} : r \in EndsIn(tables[t], chain, cond) /\ r.act = "drop"
  BY DEF Stopper, Table, Direction
<1>3. tables[t] \in Seq(Rule)
  BY <1>1 DEF Table
<1>4. PICK i \in DOMAIN tables[t] :
         r = tables[t][i] /\ (EndsAt(tables[t], chain, cond, i) \/ EndsAt(tables[t], "custom", cond, i))
  BY <1>2, <1>3, EndsInIsFirst
<1>5. ~Shadowed(tables[t], i) /\ r.on /\ r.chain \in {"prerouting", "input", "forward", "custom"}
  BY <1>3, <1>4, FirstIsLive
<1>6. ListRule(r)
  BY <1>2, <1>5 DEF ListRule, Irrelevant
<1> QED BY <1>4, <1>5, <1>6, LiveIs

\* Without jumps it is in a built-in chain on the packet's way.
LEMMA StopperIsBuiltin ==
    ASSUME NEW tables \in RuleTables, NEW dir \in Direction, NEW cond \in BOOLEAN,
           NEW r \in Stopper(tables, dir, cond), r.list, Straight(tables)
    PROVE  dir \in AnalyzeFamily(tables).coverage
<1>1. tables["raw"] \in Seq(Rule) /\ tables["filter"] \in Seq(Rule)
  BY DEF RuleTables, Table
<1>2. PICK t \in Table, chain \in {"prerouting", dir} :
         /\ r \in EndsIn(tables[t], chain, cond) /\ r.act = "drop"
         /\ (t = "raw" /\ chain = "prerouting") \/ (t = "filter" /\ chain = dir)
  BY DEF Stopper, Table
<1>3. tables[t] \in Seq(Rule) /\ \A i \in DOMAIN tables[t] : tables[t][i].act # "jump"
  BY <1>1 DEF Table, Straight
<1>4. PICK i \in DOMAIN tables[t] : r = tables[t][i] /\ EndsAt(tables[t], chain, cond, i)
  BY <1>2, <1>3, EndsInStraight
<1>5. ~Shadowed(tables[t], i) /\ r.on /\ r.chain = chain
  BY <1>3, <1>4, FirstIsLive
<1>6. ListRule(r)
  BY <1>2, <1>5 DEF ListRule, Irrelevant, Direction
<1>7. <<t, i>> \in Live(tables)
  BY <1>4, <1>5, <1>6, LiveIs
<1>8. chain \in Builtin[t] /\ dir \in Covers(chain)
  BY <1>2 DEF Builtin, Covers, Direction, Table
<1>9. <<t, i>> \in InBuiltin(tables)
  BY <1>4, <1>5, <1>7, <1>8 DEF InBuiltin
<1> QED BY <1>4, <1>5, <1>8, <1>9, FamilyVerdict

\* Where the analysis counts on a rule of a built-in chain, a packet is
\* stopped on its way through that chain at the latest.
LEMMA CoveredIsStopped ==
    ASSUME NEW tables \in RuleTables, NEW dir \in Direction, Straight(tables),
           dir \in AnalyzeFamily(tables).coverage
    PROVE  Stopper(tables, dir, FALSE) # {}
<1>1. tables["raw"] \in Seq(Rule) /\ tables["filter"] \in Seq(Rule)
  BY DEF RuleTables, Table
<1>2. PICK m \in InBuiltin(tables) : dir \in Covers(tables[m[1]][m[2]].chain)
  BY FamilyVerdict
<1>3. PICK t \in Table : \E i \in DOMAIN tables[t] :
             /\ m = <<t, i>> /\ ListRule(tables[t][i]) /\ tables[t][i].on /\ ~Shadowed(tables[t], i)
             /\ tables[t][i].chain \in Builtin[t]
  BY LiveHas
<1>4. PICK i \in DOMAIN tables[t] :
             /\ m = <<t, i>> /\ ListRule(tables[t][i]) /\ tables[t][i].on /\ ~Shadowed(tables[t], i)
             /\ tables[t][i].chain \in Builtin[t]
  BY <1>3
<1> DEFINE rules == tables[t]
           chain == rules[i].chain
<1>5. rules \in Seq(Rule) /\ (\A j \in DOMAIN rules : rules[j] \in Rule /\ rules[j].act # "jump")
  BY <1>1 DEF Table, Straight
<1>6. (t = "raw" /\ chain = "prerouting") \/ (t = "filter" /\ chain = dir)
  BY <1>2, <1>4 DEF Builtin, Covers, Table, Direction
<1>7. ~rules[i].cond /\ rules[i].act = "drop" /\ rules[i].on
  BY <1>4 DEF Straight, ListRule
<1> HIDE DEF chain
<1>8. i \in Ends(rules, chain, FALSE)
  BY <1>4, <1>7 DEF Ends, Hits, chain
<1>9. PICK j \in DOMAIN rules : EndsIn(rules, chain, FALSE) = {rules[j]} /\ EndsAt(rules, chain, FALSE, j)
  BY <1>5, <1>8, EndsInStraight
<1>10. /\ j <= i /\ rules[j].chain = chain /\ rules[j].on /\ ~rules[j].cond /\ rules[j].act \in {"accept", "drop"}
       /\ i \in Nat /\ j \in Nat /\ j >= 1
  BY <1>5, <1>8, <1>9 DEF EndsAt, Ends, Hits
<1>11. rules[j].act = "drop"
  <2> SUFFICES ASSUME rules[j].act = "accept" PROVE FALSE
    BY <1>10
  <2>1. ~rules[j].list
    BY <1>9 DEF Straight
  <2>2. j # i
    BY <1>7
  <2>3. j \in 1..(i - 1)
    BY <1>10, <2>2
  <2>4. UnconditionalAccept(rules[j]) /\ rules[j].chain = rules[i].chain
    BY <1>10, <2>1 DEF UnconditionalAccept, chain
  <2> QED BY <1>4, <2>3, <2>4 DEF Shadowed
<1> QED BY <1>6, <1>9, <1>11 DEF Stopper

\* For every rule tables, the verdict of the analysis (blocking.py) agrees
\* with what the router does with a packet of a banned source: no list rule
\* that stops one is missed or called shadowed, a direction reported as
\* covered is stopped, and one reported as a gap has no such rule.
THEOREM AnalysisIsRight == \A tables \in RuleTables : Agrees(tables)
<1> SUFFICES ASSUME NEW tables \in RuleTables, NEW dir \in Direction
             PROVE  LET v == AnalyzeFamily(tables) IN
                    /\ v.status \in {"none", "disabled", "shadowed"} =>
                         \A cond \in BOOLEAN : \A r \in Stopper(tables, dir, cond) : ~r.list
                    /\ Straight(tables) /\ dir \in v.coverage => Stopper(tables, dir, FALSE) # {}
                    /\ Straight(tables) /\ dir \notin v.coverage =>
                         \A cond \in BOOLEAN : \A r \in Stopper(tables, dir, cond) : ~r.list
  BY DEF Agrees
<1>1. ASSUME AnalyzeFamily(tables).status \in {"none", "disabled", "shadowed"},
             NEW cond \in BOOLEAN, NEW r \in Stopper(tables, dir, cond)
      PROVE  ~r.list
  BY <1>1, FamilyVerdict, StopperIsLive
<1>2. ASSUME Straight(tables), dir \in AnalyzeFamily(tables).coverage PROVE Stopper(tables, dir, FALSE) # {}
  BY <1>2, CoveredIsStopped
<1>3. ASSUME Straight(tables), dir \notin AnalyzeFamily(tables).coverage,
             NEW cond \in BOOLEAN, NEW r \in Stopper(tables, dir, cond)
      PROVE  ~r.list
  BY <1>3, StopperIsBuiltin
<1> QED BY <1>1, <1>2, <1>3

-----------------------------------------------------------------------------
(* The firewall check over time *)

\* Beside the type: what a check has read and what the cache was computed
\* from are routers as they can be.
FirewallInv ==
    /\ FirewallTypeOK
    /\ check \in [Proc -> SUBSET [Router -> RouterState]]
    /\ cache \subseteq [of : [Router -> RouterState], entries : [Router -> Count]]

LEMMA GradeIs ==
    ASSUME NEW status \in {"none", "disabled", "shadowed", "unknown", "unverified", "blocking"}
    PROVE  Grade(status) \in 1..6 /\ Severity[Grade(status)] = status
<1>1. \E i \in 1..6 : Severity[i] = status
  <2>1. /\ Severity[1] = "none" /\ Severity[2] = "disabled" /\ Severity[3] = "shadowed" /\ Severity[4] = "unknown"
        /\ Severity[5] = "unverified" /\ Severity[6] = "blocking"
    BY DEF Severity
  <2> QED BY <2>1
<1>2. DOMAIN Severity = 1..6
  BY DEF Severity
<1> QED BY <1>1, <1>2 DEF Grade

LEMMA OnlyBlockingIsSix ==
    ASSUME NEW m \in 1..6, Severity[m] = "blocking"
    PROVE  m = 6
  BY DEF Severity

LEMMA WarnedIs ==
    ASSUME NEW v4, NEW v6, NEW n, AnalyzeFamily(v4).status = "blocking", ~Analyze(v4, v6, n).warned
    PROVE  AnalyzeFamily(v4).coverage = Direction /\ (v6 # <<>> /\ n # 0 => AnalyzeFamily(v6).status = "blocking")
<1> DEFINE four == AnalyzeFamily(v4)
           gap == /\ four.status = "blocking" /\ n # 0
                  /\ v6 # <<>> /\ AnalyzeFamily(v6).status # "blocking"
           part == four.status = "blocking" /\ four.coverage # Direction
<1>1. Analyze(v4, v6, n) = [status |-> four.status, gap |-> gap, warned |-> gap \/ part]
  BY Zenon DEF Analyze
<1> HIDE DEF four, gap, part
<1>2. Analyze(v4, v6, n).warned = (gap \/ part)
  BY <1>1
<1>3. ~(gap \/ part)
  BY <1>2
<1> QED BY <1>3 DEF four, gap, part

\* A green pill: every router was read and found blocking both ways.
LEMMA GreenIs ==
    ASSUME NEW of \in [Router -> RouterState], NEW entries, NEW r \in Router,
           Pill(Summarize(Verdicts(of, entries))) = "ok"
    PROVE  /\ of[r].up
           /\ AnalyzeFamily(of[r].v4).coverage = Direction
           /\ Readable(of[r]) # <<>> /\ entries[r] # 0 => AnalyzeFamily(Readable(of[r])).status = "blocking"
<1> DEFINE results == Verdicts(of, entries)
           S == {Grade(results[t].status) : t \in DOMAIN results}
<1>1. DOMAIN results = Router /\ \A t \in Router : results[t] = CheckTarget(of[t], entries[t])
  BY DEF Verdicts
<1>2. \A t \in Router : results[t].status \in {"none", "disabled", "shadowed", "unknown", "unverified", "blocking"}
  <2> SUFFICES ASSUME NEW t \in Router PROVE results[t].status \in {"none", "disabled", "shadowed", "unknown", "unverified", "blocking"}
    OBVIOUS
  <2>1. CASE of[t].up
    BY <1>1, <2>1, FamilyVerdict DEF CheckTarget, Analyze
  <2>2. CASE ~of[t].up
    BY <1>1, <2>2 DEF CheckTarget, Unknown
  <2> QED BY <2>1, <2>2
<1> HIDE DEF results
<1>3. Severity[Min(S)] = "blocking" /\ \A t \in Router : ~(results[t].status = "blocking" /\ results[t].warned)
  <2> DEFINE sum == Summarize(results)
  <2>1. sum.status = Severity[Min(S)] /\ sum.partial = (\E t \in DOMAIN results : results[t].status = "blocking" /\ results[t].warned)
    BY DEF Summarize
  <2>2. Pill(sum) = "ok"
    BY DEF results
  <2> HIDE DEF sum
  <2>3. sum.status = "blocking" /\ ~sum.partial
    BY <2>2 DEF Pill
  <2> QED BY <1>1, <2>1, <2>3
<1>4. S \subseteq 1..6
  BY <1>1, <1>2, GradeIs
<1>5. Grade(results[r].status) \in S
  BY <1>1
<1> HIDE DEF S
<1>6. Min(S) \in S /\ Min(S) <= Grade(results[r].status)
  <2>1. S \subseteq Nat /\ S # {}
    BY <1>4, <1>5
  <2> QED BY <1>5, <2>1, MinIs
<1>7. Min(S) = 6 /\ Grade(results[r].status) = 6
  <2>1. Min(S) = 6
    BY <1>3, <1>4, <1>6, OnlyBlockingIsSix
  <2>2. PICK k \in 1..6 : k = Grade(results[r].status) /\ 6 <= k
    BY <1>4, <1>5, <1>6, <2>1
  <2>3. k = 6
    BY <2>2
  <2> QED BY <2>1, <2>2, <2>3
<1>8. results[r].status = "blocking"
  BY <1>2, <1>3, <1>7, GradeIs
<1>9. results[r] = CheckTarget(of[r], entries[r]) /\ ~results[r].warned
  BY <1>1, <1>3, <1>8
<1>10. of[r].up
  BY <1>8, <1>9 DEF CheckTarget, Unknown
<1>11. results[r] = Analyze(of[r].v4, Readable(of[r]), entries[r])
  BY <1>9, <1>10 DEF CheckTarget
<1>12. AnalyzeFamily(of[r].v4).status = "blocking"
  BY <1>8, <1>11 DEF Analyze
<1> QED BY <1>9, <1>10, <1>11, <1>12, WarnedIs

\* Rules that were read in part and found blocking stop packets in some
\* direction: what was not read can only stop more of them.
LEMMA ReadInPart ==
    ASSUME NEW s \in RouterState, s.v6 \in RuleTables, s.v6 # <<>>, s.lost # Table, Straight(s.v6),
           AnalyzeFamily(Readable(s)).status = "blocking"
    PROVE  \E dir \in Direction : Stopper(s.v6, dir, FALSE) # {}
<1> DEFINE R == Readable(s)
<1>1. R = [t \in Table |-> IF t \in s.lost THEN <<>> ELSE s.v6[t]]
  BY DEF Readable
<1>2. \A t \in Table : R[t] = IF t \in s.lost THEN <<>> ELSE s.v6[t]
  BY <1>1
<1>3. R \in RuleTables
  <2>1. \A t \in Table : s.v6[t] \in Seq(Rule) /\ <<>> \in Seq(Rule)
    BY DEF RuleTables
  <2> QED BY <1>1, <2>1 DEF RuleTables
<1>4. \A t \in Table : t \in s.lost => DOMAIN R[t] = {}
  BY <1>2
<1>5. Straight(R)
  <2> HIDE DEF R
  <2>1. ASSUME NEW t \in Table, NEW i \in DOMAIN R[t] PROVE R[t] = s.v6[t]
    BY <1>2, <1>4, <2>1
  <2> QED BY <2>1 DEF Straight
<1> HIDE DEF R
<1>6. PICK m : m \in InBuiltin(R)
  <2>1. AnalyzeFamily(R).status = "blocking"
    BY DEF R
  <2> QED BY <2>1, FamilyVerdict
<1>7. PICK t \in Table : \E i \in DOMAIN R[t] : m = <<t, i>> /\ R[t][i].chain \in Builtin[t]
  BY <1>6, LiveHas
<1>8. PICK dir \in Direction : dir \in Covers(R[m[1]][m[2]].chain)
  <2>1. R[m[1]][m[2]].chain \in {"prerouting", "input", "forward"}
    BY <1>7 DEF Builtin, Table
  <2> QED BY <2>1 DEF Covers, Direction
<1>9. dir \in AnalyzeFamily(R).coverage
  BY <1>6, <1>8, FamilyVerdict
<1>10. Stopper(R, dir, FALSE) # {}
  BY <1>3, <1>5, <1>9, CoveredIsStopped
<1>11. \A chain : EndsIn(<<>>, chain, FALSE) = {}
  BY DEF EndsIn
<1> DEFINE raw(tables) == {r \in EndsIn(tables["raw"], "prerouting", FALSE) : r.act = "drop"}
           fil(tables) == {r \in EndsIn(tables["filter"], dir, FALSE) : r.act = "drop"}
<1>12. \A tables : Stopper(tables, dir, FALSE) = IF raw(tables) # {} THEN raw(tables) ELSE fil(tables)
  BY DEF Stopper
<1>13. R["raw"] \in {<<>>, s.v6["raw"]} /\ R["filter"] \in {<<>>, s.v6["filter"]}
  BY <1>2 DEF Table
<1>14. raw(R) \subseteq raw(s.v6) /\ fil(R) \subseteq fil(s.v6)
  BY <1>11, <1>13
<1>15. raw(R) # {} \/ fil(R) # {}
  BY <1>10, <1>12
<1> QED BY <1>12, <1>14, <1>15

\* What the two verdicts of the firewall check promise follows from types.
LEMMA VerdictFromTypes ==
    ASSUME FirewallInv
    PROVE  VerdictSound
<1> USE FirewallAssumption
<1>1. \A s \in RouterState : s.v4 \in RuleTables /\ (s.v6 # <<>> => s.v6 \in RuleTables)
  BY DEF RouterState
<1>2. AnalysisAgrees
  <2> SUFFICES ASSUME NEW r \in Router PROVE Agrees(router[r].v4) /\ (router[r].v6 # <<>> => Agrees(router[r].v6))
    BY DEF AnalysisAgrees
  <2>1. router[r] \in RouterState
    BY DEF FirewallInv, FirewallTypeOK
  <2> QED BY <1>1, <2>1, AnalysisIsRight
<1>3. GreenMeansStopped
  <2> SUFFICES ASSUME NEW c \in cache, Pill(Shown(c)) = "ok", NEW r \in Router
               PROVE  /\ c.of[r].up
                      /\ Straight(c.of[r].v4) => \A dir \in Direction : Stopper(c.of[r].v4, dir, FALSE) # {}
                      /\ /\ c.of[r].v6 # <<>> /\ c.of[r].lost # Table /\ c.entries[r] # 0 /\ Straight(c.of[r].v6)
                         => \E dir \in Direction : Stopper(c.of[r].v6, dir, FALSE) # {}
    BY DEF GreenMeansStopped
  <2>1. c.of \in [Router -> RouterState]
    BY DEF FirewallInv
  <2>2. /\ c.of[r].up
        /\ AnalyzeFamily(c.of[r].v4).coverage = Direction
        /\ Readable(c.of[r]) # <<>> /\ c.entries[r] # 0 => AnalyzeFamily(Readable(c.of[r])).status = "blocking"
    BY <2>1, GreenIs DEF Shown
  <2>3. c.of[r] \in RouterState /\ c.of[r].v4 \in RuleTables /\ (c.of[r].v6 # <<>> => c.of[r].v6 \in RuleTables)
    BY <1>1, <2>1
  <2>4. Straight(c.of[r].v4) => \A dir \in Direction : Stopper(c.of[r].v4, dir, FALSE) # {}
    BY <2>2, <2>3, CoveredIsStopped
  <2>5. ASSUME c.of[r].v6 # <<>>, c.of[r].lost # Table, c.entries[r] # 0, Straight(c.of[r].v6)
        PROVE  \E dir \in Direction : Stopper(c.of[r].v6, dir, FALSE) # {}
    <3>1. Readable(c.of[r]) # <<>>
      <4>1. DOMAIN Readable(c.of[r]) = Table /\ "raw" \in Table /\ "raw" \notin DOMAIN <<>>
        BY <2>5 DEF Readable, Table
      <4> QED BY <4>1
    <3> QED BY <2>2, <2>3, <2>5, <3>1, ReadInPart
  <2> QED BY <2>2, <2>4, <2>5
<1> QED BY <1>2, <1>3 DEF VerdictSound

\* Every action is free or spends one of the behaviour's events or faults.
Budgeted == Free \/ Event \/ Fault

LEMMA BudgetStep ==
    ASSUME BudgetTypeOK, Budgeted
    PROVE  BudgetTypeOK' /\ focus' = focus
  BY DEF BudgetTypeOK, Budgeted, Free, Event, Fault, Spend

LEMMA FirewallStart ==
    ASSUME FirewallInit
    PROVE  FirewallInv
<1> USE DEF FirewallInit
<1>1. router \in [Router -> RouterState]
  BY DEF RouterState
<1>2. noted \in [Router -> Count] /\ noteSeen \in [Proc -> [Router -> Count]] /\ mixed \subseteq Router
  BY DEF Count
<1>3. check \in [Proc -> SUBSET [Router -> RouterState]] /\ cache = {} /\ \A p \in Proc : check[p] = {}
  OBVIOUS
<1> QED BY <1>1, <1>2, <1>3 DEF FirewallInv, FirewallTypeOK

\* The rules change, or what is noted, but not what was read.
LEMMA FirewallWorld ==
    ASSUME FirewallInv, NEW r \in Router, NEW tables \in SUBSET Table,
           EditRules(r) \/ BansChange(r) \/ GoesAway(r) \/ ComesBack(r) \/ Loses(r, tables)
    PROVE  FirewallInv' /\ Budgeted
<1>1. router' \in [Router -> RouterState]
  <2>1. router \in [Router -> RouterState] /\ router[r] \in RouterState
    BY DEF FirewallInv, FirewallTypeOK
  <2>2. ASSUME EditRules(r) PROVE router' \in [Router -> RouterState]
    BY <2>1, <2>2 DEF EditRules, RouterState
  <2>3. ASSUME BansChange(r) PROVE router' \in [Router -> RouterState]
    <3>1. router[r].n6 \in 0..1 /\ 1 - router[r].n6 \in 0..1
      BY <2>1 DEF RouterState
    <3> QED BY <2>1, <2>3, <3>1 DEF BansChange, RouterState
  <2>4. ASSUME GoesAway(r) \/ ComesBack(r) PROVE router' \in [Router -> RouterState]
    <3>1. CASE GoesAway(r)
      BY <2>1, <3>1 DEF GoesAway, RouterState
    <3>2. CASE ComesBack(r)
      <4>1. router' = [router EXCEPT ![r] = [router[r] EXCEPT !.up = TRUE, !.lost = {}]]
        BY <2>1, <3>2 DEF ComesBack
      <4>2. [router[r] EXCEPT !.up = TRUE, !.lost = {}] \in RouterState
        BY <2>1 DEF RouterState
      <4> QED BY <2>1, <4>1, <4>2
    <3> QED BY <2>4, <3>1, <3>2
  <2>5. ASSUME Loses(r, tables) PROVE router' \in [Router -> RouterState]
    BY <2>1, <2>5 DEF Loses, RouterState
  <2> QED BY <2>2, <2>3, <2>4, <2>5
<1>2. UNCHANGED <<noted, noteSeen, check, cache, mixed>> /\ Budgeted
  BY DEF EditRules, BansChange, GoesAway, ComesBack, Loses, Budgeted
<1> QED BY <1>1, <1>2 DEF FirewallInv, FirewallTypeOK

LEMMA NoteStep ==
    ASSUME FirewallInv, NEW p \in Proc, NEW r \in Router, Note(p, r)
    PROVE  FirewallInv' /\ Budgeted
<1>1. router[r] \in RouterState /\ router[r].n6 \in Count
  BY DEF FirewallInv, FirewallTypeOK, RouterState, Count
<1>2. noted' \in [Router -> Count] /\ noteSeen' \in [Proc -> [Router -> Count]] /\ mixed' \subseteq Router
  BY <1>1 DEF FirewallInv, FirewallTypeOK, Note
<1>3. UNCHANGED <<router, check, cache>> /\ Budgeted
  BY DEF Note, Budgeted
<1> QED BY <1>2, <1>3 DEF FirewallInv, FirewallTypeOK

LEMMA FetchStep ==
    ASSUME FirewallInv, NEW p \in Proc, Fetch(p)
    PROVE  FirewallInv' /\ Budgeted
<1>1. router \in [Router -> RouterState] /\ DOMAIN router = Router
  BY DEF FirewallInv, FirewallTypeOK
<1>2. check' \in [Proc -> SUBSET [Router -> RouterState]]
  BY <1>1 DEF FirewallInv, Fetch
<1>3. \A q \in Proc : check'[q] = {} \/ \E s \in check'[q] : check'[q] = {s} /\ DOMAIN s = Router
  <2> SUFFICES ASSUME NEW q \in Proc PROVE check'[q] = {} \/ \E s \in check'[q] : check'[q] = {s} /\ DOMAIN s = Router
    OBVIOUS
  <2>1. check'[q] = check[q] \/ check'[q] = {router}
    BY DEF FirewallInv, Fetch
  <2> QED BY <1>1, <2>1 DEF FirewallInv, FirewallTypeOK
<1>4. UNCHANGED <<router, noted, noteSeen, cache, mixed>> /\ Budgeted
  BY DEF Fetch, Budgeted
<1> QED BY <1>2, <1>3, <1>4 DEF FirewallInv, FirewallTypeOK

LEMMA StoreStep ==
    ASSUME FirewallInv, NEW p \in Proc, Store(p)
    PROVE  FirewallInv' /\ Budgeted
<1>1. PICK snap \in check[p] : cache' = {[of |-> snap, entries |-> noted]}
  BY DEF Store
<1>2. snap \in [Router -> RouterState] /\ noted \in [Router -> Count]
  BY DEF FirewallInv, FirewallTypeOK
<1>3. cache' \subseteq [of : [Router -> RouterState], entries : [Router -> Count]]
  BY <1>1, <1>2
<1>4. \E c \in cache' : cache' = {c} /\ DOMAIN c.of = Router /\ c.entries \in [Router -> Count]
  BY <1>1, <1>2
<1>5. check' \in [Proc -> SUBSET [Router -> RouterState]]
      /\ \A q \in Proc : check'[q] = {} \/ \E s \in check'[q] : check'[q] = {s} /\ DOMAIN s = Router
  BY DEF FirewallInv, FirewallTypeOK, Store
<1>6. UNCHANGED <<router, noted, noteSeen, mixed>> /\ Budgeted
  BY DEF Store, Budgeted
<1> QED BY <1>3, <1>4, <1>5, <1>6 DEF FirewallInv, FirewallTypeOK

LEMMA FirewallStep ==
    ASSUME FirewallInv, FirewallNext \/ Fetch("poller") \/ Store("poller")
    PROVE  FirewallInv' /\ Budgeted
<1> USE FirewallAssumption
<1>1. CASE \E p \in Proc : Fetch(p) \/ Store(p) \/ \E r \in Router : Note(p, r)
  BY <1>1, FetchStep, StoreStep, NoteStep
<1>2. CASE \E r \in Changing : \/ EditRules(r) \/ BansChange(r) \/ GoesAway(r) \/ ComesBack(r)
                               \/ \E tables \in SUBSET Table : Loses(r, tables)
  <2>1. PICK r \in Changing, tables \in SUBSET Table :
              EditRules(r) \/ BansChange(r) \/ GoesAway(r) \/ ComesBack(r) \/ Loses(r, tables)
    BY <1>2
  <2>2. r \in Router
    OBVIOUS
  <2> QED BY <2>1, <2>2, FirewallWorld
<1>3. CASE Fetch("poller") \/ Store("poller")
  BY <1>1, <1>3 DEF Proc
<1> QED BY <1>1, <1>2, <1>3 DEF FirewallNext

LEMMA FirewallStutter ==
    ASSUME FirewallInv, UNCHANGED firewallVars
    PROVE  FirewallInv'
  BY DEF FirewallInv, FirewallTypeOK, firewallVars

-----------------------------------------------------------------------------
(* The published feed *)

Step == {"idle", "pub", "priv", "wpriv", "wpub", "rules", "rows", "seq", "wseq", "serve"}
Request(n) == [at : Step, kind : {"none", "feed", "rotate", "toggle"}, pub : 0..n, priv : 0..n,
               rules : SUBSET Kind, drops : BOOLEAN, always : SUBSET Kind, rows : SUBSET Row, seq : Nat]
ServedFeed == [pub : Nat, signer : Nat, seq : Nat, rows : SUBSET Row, always : SUBSET Kind]

FeedTypes ==
    /\ keys \in [pub : 0..made, priv : 0..made] /\ made \in Nat /\ sealed \in 0..made /\ seq \in Nat
    /\ enabled \in BOOLEAN /\ excludes \in BOOLEAN /\ white \subseteq Kind
    /\ req \in [Worker -> Request(made)]
    /\ crossed \subseteq {"key", "seq", "torn"}
    /\ served \in Seq(ServedFeed)

\* Until requests overlap in _ensure_keypair or one ends with a new private
\* half beside an old public one, the public half is absent or belongs to the
\* private half, unless the private half is unusable or a request is about
\* to write the public half that belongs to it; and what a request holds
\* agrees with that.
Halves ==
    \/ keys.pub \in {0, keys.priv}
    \/ ~Usable(keys.priv)
    \/ \E w \in Worker : At(w, "wpub")

KeyOf(w) ==
    /\ At(w, "priv") => req[w].pub = keys.pub
    /\ At(w, "wpriv") => req[w].pub = req[w].priv
    /\ At(w, "wpub") => req[w].pub = req[w].priv /\ keys.priv = req[w].priv
    /\ req[w].at \in {"rules", "rows", "seq", "wseq", "serve"} => req[w].pub = req[w].priv

KeyInv ==
    crossed \cap {"key", "torn"} = {} =>
        /\ Halves
        /\ \A w \in Worker : KeyOf(w)
        /\ \A i \in DOMAIN served : served[i].pub = served[i].signer

\* Until requests overlap between reading and writing the number, the one a
\* request is about to write is new, and the one it is about to send is its own.
SeqOf(w) ==
    /\ At(w, "wseq") => req[w].seq = seq + 1
    /\ At(w, "serve") =>
         /\ req[w].seq <= seq
         /\ \A i \in DOMAIN served : served[i].seq # req[w].seq
         /\ \A v \in Worker \ {w} : At(v, "serve") => req[v].seq # req[w].seq

SeqInv ==
    "seq" \notin crossed =>
        /\ \A w \in Worker : SeqOf(w)
        /\ \A i \in DOMAIN served : served[i].seq <= seq
        /\ \A i, j \in DOMAIN served : served[i].seq = served[j].seq => i = j

\* What was in force all through a request is among the rules it has read.
OwnOf(w) ==
    /\ req[w].always \subseteq white
    /\ At(w, "rows") => req[w].always \subseteq req[w].rules
    /\ req[w].at \in {"seq", "wseq", "serve"} =>
         "third" \notin req[w].rows /\ ("address" \in req[w].always => "own" \notin req[w].rows)

OwnInv == OwnIntelOnly /\ \A w \in Worker : OwnOf(w)

FeedInv == FeedTypes /\ KeyInv /\ SeqInv /\ OwnInv

LEMMA FeedFromInv ==
    ASSUME FeedInv
    PROVE  FeedTypeOK /\ FeedSound
<1>1. \A i \in DOMAIN served : served[i] \in ServedFeed
  BY DEF FeedInv, FeedTypes
<1>2. FeedTypeOK
  BY <1>1 DEF FeedInv, FeedTypes, FeedTypeOK, Request, Step, ServedFeed
<1> QED BY <1>2 DEF FeedInv, KeyInv, SeqInv, OwnInv, FeedSound, FeedVerifies, SequenceUnique

LEMMA FeedStart ==
    ASSUME FeedInit
    PROVE  FeedInv
<1> USE DEF FeedInit
<1>1. FeedTypes
  BY DEF FeedTypes, NoKeys, Idle, Request, Step, Kind, Row
<1>2. KeyInv
  BY DEF KeyInv, Halves, KeyOf, At, NoKeys, Idle
<1>3. SeqInv
  BY DEF SeqInv, SeqOf, At, Idle
<1>4. OwnInv
  BY DEF OwnInv, OwnOf, OwnIntelOnly, At, Idle
<1> QED BY <1>1, <1>2, <1>3, <1>4 DEF FeedInv

LEMMA FeedStutter ==
    ASSUME FeedInv, UNCHANGED feedVars
    PROVE  FeedInv'
  BY DEF FeedInv, FeedTypes, KeyInv, Halves, Usable, KeyOf, SeqInv, SeqOf, OwnInv, OwnOf, OwnIntelOnly, At, feedVars, Request

LEMMA RequestGrows ==
    ASSUME NEW n \in Nat
    PROVE  Request(n) \subseteq Request(n + 1)
  BY DEF Request

LEMMA RequestWith ==
    ASSUME NEW n, NEW r \in Request(n), NEW s \in Step
    PROVE  /\ [r EXCEPT !.at = s] \in Request(n)
           /\ \A p \in 0..n : [r EXCEPT !.at = s, !.pub = p] \in Request(n)
           /\ \A p \in 0..n, q \in 0..n : [r EXCEPT !.at = s, !.pub = p, !.priv = q] \in Request(n)
           /\ \A k \in SUBSET Kind, d \in BOOLEAN : [r EXCEPT !.at = s, !.rules = k, !.drops = d] \in Request(n)
           /\ \A rs \in SUBSET Row : [r EXCEPT !.at = s, !.rows = rs] \in Request(n)
           /\ \A m \in Nat : [r EXCEPT !.at = s, !.seq = m] \in Request(n)
  BY DEF Request

\* What a step of a request makes of it.
LEMMA RequestEffect ==
    ASSUME NEW n, req \in [Worker -> Request(n)], NEW w \in Worker
    PROVE  /\ ReadPub(w) => req' = [req EXCEPT ![w] = [req[w] EXCEPT !.at = "priv", !.pub = keys.pub]]
           /\ ReadPriv(w) /\ ~(req[w].pub # 0 /\ Usable(keys.priv)) =>
                req' = [req EXCEPT ![w] = [req[w] EXCEPT !.at = "wpriv", !.pub = made + 1, !.priv = made + 1]]
           /\ WritePriv(w) => req' = [req EXCEPT ![w] = [req[w] EXCEPT !.at = "wpub"]]
           /\ WritePub(w) => req' = [req EXCEPT ![w] = [req[w] EXCEPT !.at = After(req[w].kind)]]
           /\ ReadRules(w) => req' = [req EXCEPT ![w] = [req[w] EXCEPT !.at = "rows", !.rules = white, !.drops = excludes]]
           /\ ReadRows(w) =>
                req' = [req EXCEPT ![w] = [req[w] EXCEPT !.at = "seq", !.rows = FeedEntries(req[w].rules, req[w].drops)]]
           /\ ReadSeq(w) => req' = [req EXCEPT ![w] = [req[w] EXCEPT !.at = "wseq", !.seq = seq + 1]]
           /\ WriteSeq(w) => req' = [req EXCEPT ![w] = [req[w] EXCEPT !.at = "serve"]]
<1>1. ReadPub(w) => req' = [req EXCEPT ![w] = [req[w] EXCEPT !.at = "priv", !.pub = keys.pub]]
  BY DEF ReadPub
<1>2. ReadPriv(w) /\ ~(req[w].pub # 0 /\ Usable(keys.priv)) =>
        req' = [req EXCEPT ![w] = [req[w] EXCEPT !.at = "wpriv", !.pub = made + 1, !.priv = made + 1]]
  BY DEF ReadPriv
<1>3. /\ WritePriv(w) => req' = [req EXCEPT ![w] = [req[w] EXCEPT !.at = "wpub"]]
      /\ WritePub(w) => req' = [req EXCEPT ![w] = [req[w] EXCEPT !.at = After(req[w].kind)]]
      /\ WriteSeq(w) => req' = [req EXCEPT ![w] = [req[w] EXCEPT !.at = "serve"]]
  BY DEF WritePriv, WritePub, WriteSeq, Goes
<1>4. ReadRules(w) => req' = [req EXCEPT ![w] = [req[w] EXCEPT !.at = "rows", !.rules = white, !.drops = excludes]]
  BY DEF ReadRules
<1>5. ReadRows(w) =>
        req' = [req EXCEPT ![w] = [req[w] EXCEPT !.at = "seq", !.rows = FeedEntries(req[w].rules, req[w].drops)]]
  BY DEF ReadRows
<1>6. ReadSeq(w) => req' = [req EXCEPT ![w] = [req[w] EXCEPT !.at = "wseq", !.seq = seq + 1]]
  BY DEF ReadSeq
<1> QED BY <1>1, <1>2, <1>3, <1>4, <1>5, <1>6

\* A step of one request changes that request alone.
LEMMA OneRequest ==
    ASSUME NEW n, req \in [Worker -> Request(n)], NEW w \in Worker, NEW r \in Request(n), req' = [req EXCEPT ![w] = r]
    PROVE  req' \in [Worker -> Request(n)] /\ req'[w] = r /\ \A v \in Worker \ {w} : req'[v] = req[v]
  OBVIOUS

LEMMA FeedTypeStep ==
    ASSUME FeedTypes, FeedNext
    PROVE  FeedTypes' /\ Budgeted
<1>0. /\ req \in [Worker -> Request(made)] /\ made \in Nat /\ seq \in Nat /\ seq + 1 \in Nat
      /\ keys.pub \in 0..made /\ keys.priv \in 0..made /\ white \in SUBSET Kind /\ excludes \in BOOLEAN
  BY DEF FeedTypes
<1>1. Idle \in Request(made)
  BY DEF FeedTypes, Idle, Request, Step
<1>2. ASSUME NEW w \in Worker, FeedRequest(w) PROVE FeedTypes' /\ Budgeted
  <2>1. req' \in [Worker -> Request(made)]
    BY <1>1, <1>2 DEF FeedTypes, FeedRequest, Idle, Request, Step
  <2> QED BY <1>2, <2>1 DEF FeedTypes, FeedRequest, Budgeted
<1>3. ASSUME NEW w \in Worker, Rotate(w) PROVE FeedTypes' /\ Budgeted
  <2>1. req' \in [Worker -> Request(made)]
    BY <1>1, <1>3 DEF FeedTypes, Rotate, Idle, Request, Step
  <2>2. keys' \in [pub : 0..made, priv : 0..made] /\ crossed' \subseteq {"key", "seq", "torn"}
    BY <1>3 DEF FeedTypes, Rotate, NoKeys, Crossing
  <2> QED BY <1>3, <2>1, <2>2 DEF FeedTypes, Rotate, Budgeted
<1>4. ASSUME NEW w \in Worker, Toggle(w) PROVE FeedTypes' /\ Budgeted
  <2>1. req' \in [Worker -> Request(made)]
    BY <1>1, <1>4 DEF FeedTypes, Toggle, Idle, Request, Step
  <2> QED BY <1>4, <2>1 DEF FeedTypes, Toggle, Budgeted
<1>5. ASSUME NEW w \in Worker, ReadPub(w) PROVE FeedTypes' /\ Budgeted
  <2>1. req' \in [Worker -> Request(made)]
    <3>1. [req[w] EXCEPT !.at = "priv", !.pub = keys.pub] \in Request(made)
      BY <1>0, RequestWith DEF Step
    <3> QED BY <1>0, <1>5, <3>1, RequestEffect, OneRequest
  <2> QED BY <1>5, <2>1 DEF FeedTypes, ReadPub, Budgeted
<1>6. ASSUME NEW w \in Worker, ReadPriv(w) PROVE FeedTypes' /\ Budgeted
  <2>0. crossed' \subseteq {"key", "seq", "torn"}
    BY <1>6 DEF FeedTypes, ReadPriv, Crossing
  <2>1. CASE req[w].pub # 0 /\ Usable(keys.priv)
    <3>1. Ready(w, req[w].pub, keys.priv) \in Request(made)
      <4>1. req[w] \in Request(made) /\ req[w].pub \in 0..made
        BY <1>0 DEF Request
      <4>2. After(req[w].kind) \in Step
        BY DEF After, Step
      <4> QED BY <1>0, <4>1, <4>2, RequestWith DEF Ready
    <3>2. req' \in [Worker -> Request(made)] /\ made' = made
      BY <1>6, <2>1, <3>1 DEF FeedTypes, ReadPriv
    <3> QED BY <1>6, <2>0, <3>2 DEF FeedTypes, ReadPriv, Budgeted
  <2>2. CASE ~(req[w].pub # 0 /\ Usable(keys.priv))
    <3>1. made' = made + 1 /\ req' = [req EXCEPT ![w].at = "wpriv", ![w].pub = made + 1, ![w].priv = made + 1]
      BY <1>6, <2>2 DEF ReadPriv
    <3>2. req \in [Worker -> Request(made + 1)] /\ made \in Nat
      BY RequestGrows DEF FeedTypes
    <3>3. req' \in [Worker -> Request(made + 1)]
      <4>1. req' = [req EXCEPT ![w] = [req[w] EXCEPT !.at = "wpriv", !.pub = made + 1, !.priv = made + 1]]
        BY <1>0, <1>6, <2>2, RequestEffect
      <4>2. req[w] \in Request(made + 1) /\ "wpriv" \in Step /\ made + 1 \in 0..(made + 1)
        BY <3>2 DEF Step
      <4> QED BY <3>2, <4>1, <4>2, RequestWith, OneRequest
    <3>4. keys' \in [pub : 0..made', priv : 0..made'] /\ sealed' \in 0..made'
      BY <1>6, <3>1 DEF FeedTypes, ReadPriv
    <3> QED BY <1>6, <2>0, <3>1, <3>3, <3>4 DEF FeedTypes, ReadPriv, Budgeted
  <2> QED BY <2>1, <2>2
<1>7. ASSUME NEW w \in Worker, WritePriv(w) \/ WritePub(w) PROVE FeedTypes' /\ Budgeted
  <2>1. req[w] \in Request(made)
    BY DEF FeedTypes
  <2>2. req' \in [Worker -> Request(made)]
    <3>1. "wpub" \in Step /\ After(req[w].kind) \in Step
      BY DEF Step, After
    <3>2. [req[w] EXCEPT !.at = "wpub"] \in Request(made) /\ [req[w] EXCEPT !.at = After(req[w].kind)] \in Request(made)
      BY <2>1, <3>1, RequestWith
    <3>3. CASE WritePriv(w)
      BY <1>0, <3>2, <3>3, RequestEffect, OneRequest
    <3>4. CASE WritePub(w)
      BY <1>0, <3>2, <3>4, RequestEffect, OneRequest
    <3> QED BY <1>7, <3>3, <3>4
  <2>3. keys' \in [pub : 0..made, priv : 0..made] /\ crossed' \subseteq {"key", "seq", "torn"}
    BY <1>7, <2>1 DEF FeedTypes, WritePriv, WritePub, Request, Crossing
  <2> QED BY <1>7, <2>2, <2>3 DEF FeedTypes, WritePriv, WritePub, Budgeted
<1>8. ASSUME NEW w \in Worker, ReadRules(w) PROVE FeedTypes' /\ Budgeted
  <2>1. req' \in [Worker -> Request(made)]
    <3>1. [req[w] EXCEPT !.at = "rows", !.rules = white, !.drops = excludes] \in Request(made)
      BY <1>0, RequestWith DEF Step
    <3> QED BY <1>0, <1>8, <3>1, RequestEffect, OneRequest
  <2> QED BY <1>8, <2>1 DEF FeedTypes, ReadRules, Budgeted
<1>9. ASSUME NEW w \in Worker, ReadRows(w) PROVE FeedTypes' /\ Budgeted
  <2>1. FeedEntries(req[w].rules, req[w].drops) \in SUBSET Row
    BY DEF FeedEntries
  <2>2. req' \in [Worker -> Request(made)]
    <3>1. [req[w] EXCEPT !.at = "seq", !.rows = FeedEntries(req[w].rules, req[w].drops)] \in Request(made)
      BY <1>0, <2>1, RequestWith DEF Step
    <3> QED BY <1>0, <1>9, <3>1, RequestEffect, OneRequest
  <2> QED BY <1>9, <2>2 DEF FeedTypes, ReadRows, Budgeted
<1>10. ASSUME NEW w \in Worker, ReadSeq(w) PROVE FeedTypes' /\ Budgeted
  <2>1. req' \in [Worker -> Request(made)]
    <3>1. [req[w] EXCEPT !.at = "wseq", !.seq = seq + 1] \in Request(made)
      BY <1>0, RequestWith DEF Step
    <3> QED BY <1>0, <1>10, <3>1, RequestEffect, OneRequest
  <2> QED BY <1>10, <2>1 DEF FeedTypes, ReadSeq, Budgeted
<1>11. ASSUME NEW w \in Worker, WriteSeq(w) PROVE FeedTypes' /\ Budgeted
  <2>1. req' \in [Worker -> Request(made)]
    <3>1. [req[w] EXCEPT !.at = "serve"] \in Request(made)
      BY <1>0, RequestWith DEF Step
    <3> QED BY <1>0, <1>11, <3>1, RequestEffect, OneRequest
  <2>3. req[w].seq \in Nat
    BY <1>0 DEF Request
  <2>2. crossed' \subseteq {"key", "seq", "torn"}
    BY <1>11 DEF FeedTypes, WriteSeq, Crossing
  <2> QED BY <1>11, <2>1, <2>2, <2>3 DEF FeedTypes, WriteSeq, Budgeted
<1>12. ASSUME NEW w \in Worker, Serve(w) PROVE FeedTypes' /\ Budgeted
  <2>1. req' \in [Worker -> Request(made)]
    BY <1>1, <1>12 DEF FeedTypes, Serve
  <2>2. req[w] \in Request(made) /\ made \in Nat
    BY DEF FeedTypes
  <2>3. [pub |-> req[w].pub, signer |-> req[w].priv, seq |-> req[w].seq, rows |-> req[w].rows, always |-> req[w].always]
          \in ServedFeed
    BY <2>2 DEF Request, ServedFeed
  <2>4. served' \in Seq(ServedFeed)
    BY <1>12, <2>3 DEF FeedTypes, Serve
  <2> QED BY <1>12, <2>1, <2>4 DEF FeedTypes, Serve, Budgeted
<1>13. ASSUME NEW w \in Worker, WorkerDies(w) PROVE FeedTypes' /\ Budgeted
  <2>1. req' \in [Worker -> Request(made)]
    BY <1>1, <1>13 DEF FeedTypes, WorkerDies
  <2>2. crossed' \subseteq {"key", "seq", "torn"}
    BY <1>13 DEF FeedTypes, WorkerDies
  <2> QED BY <1>13, <2>1, <2>2 DEF FeedTypes, WorkerDies, Budgeted
<1>14. ASSUME SaveExcludes PROVE FeedTypes' /\ Budgeted
  BY <1>14 DEF FeedTypes, SaveExcludes, Budgeted, Request
<1>15. ASSUME NEW k \in Kind, EditWhitelist(k) PROVE FeedTypes' /\ Budgeted
  <2>1. white' \subseteq Kind
    BY <1>15 DEF FeedTypes, EditWhitelist
  <2>2. req' \in [Worker -> Request(made)]
    <3>1. \A w \in Worker : req'[w] = [req[w] EXCEPT !.always = req[w].always \cap white']
      BY <1>0, <1>15 DEF EditWhitelist
    <3>2. ASSUME NEW w \in Worker PROVE req'[w] \in Request(made)
      <4>1. req[w] \in Request(made) /\ req[w].always \cap white' \in SUBSET Kind /\ "idle" \in Step
        BY <1>0, <2>1 DEF Request, Step
      <4>2. [req[w] EXCEPT !.always = req[w].always \cap white'] \in Request(made)
        BY <4>1 DEF Request
      <4> QED BY <3>1, <4>2
    <3>3. req' = [w \in Worker |-> req'[w]]
      BY <1>15 DEF EditWhitelist
    <3> QED BY <3>2, <3>3
  <2> QED BY <1>15, <2>1, <2>2 DEF FeedTypes, EditWhitelist, Budgeted
<1>16. ASSUME SecretChanges PROVE FeedTypes' /\ Budgeted
  BY <1>0, <1>1, <1>16 DEF FeedTypes, SecretChanges, Budgeted
<1> QED BY <1>2, <1>3, <1>4, <1>5, <1>6, <1>7, <1>8, <1>9, <1>10, <1>11, <1>12, <1>13, <1>14, <1>15, <1>16
        DEF FeedNext, KeysNext, RequestStep

\* What every step of the feed may do to what is outside one request.
LEMMA CrossedGrows ==
    ASSUME FeedNext
    PROVE  crossed \subseteq crossed'
<1>1. ASSUME NEW w \in Worker, NEW what, NEW steps, Crossing(w, what, steps) PROVE crossed \subseteq crossed'
  BY <1>1 DEF Crossing
<1>2. ASSUME NEW w \in Worker, Rotate(w) \/ ReadPriv(w) \/ WritePriv(w) \/ WritePub(w) \/ WriteSeq(w)
      PROVE  crossed \subseteq crossed'
  BY <1>1, <1>2 DEF Rotate, ReadPriv, WritePriv, WritePub, WriteSeq
<1>3. ASSUME NEW w \in Worker, FeedRequest(w) \/ Toggle(w) \/ WorkerDies(w) PROVE crossed \subseteq crossed'
  BY <1>3 DEF FeedRequest, Toggle, WorkerDies
<1>4. ASSUME NEW w \in Worker, ReadPub(w) \/ ReadRules(w) \/ ReadRows(w) \/ ReadSeq(w) \/ Serve(w)
      PROVE  crossed \subseteq crossed'
  BY <1>4 DEF ReadPub, ReadRules, ReadRows, ReadSeq, Serve
<1>5. ASSUME NEW k \in Kind, SaveExcludes \/ EditWhitelist(k) PROVE crossed \subseteq crossed'
  BY <1>5 DEF SaveExcludes, EditWhitelist
<1>6. ASSUME SaveExcludes \/ SecretChanges PROVE crossed \subseteq crossed'
  BY <1>6 DEF SaveExcludes, SecretChanges
<1> QED BY <1>2, <1>3, <1>4, <1>5, <1>6 DEF FeedNext, KeysNext, RequestStep

\* The other requests are as they were when the keys did not change.
LEMMA KeyOfOthers ==
    ASSUME NEW w \in Worker, NEW r, req \in [Worker -> Request(made)], req' = [req EXCEPT ![w] = r], keys' = keys,
           \A v \in Worker : KeyOf(v)
    PROVE  \A v \in Worker \ {w} : KeyOf(v)'
  BY DEF KeyOf, At

\* Nor do they notice when none of them is in _ensure_keypair.
LEMMA KeyOfAlone ==
    ASSUME NEW w \in Worker, NEW r, req \in [Worker -> Request(made)], req' = [req EXCEPT ![w] = r],
           Crossing(w, "key", KeySteps), "key" \notin crossed', \A v \in Worker : KeyOf(v)
    PROVE  \A v \in Worker \ {w} : KeyOf(v)'
<1>1. \A v \in Worker \ {w} : req[v].at \notin KeySteps /\ req'[v] = req[v]
  BY DEF Crossing
<1> QED BY <1>1 DEF KeyOf, At, KeySteps

\* A step that leaves the keys and the requests about to write them alone.
LEMMA HalvesKept ==
    ASSUME Halves, keys' = keys, sealed' = sealed, \A v \in Worker : At(v, "wpub") => At(v, "wpub")'
    PROVE  Halves'
  BY DEF Halves, Usable

\* A step of a request that was not about to write the public half.
LEMMA HalvesRequest ==
    ASSUME Halves, keys' = keys, sealed' = sealed, req \in [Worker -> Request(made)],
           NEW w \in Worker, NEW r, req' = [req EXCEPT ![w] = r], ~At(w, "wpub")
    PROVE  Halves'
  BY HalvesKept DEF At

LEMMA KeyStep ==
    ASSUME FeedTypes, KeyInv, FeedNext
    PROVE  KeyInv'
<1> SUFFICES ASSUME crossed' \cap {"key", "torn"} = {}
             PROVE  /\ Halves'
                    /\ \A w \in Worker : KeyOf(w)'
                    /\ \A i \in DOMAIN served' : served'[i].pub = served'[i].signer
  BY DEF KeyInv
<1>0. /\ req \in [Worker -> Request(made)]
      /\ \A v \in Worker : KeyOf(v)
      /\ \A i \in DOMAIN served : served[i].pub = served[i].signer
      /\ keys \in [pub : 0..made, priv : 0..made] /\ made \in Nat
      /\ Halves /\ "key" \notin crossed'
  BY CrossedGrows DEF KeyInv, FeedTypes
<1>1. ASSUME NEW w \in Worker, FeedRequest(w) PROVE KeyInv'
  <2>1. KeyOf(w)'
    BY <1>0, <1>1 DEF FeedRequest, Idle, KeyOf, At
  <2>2. Halves'
    <3>1. ~At(w, "wpub")
      BY <1>1 DEF FeedRequest, At
    <3> QED BY <1>0, <1>1, <3>1, HalvesRequest DEF FeedRequest
  <2> QED BY <1>0, <1>1, <2>1, <2>2, KeyOfOthers DEF FeedRequest, KeyInv
<1>2. ASSUME NEW w \in Worker, Rotate(w) PROVE KeyInv'
  <2>1. KeyOf(w)'
    BY <1>0, <1>2 DEF Rotate, Idle, KeyOf, At
  <2>2. \A v \in Worker \ {w} : KeyOf(v)'
    BY <1>0, <1>2, KeyOfAlone DEF Rotate
  <2> QED BY <1>0, <1>2, <2>1, <2>2 DEF Rotate, NoKeys, KeyInv, Halves
<1>3. ASSUME NEW w \in Worker, Toggle(w) PROVE KeyInv'
  <2>1. CASE enabled
    BY <1>0, <1>3, <2>1 DEF Toggle, KeyInv, Halves, Usable, KeyOf, At
  <2>2. CASE ~enabled
    <3>1. KeyOf(w)'
      BY <1>0, <1>3, <2>2 DEF Toggle, Idle, KeyOf, At
    <3>2. ~At(w, "wpub")
      BY <1>3 DEF Toggle, At
    <3>3. Halves'
      BY <1>0, <1>3, <2>2, <3>2, HalvesRequest DEF Toggle
    <3> QED BY <1>0, <1>3, <2>2, <3>1, <3>3, KeyOfOthers DEF Toggle, KeyInv
  <2> QED BY <2>1, <2>2
<1>4. ASSUME NEW w \in Worker, ReadPub(w) PROVE KeyInv'
  <2>1. req' = [req EXCEPT ![w] = [req[w] EXCEPT !.at = "priv", !.pub = keys.pub]]
    BY <1>0, <1>4, RequestEffect
  <2>2. KeyOf(w)'
    BY <1>0, <1>4, <2>1 DEF ReadPub, Request, KeyOf, At
  <2>3. Halves'
    <3>1. ~At(w, "wpub")
      BY <1>4 DEF ReadPub, At
    <3> QED BY <1>0, <1>4, <2>1, <3>1, HalvesRequest DEF ReadPub
  <2> QED BY <1>0, <1>4, <2>1, <2>2, <2>3, KeyOfOthers DEF ReadPub, KeyInv
<1>5. ASSUME NEW w \in Worker, ReadPriv(w) PROVE KeyInv'
  <2>0. req[w] \in Request(made) /\ req[w].pub = keys.pub
    BY <1>0, <1>5 DEF ReadPriv, KeyOf, At
  <2>3. ~At(w, "wpub") /\ keys' = keys /\ sealed' = sealed /\ served' = served
    BY <1>5 DEF ReadPriv, At
  <2>4. \A v \in Worker : ~At(v, "wpub")
    BY <1>0, <1>5, <2>3 DEF ReadPriv, Crossing, At
  <2>1. CASE req[w].pub # 0 /\ Usable(keys.priv)
    <3>1. req' = [req EXCEPT ![w] = Ready(w, req[w].pub, keys.priv)]
      BY <1>5, <2>1 DEF ReadPriv
    <3>2. req'[w].pub = req'[w].priv /\ req'[w].at \in {"rules", "idle"}
      BY <1>0, <2>0, <2>1, <2>4, <3>1 DEF Halves, Ready, After, Request
    <3>3. KeyOf(w)'
      BY <3>2 DEF KeyOf, At
    <3>4. Halves'
      BY <1>0, <2>3, <3>1, HalvesRequest
    <3> QED BY <1>0, <2>3, <3>1, <3>3, <3>4, KeyOfOthers DEF KeyInv
  <2>2. CASE ~(req[w].pub # 0 /\ Usable(keys.priv))
    <3>1. req' = [req EXCEPT ![w] = [req[w] EXCEPT !.at = "wpriv", !.pub = made + 1, !.priv = made + 1]]
      BY <1>0, <1>5, <2>2, RequestEffect
    <3>2. req'[w].pub = req'[w].priv /\ req'[w].at = "wpriv"
      BY <1>0, <2>0, <3>1 DEF Request
    <3>3. KeyOf(w)'
      BY <3>2 DEF KeyOf, At
    <3>4. Halves'
      BY <1>0, <2>3, <3>1, HalvesRequest
    <3> QED BY <1>0, <2>3, <3>1, <3>3, <3>4, KeyOfOthers DEF KeyInv
  <2> QED BY <2>1, <2>2
<1>6. ASSUME NEW w \in Worker, WritePriv(w) PROVE KeyInv'
  <2>1. req' = [req EXCEPT ![w] = [req[w] EXCEPT !.at = "wpub"]]
    BY <1>0, <1>6, RequestEffect
  <2>2. req[w] \in Request(made) /\ req[w].pub = req[w].priv
    BY <1>0, <1>6 DEF WritePriv, KeyOf, At
  <2>3. req'[w].pub = req[w].pub /\ req'[w].priv = req[w].priv /\ req'[w].at = "wpub" /\ keys'.priv = req[w].priv
    BY <1>0, <1>6, <2>1, <2>2 DEF WritePriv, Request
  <2>4. KeyOf(w)'
    BY <2>2, <2>3 DEF KeyOf, At
  <2>5. \A v \in Worker \ {w} : KeyOf(v)'
    BY <1>0, <1>6, <2>1, KeyOfAlone DEF WritePriv
  <2>6. Halves'
    BY <2>3 DEF Halves, At
  <2> QED BY <1>0, <1>6, <2>4, <2>5, <2>6 DEF WritePriv, KeyInv
<1>7. ASSUME NEW w \in Worker, WritePub(w) PROVE KeyInv'
  <2>1. req' = [req EXCEPT ![w] = [req[w] EXCEPT !.at = After(req[w].kind)]]
    BY <1>0, <1>7, RequestEffect
  <2>2. req[w] \in Request(made) /\ req[w].pub = req[w].priv /\ keys.priv = req[w].priv
    BY <1>0, <1>7 DEF WritePub, KeyOf, At
  <2>3. req'[w].pub = req[w].pub /\ req'[w].priv = req[w].priv /\ req'[w].at \in {"rules", "idle"}
        /\ keys'.priv = keys.priv /\ keys'.pub = req[w].pub
    BY <1>0, <1>7, <2>1, <2>2 DEF WritePub, Request, After
  <2>4. KeyOf(w)'
    BY <2>2, <2>3 DEF KeyOf, At
  <2>5. \A v \in Worker \ {w} : KeyOf(v)'
    BY <1>0, <1>7, <2>1, KeyOfAlone DEF WritePub
  <2>6. Halves'
    BY <2>2, <2>3 DEF Halves
  <2> QED BY <1>0, <1>7, <2>4, <2>5, <2>6 DEF WritePub, KeyInv
<1>8. ASSUME NEW w \in Worker, ReadRules(w) \/ ReadRows(w) \/ ReadSeq(w) \/ WriteSeq(w) PROVE KeyInv'
  <2> DEFINE r == req'[w]
  <2>1. req' = [req EXCEPT ![w] = r] /\ r.pub = req[w].pub /\ r.priv = req[w].priv /\ r.at \in {"rows", "seq", "wseq", "serve"}
    <3>1. req[w] \in Request(made)
      BY <1>0
    <3>2. CASE ReadRules(w)
      <4>1. req' = [req EXCEPT ![w] = [req[w] EXCEPT !.at = "rows", !.rules = white, !.drops = excludes]]
        BY <1>0, <3>2, RequestEffect
      <4> QED BY <1>0, <3>1, <4>1 DEF Request
    <3>3. CASE ReadRows(w)
      <4>1. req' = [req EXCEPT ![w] = [req[w] EXCEPT !.at = "seq", !.rows = FeedEntries(req[w].rules, req[w].drops)]]
        BY <1>0, <3>3, RequestEffect
      <4> QED BY <1>0, <3>1, <4>1 DEF Request
    <3>4. CASE ReadSeq(w)
      <4>1. req' = [req EXCEPT ![w] = [req[w] EXCEPT !.at = "wseq", !.seq = seq + 1]]
        BY <1>0, <3>4, RequestEffect
      <4> QED BY <1>0, <3>1, <4>1 DEF Request
    <3>5. CASE WriteSeq(w)
      <4>1. req' = [req EXCEPT ![w] = [req[w] EXCEPT !.at = "serve"]]
        BY <1>0, <3>5, RequestEffect
      <4> QED BY <1>0, <3>1, <4>1 DEF Request
    <3> QED BY <1>8, <3>2, <3>3, <3>4, <3>5
  <2>2. req[w].at \in {"rules", "rows", "seq", "wseq"} /\ keys' = keys /\ sealed' = sealed /\ served' = served
    BY <1>8 DEF ReadRules, ReadRows, ReadSeq, WriteSeq, At
  <2>3. KeyOf(w)'
    <3>1. req[w].pub = req[w].priv
      BY <1>0, <2>2 DEF KeyOf
    <3> QED BY <2>1, <3>1 DEF KeyOf, At
  <2>4. Halves'
    BY <1>0, <2>1, <2>2, HalvesRequest DEF At
  <2> QED BY <1>0, <2>1, <2>2, <2>3, <2>4, KeyOfOthers DEF KeyInv
<1>9. ASSUME NEW w \in Worker, Serve(w) PROVE KeyInv'
  <2>1. KeyOf(w)'
    BY <1>0, <1>9 DEF Serve, Idle, KeyOf, At
  <2>2. req[w].pub = req[w].priv
    BY <1>0, <1>9 DEF Serve, KeyOf, At
  <2>3. \A i \in DOMAIN served' : served'[i].pub = served'[i].signer
    BY <1>0, <1>9, <2>2 DEF Serve, FeedTypes
  <2>4. Halves'
    <3>1. ~At(w, "wpub")
      BY <1>9 DEF Serve, At
    <3> QED BY <1>0, <1>9, <3>1, HalvesRequest DEF Serve
  <2> QED BY <1>0, <1>9, <2>1, <2>3, <2>4, KeyOfOthers DEF Serve, KeyInv
<1>10. ASSUME NEW w \in Worker, WorkerDies(w) PROVE KeyInv'
  <2>1. KeyOf(w)'
    BY <1>0, <1>10 DEF WorkerDies, Idle, KeyOf, At
  <2>2. Halves'
    <3>1. CASE At(w, "wpub")
      <4>1. keys.pub = 0 /\ keys' = keys
        BY <1>10, <3>1 DEF WorkerDies
      <4> QED BY <4>1 DEF Halves
    <3>2. CASE ~At(w, "wpub")
      BY <1>0, <1>10, <3>2, HalvesRequest DEF WorkerDies
    <3> QED BY <3>1, <3>2
  <2> QED BY <1>0, <1>10, <2>1, <2>2, KeyOfOthers DEF WorkerDies, KeyInv
<1>11. ASSUME SaveExcludes PROVE KeyInv'
  BY <1>0, <1>11, HalvesKept DEF SaveExcludes, KeyInv, KeyOf, At
<1>12. ASSUME NEW k \in Kind, EditWhitelist(k) PROVE KeyInv'
  <2>1. \A w \in Worker : req'[w].at = req[w].at /\ req'[w].pub = req[w].pub /\ req'[w].priv = req[w].priv
    BY <1>0, <1>12 DEF EditWhitelist, Request
  <2>2. Halves'
    BY <1>0, <1>12, <2>1, HalvesKept DEF EditWhitelist, At
  <2> QED BY <1>0, <1>12, <2>1, <2>2 DEF EditWhitelist, KeyInv, KeyOf, At
<1>13. ASSUME SecretChanges PROVE KeyInv'
  <2>1. Halves'
    <3>1. ~(keys'.priv > sealed')
      BY <1>0, <1>13 DEF SecretChanges
    <3> QED BY <3>1 DEF Halves, Usable
  <2>2. \A w \in Worker : req'[w] = Idle
    BY <1>13 DEF SecretChanges
  <2> QED BY <1>0, <1>13, <2>1, <2>2 DEF SecretChanges, KeyInv, KeyOf, At, Idle
<1>14. KeyInv'
  BY <1>1, <1>2, <1>3, <1>4, <1>5, <1>6, <1>7, <1>8, <1>9, <1>10, <1>11, <1>12, <1>13
  DEF FeedNext, KeysNext, RequestStep
<1> QED BY <1>14 DEF KeyInv

\* Up to the rules a request holds no entries and no number.
LEMMA EarlySteps ==
    ASSUME FeedTypes, NEW w \in Worker,
           \/ FeedRequest(w) \/ Rotate(w) \/ Toggle(w) \/ WorkerDies(w)
           \/ ReadPub(w) \/ ReadPriv(w) \/ WritePriv(w) \/ WritePub(w)
    PROVE  /\ req' = [req EXCEPT ![w] = req'[w]]
           /\ req'[w].at \in {"idle", "pub", "priv", "wpriv", "wpub", "rules"}
           /\ req'[w].always \in {{}, white, req[w].always}
           /\ UNCHANGED <<white, seq, served>>
<1>0. req \in [Worker -> Request(made)] /\ req[w] \in Request(made)
  BY DEF FeedTypes
<1>1. CASE FeedRequest(w) \/ WorkerDies(w)
  <2>1. CASE FeedRequest(w)
    BY <1>0, <2>1 DEF FeedRequest, Idle
  <2>2. CASE WorkerDies(w)
    BY <1>0, <2>2 DEF WorkerDies, Idle
  <2> QED BY <1>1, <2>1, <2>2
<1>2. CASE Rotate(w)
  BY <1>0, <1>2 DEF Rotate, Idle
<1>3. CASE Toggle(w)
  <2>1. CASE enabled
    BY <1>0, <1>3, <2>1 DEF Toggle, At
  <2>2. CASE ~enabled
    BY <1>0, <1>3, <2>2 DEF Toggle, Idle
  <2> QED BY <2>1, <2>2
<1>4. CASE ReadPub(w)
  <2>1. req' = [req EXCEPT ![w] = [req[w] EXCEPT !.at = "priv", !.pub = keys.pub]]
    BY <1>0, <1>4, RequestEffect
  <2> QED BY <1>0, <1>4, <2>1 DEF ReadPub, Request
<1>5. CASE ReadPriv(w)
  <2>1. CASE req[w].pub # 0 /\ Usable(keys.priv)
    <3>1. req' = [req EXCEPT ![w] = Ready(w, req[w].pub, keys.priv)]
      BY <1>5, <2>1 DEF ReadPriv
    <3> QED BY <1>0, <1>5, <3>1 DEF ReadPriv, Ready, After, Request
  <2>2. CASE ~(req[w].pub # 0 /\ Usable(keys.priv))
    <3>1. req' = [req EXCEPT ![w] = [req[w] EXCEPT !.at = "wpriv", !.pub = made + 1, !.priv = made + 1]]
      BY <1>0, <1>5, <2>2, RequestEffect
    <3> QED BY <1>0, <1>5, <3>1 DEF ReadPriv, Request
  <2> QED BY <2>1, <2>2
<1>6. CASE WritePriv(w)
  <2>1. req' = [req EXCEPT ![w] = [req[w] EXCEPT !.at = "wpub"]]
    BY <1>0, <1>6, RequestEffect
  <2> QED BY <1>0, <1>6, <2>1 DEF WritePriv, Request
<1>7. CASE WritePub(w)
  <2>1. req' = [req EXCEPT ![w] = [req[w] EXCEPT !.at = After(req[w].kind)]]
    BY <1>0, <1>7, RequestEffect
  <2> QED BY <1>0, <1>7, <2>1 DEF WritePub, After, Request
<1> QED BY <1>1, <1>2, <1>3, <1>4, <1>5, <1>6, <1>7

LEMMA SeqStep ==
    ASSUME FeedTypes, SeqInv, FeedNext
    PROVE  SeqInv'
<1> SUFFICES ASSUME "seq" \notin crossed'
             PROVE  /\ \A w \in Worker : SeqOf(w)'
                    /\ \A i \in DOMAIN served' : served'[i].seq <= seq'
                    /\ \A i, j \in DOMAIN served' : served'[i].seq = served'[j].seq => i = j
  BY DEF SeqInv
<1>0. /\ req \in [Worker -> Request(made)] /\ seq \in Nat /\ \A v \in Worker : req[v].seq \in Nat
      /\ \A v \in Worker : SeqOf(v)
      /\ \A i \in DOMAIN served : served[i].seq \in Nat /\ served[i].seq <= seq
      /\ \A i, j \in DOMAIN served : served[i].seq = served[j].seq => i = j
      /\ served \in Seq(ServedFeed)
  <2>1. req \in [Worker -> Request(made)] /\ served \in Seq(ServedFeed) /\ seq \in Nat /\ "seq" \notin crossed
    BY CrossedGrows DEF FeedTypes
  <2>2. \A v \in Worker : req[v].seq \in Nat
    BY <2>1 DEF Request
  <2>3. \A i \in DOMAIN served : served[i].seq \in Nat
    <3>1. \A i \in DOMAIN served : served[i] \in ServedFeed
      BY <2>1
    <3> QED BY <3>1 DEF ServedFeed
  <2> QED BY <2>1, <2>2, <2>3 DEF SeqInv
<1>1. ASSUME NEW w \in Worker, req' = [req EXCEPT ![w] = req'[w]], req'[w].at \notin {"wseq", "serve"}, seq' = seq, served' = served
      PROVE  SeqInv'
  <2>1. \A v \in Worker : (v = w \/ req'[v] = req[v])
    BY <1>0, <1>1
  <2>2. ASSUME NEW v \in Worker PROVE SeqOf(v)'
    <3>1. CASE v = w
      BY <1>1, <3>1 DEF SeqOf, At
    <3>2. CASE v # w
      <4>1. SeqOf(v) /\ req'[v] = req[v]
        BY <1>0, <2>1, <3>2
      <4>2. \A u \in Worker : req'[u].at = "serve" => req'[u] = req[u]
        BY <1>1, <2>1
      <4> QED BY <1>1, <4>1, <4>2 DEF SeqOf, At
    <3> QED BY <3>1, <3>2
  <2> QED BY <1>0, <1>1, <2>2 DEF SeqInv
<1>2. ASSUME NEW w \in Worker,
           \/ FeedRequest(w) \/ Rotate(w) \/ Toggle(w) \/ WorkerDies(w)
           \/ ReadPub(w) \/ ReadPriv(w) \/ WritePriv(w) \/ WritePub(w)
      PROVE SeqInv'
  <2>1. /\ req' = [req EXCEPT ![w] = req'[w]] /\ req'[w].at \in {"idle", "pub", "priv", "wpriv", "wpub", "rules"}
        /\ UNCHANGED <<white, seq, served>>
    BY <1>2, EarlySteps
  <2> QED BY <1>1, <2>1
<1>3. ASSUME NEW w \in Worker, ReadRules(w) PROVE SeqInv'
  <2>1. req' = [req EXCEPT ![w] = [req[w] EXCEPT !.at = "rows", !.rules = white, !.drops = excludes]]
    BY <1>0, <1>3, RequestEffect
  <2>2. req' = [req EXCEPT ![w] = req'[w]] /\ req'[w].at = "rows" /\ seq' = seq /\ served' = served
    <3>1. req[w] \in Request(made) /\ seq' = seq /\ served' = served
      BY <1>0, <1>3 DEF ReadRules
    <3> QED BY <1>0, <2>1, <3>1 DEF Request
  <2> QED BY <1>1, <2>2
<1>4. ASSUME NEW w \in Worker, ReadRows(w) PROVE SeqInv'
  <2>1. req' = [req EXCEPT ![w] = [req[w] EXCEPT !.at = "seq", !.rows = FeedEntries(req[w].rules, req[w].drops)]]
    BY <1>0, <1>4, RequestEffect
  <2>2. req' = [req EXCEPT ![w] = req'[w]] /\ req'[w].at = "seq" /\ seq' = seq /\ served' = served
    <3>1. req[w] \in Request(made) /\ seq' = seq /\ served' = served
      BY <1>0, <1>4 DEF ReadRows
    <3> QED BY <1>0, <2>1, <3>1 DEF Request
  <2> QED BY <1>1, <2>2
<1>5. ASSUME NEW w \in Worker, ReadSeq(w) PROVE SeqInv'
  <2>1. req' = [req EXCEPT ![w] = [req[w] EXCEPT !.at = "wseq", !.seq = seq + 1]]
    BY <1>0, <1>5, RequestEffect
  <2>2. req'[w].at = "wseq" /\ req'[w].seq = seq + 1 /\ seq' = seq /\ served' = served
    BY <1>0, <1>5, <2>1 DEF ReadSeq, Request
  <2>3. \A v \in Worker : (v = w \/ req'[v] = req[v])
    BY <1>0, <2>1
  <2>4. \A v \in Worker : SeqOf(v)'
    BY <1>0, <2>2, <2>3 DEF SeqOf, At
  <2> QED BY <1>0, <2>2, <2>4 DEF SeqInv
<1>6. ASSUME NEW w \in Worker, WriteSeq(w) PROVE SeqInv'
  <2>1. req' = [req EXCEPT ![w] = [req[w] EXCEPT !.at = "serve"]]
    BY <1>0, <1>6, RequestEffect
  <2>2. req'[w].at = "serve" /\ req'[w].seq = req[w].seq /\ seq' = req[w].seq /\ req[w].seq = seq + 1 /\ served' = served
    BY <1>0, <1>6, <2>1 DEF WriteSeq, Request, SeqOf, At
  <2>3. \A v \in Worker \ {w} : req'[v] = req[v] /\ req[v].at # "wseq"
    BY <1>0, <1>6, <2>1 DEF WriteSeq, Crossing, SeqSteps
  <2>4. \A i \in DOMAIN served : served[i].seq < seq' /\ served[i].seq # seq'
    BY <1>0, <2>2
  <2>5. \A v \in Worker \ {w} : At(v, "serve") => req[v].seq < seq' /\ req[v].seq # seq'
    BY <1>0, <2>2 DEF SeqOf
  <2>6. SeqOf(w)'
    BY <1>0, <2>2, <2>3, <2>4, <2>5 DEF SeqOf, At
  <2>7. ASSUME NEW v \in Worker \ {w} PROVE SeqOf(v)'
    <3>1. CASE At(v, "serve")
      <4>1. req'[v].seq <= seq' /\ \A i \in DOMAIN served' : served'[i].seq # req'[v].seq
        BY <1>0, <2>2, <2>3, <2>5, <3>1 DEF SeqOf
      <4>2. \A u \in Worker \ {v} : req'[u].at = "serve" => req'[u].seq # req'[v].seq
        BY <1>0, <2>2, <2>3, <2>5, <3>1 DEF SeqOf, At
      <4> QED BY <2>3, <3>1, <4>1, <4>2 DEF SeqOf, At
    <3>2. CASE ~At(v, "serve")
      BY <2>3, <3>2 DEF SeqOf, At
    <3> QED BY <3>1, <3>2
  <2>8. \A i \in DOMAIN served' : served'[i].seq <= seq'
    BY <1>0, <2>2, <2>4
  <2> QED BY <1>0, <2>2, <2>6, <2>7, <2>8 DEF SeqInv
<1>7. ASSUME NEW w \in Worker, Serve(w) PROVE SeqInv'
  <2> DEFINE f == [pub |-> req[w].pub, signer |-> req[w].priv, seq |-> req[w].seq, rows |-> req[w].rows, always |-> req[w].always]
  <2>1. /\ req[w].seq <= seq /\ req[w].seq \in Nat
        /\ \A i \in DOMAIN served : served[i].seq # req[w].seq
        /\ \A v \in Worker \ {w} : At(v, "serve") => req[v].seq # req[w].seq
    BY <1>0, <1>7 DEF Serve, SeqOf, At
  <2>2. served' = Append(served, f) /\ f.seq = req[w].seq /\ seq' = seq
    BY <1>7 DEF Serve
  <2>3. req'[w].at = "idle" /\ \A v \in Worker \ {w} : req'[v] = req[v]
    BY <1>0, <1>7 DEF Serve, Idle
  <2> HIDE DEF f
  <2>4. \A i \in DOMAIN served' : (i \in DOMAIN served /\ served'[i] = served[i]) \/ (i = Len(served) + 1 /\ served'[i] = f)
    BY <1>0, <2>2
  <2>5. \A i \in DOMAIN served' : served'[i].seq <= seq'
    BY <1>0, <2>1, <2>2, <2>4
  <2>6. \A i, j \in DOMAIN served' : served'[i].seq = served'[j].seq => i = j
    BY <1>0, <2>1, <2>2, <2>4
  <2>7. ASSUME NEW v \in Worker PROVE SeqOf(v)'
    <3>1. CASE v = w
      BY <2>3, <3>1 DEF SeqOf, At
    <3>2. CASE v # w /\ At(v, "serve")
      <4>1. \A i \in DOMAIN served' : served'[i].seq # req[v].seq
        BY <1>0, <2>1, <2>2, <2>4, <3>2 DEF SeqOf
      <4> QED BY <1>0, <2>2, <2>3, <3>2, <4>1 DEF SeqOf, At
    <3>3. CASE v # w /\ ~At(v, "serve")
      BY <1>0, <2>2, <2>3, <3>3 DEF SeqOf, At
    <3> QED BY <3>1, <3>2, <3>3
  <2> QED BY <2>5, <2>6, <2>7 DEF SeqInv
<1>8. ASSUME SaveExcludes PROVE SeqInv'
  BY <1>0, <1>8 DEF SaveExcludes, SeqInv, SeqOf, At
<1>9. ASSUME NEW k \in Kind, EditWhitelist(k) PROVE SeqInv'
  <2>1. \A w \in Worker : req'[w].at = req[w].at /\ req'[w].seq = req[w].seq
    BY <1>0, <1>9 DEF EditWhitelist, Request
  <2> QED BY <1>0, <1>9, <2>1 DEF EditWhitelist, SeqInv, SeqOf, At
<1>10. ASSUME SecretChanges PROVE SeqInv'
  <2>1. \A w \in Worker : req'[w].at = "idle"
    BY <1>10 DEF SecretChanges, Idle
  <2> QED BY <1>0, <1>10, <2>1 DEF SecretChanges, SeqInv, SeqOf, At
<1>11. SeqInv'
  BY <1>2, <1>3, <1>4, <1>5, <1>6, <1>7, <1>8, <1>9, <1>10 DEF FeedNext, KeysNext, RequestStep
<1> QED BY <1>11 DEF SeqInv

LEMMA OwnStep ==
    ASSUME FeedTypes, OwnInv, FeedNext
    PROVE  OwnInv'
<1>0. /\ req \in [Worker -> Request(made)] /\ \A w \in Worker : req[w] \in Request(made) /\ OwnOf(w)
      /\ OwnIntelOnly /\ served \in Seq(ServedFeed)
  BY DEF FeedTypes, OwnInv
<1>1. ASSUME NEW w \in Worker, req' = [req EXCEPT ![w] = req'[w]], white' = white, served' = served, OwnOf(w)'
      PROVE  OwnInv'
  <2>1. \A v \in Worker \ {w} : OwnOf(v)'
    BY <1>0, <1>1 DEF OwnOf, At
  <2> QED BY <1>0, <1>1, <2>1 DEF OwnInv, OwnIntelOnly
<1>2. ASSUME NEW w \in Worker,
           \/ FeedRequest(w) \/ Rotate(w) \/ Toggle(w) \/ WorkerDies(w)
           \/ ReadPub(w) \/ ReadPriv(w) \/ WritePriv(w) \/ WritePub(w)
      PROVE OwnInv'
  <2>1. /\ req' = [req EXCEPT ![w] = req'[w]] /\ req'[w].at \in {"idle", "pub", "priv", "wpriv", "wpub", "rules"}
        /\ req'[w].always \in {{}, white, req[w].always} /\ white' = white /\ served' = served
    BY <1>2, EarlySteps
  <2>2. OwnOf(w)'
    BY <1>0, <2>1 DEF OwnOf, At
  <2> QED BY <1>1, <2>1, <2>2
<1>3. ASSUME NEW w \in Worker, ReadRules(w) PROVE OwnInv'
  <2>1. req' = [req EXCEPT ![w] = [req[w] EXCEPT !.at = "rows", !.rules = white, !.drops = excludes]]
    BY <1>0, <1>3, RequestEffect
  <2>2. req' = [req EXCEPT ![w] = req'[w]] /\ req'[w].at = "rows" /\ req'[w].always = req[w].always /\ req'[w].rules = white
    BY <1>0, <2>1 DEF Request
  <2>3. white' = white /\ served' = served
    BY <1>3 DEF ReadRules
  <2>4. OwnOf(w)'
    BY <1>0, <2>2, <2>3 DEF OwnOf, At
  <2> QED BY <1>1, <2>2, <2>3, <2>4
<1>4. ASSUME NEW w \in Worker, ReadRows(w) PROVE OwnInv'
  <2>1. req' = [req EXCEPT ![w] = [req[w] EXCEPT !.at = "seq", !.rows = FeedEntries(req[w].rules, req[w].drops)]]
    BY <1>0, <1>4, RequestEffect
  <2>2. /\ req' = [req EXCEPT ![w] = req'[w]] /\ req'[w].at = "seq" /\ req'[w].always = req[w].always
        /\ req'[w].rows = FeedEntries(req[w].rules, req[w].drops)
    BY <1>0, <2>1 DEF Request
  <2>3. white' = white /\ served' = served /\ req[w].always \subseteq req[w].rules /\ req[w].always \subseteq white
    BY <1>0, <1>4 DEF ReadRows, OwnOf, At
  <2>4. "third" \notin req'[w].rows /\ ("address" \in req'[w].always => "own" \notin req'[w].rows)
    BY <2>2, <2>3 DEF FeedEntries, MatchesWhitelist
  <2>5. OwnOf(w)'
    BY <2>2, <2>3, <2>4 DEF OwnOf, At
  <2> QED BY <1>1, <2>2, <2>3, <2>5
<1>5. ASSUME NEW w \in Worker, ReadSeq(w) PROVE OwnInv'
  <2>1. req' = [req EXCEPT ![w] = [req[w] EXCEPT !.at = "wseq", !.seq = seq + 1]]
    BY <1>0, <1>5, RequestEffect
  <2>2. req' = [req EXCEPT ![w] = req'[w]] /\ req'[w].at = "wseq" /\ req'[w].always = req[w].always /\ req'[w].rows = req[w].rows
    BY <1>0, <2>1 DEF Request
  <2>3. white' = white /\ served' = served /\ At(w, "seq")
    BY <1>5 DEF ReadSeq
  <2>4. OwnOf(w)'
    BY <1>0, <2>2, <2>3 DEF OwnOf, At
  <2> QED BY <1>1, <2>2, <2>3, <2>4
<1>6. ASSUME NEW w \in Worker, WriteSeq(w) PROVE OwnInv'
  <2>1. req' = [req EXCEPT ![w] = [req[w] EXCEPT !.at = "serve"]]
    BY <1>0, <1>6, RequestEffect
  <2>2. req' = [req EXCEPT ![w] = req'[w]] /\ req'[w].at = "serve" /\ req'[w].always = req[w].always /\ req'[w].rows = req[w].rows
    BY <1>0, <2>1 DEF Request
  <2>3. white' = white /\ served' = served /\ At(w, "wseq")
    BY <1>6 DEF WriteSeq
  <2>4. OwnOf(w)'
    BY <1>0, <2>2, <2>3 DEF OwnOf, At
  <2> QED BY <1>1, <2>2, <2>3, <2>4
<1>7. ASSUME NEW w \in Worker, Serve(w) PROVE OwnInv'
  <2> DEFINE f == [pub |-> req[w].pub, signer |-> req[w].priv, seq |-> req[w].seq, rows |-> req[w].rows, always |-> req[w].always]
  <2>1. "third" \notin req[w].rows /\ ("address" \in req[w].always => "own" \notin req[w].rows)
    BY <1>0, <1>7 DEF Serve, OwnOf, At
  <2>2. served' = Append(served, f) /\ white' = white /\ f.rows = req[w].rows /\ f.always = req[w].always
    BY <1>7 DEF Serve
  <2> HIDE DEF f
  <2>3. \A i \in DOMAIN served' : (i \in DOMAIN served /\ served'[i] = served[i]) \/ served'[i] = f
    BY <1>0, <2>2
  <2>4. OwnIntelOnly'
    BY <1>0, <2>1, <2>2, <2>3 DEF OwnIntelOnly
  <2>5. \A v \in Worker : OwnOf(v)'
    BY <1>0, <1>7, <2>2 DEF Serve, Idle, OwnOf, At
  <2> QED BY <2>4, <2>5 DEF OwnInv
<1>8. ASSUME SaveExcludes PROVE OwnInv'
  BY <1>0, <1>8 DEF SaveExcludes, OwnInv, OwnIntelOnly, OwnOf, At
<1>9. ASSUME NEW k \in Kind, EditWhitelist(k) PROVE OwnInv'
  <2>1. \A w \in Worker : /\ req'[w].at = req[w].at /\ req'[w].rules = req[w].rules /\ req'[w].rows = req[w].rows
                          /\ req'[w].always = req[w].always \cap white'
    BY <1>0, <1>9 DEF EditWhitelist, Request
  <2>2. ASSUME NEW w \in Worker PROVE OwnOf(w)'
    <3>1. OwnOf(w) /\ req'[w].always \subseteq req[w].always /\ req'[w].always \subseteq white'
      BY <1>0, <2>1
    <3> QED BY <2>1, <3>1 DEF OwnOf, At
  <2> QED BY <1>0, <1>9, <2>2 DEF EditWhitelist, OwnInv, OwnIntelOnly
<1>10. ASSUME SecretChanges PROVE OwnInv'
  <2>1. \A w \in Worker : req'[w].at = "idle" /\ req'[w].always = {}
    BY <1>10 DEF SecretChanges, Idle
  <2> QED BY <1>0, <1>10, <2>1 DEF SecretChanges, OwnInv, OwnIntelOnly, OwnOf, At
<1> QED BY <1>2, <1>3, <1>4, <1>5, <1>6, <1>7, <1>8, <1>9, <1>10 DEF FeedNext, KeysNext, RequestStep

LEMMA FeedStep ==
    ASSUME FeedInv, FeedNext
    PROVE  FeedInv' /\ Budgeted
  BY FeedTypeStep, KeyStep, SeqStep, OwnStep DEF FeedInv

-----------------------------------------------------------------------------
(* Suggestions *)

EscalationRow == [asn : Asn, status : {"pending", "approved", "rejected"}, decided : {"no", "lately", "long ago"}]

\* While the detector is between its query and its insert, what the query
\* said still holds of suggestions, and of decisions unless one was noted.
EvalInv ==
    \A a \in eval.next :
        /\ eval.next = {a}
        /\ \A i \in RowsOf(a) : ~Pending(i)
        /\ a \notin eval.stale => \A i \in RowsOf(a) : ~Lately(i)

EscalationInv == EscalationTypeOK /\ EvalInv /\ OnePending /\ ApprovedIsBanned

LEMMA EscalationStart ==
    ASSUME EscalationInit
    PROVE  EscalationInv
<1> USE DEF EscalationInit, NoEval
<1>1. EscalationTypeOK
  BY DEF EscalationTypeOK
<1>2. EvalInv /\ OnePending /\ ApprovedIsBanned
  BY DEF EvalInv, OnePending, ApprovedIsBanned
<1> QED BY <1>1, <1>2 DEF EscalationInv

LEMMA EscalationStutter ==
    ASSUME EscalationInv, UNCHANGED escalationVars
    PROVE  EscalationInv'
  BY DEF EscalationInv, EscalationTypeOK, EvalInv, OnePending, ApprovedIsBanned, RowsOf, Pending, Lately, escalationVars

LEMMA EscalationRows ==
    ASSUME EscalationInv
    PROVE  rows \in Seq(EscalationRow) /\ \A i \in DOMAIN rows : rows[i] \in EscalationRow
<1>1. rows \in Seq(EscalationRow)
  BY DEF EscalationInv, EscalationTypeOK, EscalationRow
<1> QED BY <1>1

\* The detector reads, or restarts: no row changes.
LEMMA DetectorReads ==
    ASSUME EscalationInv, EvaluateBegin \/ DetectorRestarts \/ \E a \in Asn : EvaluateRow(a)
    PROVE  EscalationInv' /\ Budgeted
<1>1. UNCHANGED <<busy, rows, deciding, banned, undone>> /\ Budgeted
  BY DEF EvaluateBegin, DetectorRestarts, EvaluateRow, Budgeted
<1>2. eval' \in [todo : SUBSET Asn, next : SUBSET Asn, stale : SUBSET Asn] /\ EvalInv'
  <2>1. CASE EvaluateBegin \/ DetectorRestarts
    <3>1. eval' = [todo |-> busy, next |-> {}, stale |-> {}] \/ eval' = [todo |-> {}, next |-> {}, stale |-> {}]
      BY <2>1 DEF EvaluateBegin, DetectorRestarts, NoEval
    <3>2. busy \in SUBSET Asn
      BY DEF EscalationInv, EscalationTypeOK
    <3> QED BY <3>1, <3>2 DEF EvalInv
  <2>2. CASE \E a \in Asn : EvaluateRow(a)
    <3>1. PICK a \in Asn : EvaluateRow(a)
      BY <2>2
    <3>2. /\ eval' \in [todo : SUBSET Asn, next : SUBSET Asn, stale : SUBSET Asn]
          /\ eval'.next = IF Suppressed(a) THEN {} ELSE {a}
      BY <3>1 DEF EvaluateRow, EscalationInv, EscalationTypeOK
    <3>3. EvalInv'
      BY <1>1, <3>2 DEF EvalInv, Suppressed, RowsOf, Pending, Lately
    <3> QED BY <3>2, <3>3
  <2> QED BY <2>1, <2>2
<1> QED BY <1>1, <1>2 DEF EscalationInv, EscalationTypeOK, OnePending, ApprovedIsBanned, Pending

LEMMA SuggestStep ==
    ASSUME EscalationInv, NEW a \in Asn, Suggest(a)
    PROVE  EscalationInv' /\ Budgeted
<1> DEFINE new == [asn |-> a, status |-> "pending", decided |-> "no"]
<1>1. /\ rows \in Seq(EscalationRow) /\ rows' = Append(rows, new) /\ new \in EscalationRow
      /\ UNCHANGED <<busy, deciding, banned, undone>> /\ Budgeted
  BY DEF Suggest, EscalationInv, EscalationTypeOK, EscalationRow, Budgeted
<1>2. rows' \in Seq(EscalationRow)
  BY <1>1
<1>3. eval' \in [todo : SUBSET Asn, next : SUBSET Asn, stale : SUBSET Asn] /\ eval'.next = {}
  BY DEF Suggest, EscalationInv, EscalationTypeOK
<1>4. \A i \in DOMAIN rows : rows[i].asn = a => rows[i].status # "pending"
  BY DEF EscalationInv, EvalInv, Suggest, RowsOf, Pending
<1>5. new.asn = a /\ new.status = "pending"
  OBVIOUS
<1> HIDE DEF new
<1>6. \A i \in DOMAIN rows' : (i \in DOMAIN rows /\ rows'[i] = rows[i]) \/ (i = Len(rows) + 1 /\ rows'[i] = new)
  BY <1>1
<1>7. OnePending'
  <2> SUFFICES ASSUME NEW i \in DOMAIN rows', NEW j \in DOMAIN rows', rows'[i].status = "pending", rows'[j].status = "pending",
                      rows'[i].asn = rows'[j].asn
               PROVE  i = j
    BY DEF OnePending, Pending
  <2> QED BY <1>4, <1>5, <1>6 DEF EscalationInv, OnePending, Pending
<1>8. ApprovedIsBanned'
  BY <1>1, <1>5, <1>6 DEF EscalationInv, ApprovedIsBanned
<1>9. EvalInv'
  BY <1>3 DEF EvalInv
<1> QED BY <1>1, <1>2, <1>3, <1>7, <1>8, <1>9 DEF EscalationInv, EscalationTypeOK, EscalationRow

LEMMA DecideStep ==
    ASSUME EscalationInv, NEW i, NEW d \in {"approved", "rejected"}, Decide(i, d)
    PROVE  EscalationInv' /\ Budgeted
<1>1. /\ rows \in Seq(EscalationRow) /\ i \in DOMAIN rows /\ rows[i] \in EscalationRow
      /\ eval \in [todo : SUBSET Asn, next : SUBSET Asn, stale : SUBSET Asn]
      /\ UNCHANGED <<busy, banned>> /\ Budgeted
  BY EscalationRows DEF Decide, EscalationInv, EscalationTypeOK, Budgeted
<1> DEFINE row == [rows[i] EXCEPT !.status = d, !.decided = "lately"]
<1>2. rows' = [rows EXCEPT ![i] = row]
  BY <1>1 DEF Decide
<1>3. row \in EscalationRow /\ row.asn = rows[i].asn /\ row.status = d
  BY <1>1 DEF EscalationRow
<1> HIDE DEF row
<1>4. rows' \in Seq(EscalationRow) /\ DOMAIN rows' = DOMAIN rows /\ rows'[i] = row /\ \A j \in DOMAIN rows \ {i} : rows'[j] = rows[j]
  BY <1>1, <1>2, <1>3
<1>5. /\ eval' \in [todo : SUBSET Asn, next : SUBSET Asn, stale : SUBSET Asn] /\ eval'.next = eval.next
      /\ eval'.stale = IF rows[i].asn \in eval.next THEN {rows[i].asn} ELSE eval.stale
  BY <1>1 DEF Decide, EscalationRow
<1>6. deciding' \subseteq Asn /\ undone' \subseteq Asn
  BY <1>1 DEF Decide, EscalationInv, EscalationTypeOK, EscalationRow
<1>7. OnePending'
  BY <1>3, <1>4 DEF EscalationInv, OnePending, Pending
<1>8. EvalInv'
  <2> SUFFICES ASSUME NEW a \in eval.next
               PROVE  /\ eval.next = {a}
                      /\ \A j \in DOMAIN rows : rows'[j].asn = a => rows'[j].status # "pending"
                      /\ a \notin eval'.stale => \A j \in DOMAIN rows : rows'[j].asn = a => rows'[j].decided # "lately"
    BY <1>4, <1>5 DEF EvalInv, RowsOf, Pending, Lately
  <2>1. eval.next = {a} /\ \A j \in RowsOf(a) : ~Pending(j)
    BY DEF EscalationInv, EvalInv
  <2>2. \A j \in DOMAIN rows : rows'[j].asn = a => rows'[j].status # "pending"
    BY <1>3, <1>4, <2>1 DEF RowsOf, Pending
  <2>3. ASSUME a \notin eval'.stale, NEW j \in DOMAIN rows, rows'[j].asn = a PROVE rows'[j].decided # "lately"
    <3>1. rows[i].asn # a /\ a \notin eval.stale
      BY <1>5, <2>1, <2>3
    <3>2. j # i
      BY <1>3, <1>4, <2>3, <3>1
    <3> QED BY <1>4, <2>3, <3>1, <3>2 DEF EscalationInv, EvalInv, RowsOf, Lately
  <2> QED BY <2>1, <2>2, <2>3
<1>9. ApprovedIsBanned'
  <2> SUFFICES ASSUME NEW j \in DOMAIN rows, rows'[j].status = "approved"
               PROVE  banned[rows'[j].asn] = "live" \/ rows'[j].asn \in deciding' \cup undone'
    BY <1>1, <1>4 DEF ApprovedIsBanned
  <2>1. rows'[j].asn = rows[j].asn
    BY <1>3, <1>4
  <2>2. CASE j = i
    BY <1>3, <1>4, <2>2 DEF Decide
  <2>3. CASE j # i
    <3>1. banned[rows[j].asn] = "live" \/ rows[j].asn \in deciding \cup undone
      BY <1>4, <2>3 DEF EscalationInv, ApprovedIsBanned
    <3> QED BY <2>1, <3>1 DEF Decide
  <2> QED BY <2>2, <2>3
<1> QED BY <1>1, <1>4, <1>5, <1>6, <1>7, <1>8, <1>9 DEF EscalationInv, EscalationTypeOK, EscalationRow

\* A ban is written, fails or is lifted; traffic comes and goes.
LEMMA BanStep ==
    ASSUME EscalationInv, NEW a \in Asn, BanNetwork(a) \/ BanFails(a) \/ Traffic(a) \/ Unban(a)
    PROVE  EscalationInv' /\ Budgeted
<1>1. UNCHANGED <<rows, eval>> /\ Budgeted
  BY DEF BanNetwork, BanFails, Traffic, Unban, Budgeted
<1>2. EscalationTypeOK'
  <2>1. CASE BanNetwork(a)
    BY <2>1 DEF BanNetwork, EscalationInv, EscalationTypeOK
  <2>2. CASE BanFails(a)
    BY <2>2 DEF BanFails, EscalationInv, EscalationTypeOK
  <2>3. CASE Traffic(a)
    BY <2>3 DEF Traffic, EscalationInv, EscalationTypeOK
  <2>4. CASE Unban(a)
    BY <2>4 DEF Unban, EscalationInv, EscalationTypeOK
  <2> QED BY <2>1, <2>2, <2>3, <2>4
<1>3. \A i \in DOMAIN rows : rows[i].asn \in Asn
  <2>1. \A i \in DOMAIN rows : rows[i] \in EscalationRow
    BY EscalationRows
  <2> QED BY <2>1 DEF EscalationRow
<1>4. ApprovedIsBanned'
  <2> SUFFICES ASSUME NEW i \in DOMAIN rows, rows[i].status = "approved"
               PROVE  banned'[rows[i].asn] = "live" \/ rows[i].asn \in deciding' \cup undone'
    BY <1>1 DEF ApprovedIsBanned
  <2>1. rows[i].asn \in Asn /\ (banned[rows[i].asn] = "live" \/ rows[i].asn \in deciding \cup undone)
    BY <1>3 DEF EscalationInv, ApprovedIsBanned
  <2>2. banned \in [Asn -> {"none", "live", "gone"}]
    BY DEF EscalationInv, EscalationTypeOK
  <2> QED BY <2>1, <2>2 DEF BanNetwork, BanFails, Traffic, Unban
<1>5. EvalInv' /\ OnePending'
  BY <1>1 DEF EscalationInv, EvalInv, OnePending, RowsOf, Pending, Lately
<1> QED BY <1>1, <1>2, <1>4, <1>5 DEF EscalationInv

LEMMA CooldownStep ==
    ASSUME EscalationInv, CooldownEnds
    PROVE  EscalationInv' /\ Budgeted
<1>1. rows \in Seq(EscalationRow) /\ UNCHANGED <<busy, eval, deciding, banned, undone>> /\ Budgeted /\ eval.next = {}
  BY DEF CooldownEnds, EscalationInv, EscalationTypeOK, EscalationRow, Budgeted
<1>2. /\ DOMAIN rows' = DOMAIN rows /\ rows' = [i \in DOMAIN rows |-> rows'[i]]
      /\ \A i \in DOMAIN rows : rows'[i] = rows[i] \/ rows'[i] = [rows[i] EXCEPT !.decided = "long ago"]
  BY DEF CooldownEnds
<1>3. \A i \in DOMAIN rows : rows'[i] \in EscalationRow /\ rows'[i].asn = rows[i].asn /\ rows'[i].status = rows[i].status
  <2> SUFFICES ASSUME NEW i \in DOMAIN rows
               PROVE  rows'[i] \in EscalationRow /\ rows'[i].asn = rows[i].asn /\ rows'[i].status = rows[i].status
    OBVIOUS
  <2>1. rows[i] \in EscalationRow
    BY <1>1
  <2> QED BY <1>2, <2>1 DEF EscalationRow
<1>4. rows' \in Seq(EscalationRow)
  <2>1. DOMAIN rows = 1..Len(rows) /\ Len(rows) \in Nat
    BY <1>1
  <2>2. rows' \in [1..Len(rows) -> EscalationRow]
    BY <1>2, <1>3, <2>1
  <2> QED BY <2>1, <2>2
<1>5. OnePending'
  BY <1>2, <1>3 DEF EscalationInv, OnePending, Pending
<1>6. ApprovedIsBanned'
  BY <1>1, <1>2, <1>3 DEF EscalationInv, ApprovedIsBanned
<1>7. EvalInv'
  BY <1>1 DEF EvalInv
<1> QED BY <1>1, <1>4, <1>5, <1>6, <1>7 DEF EscalationInv, EscalationTypeOK, EscalationRow

LEMMA EscalationStep ==
    ASSUME EscalationInv, EscalationNext
    PROVE  EscalationInv' /\ Budgeted
  BY DetectorReads, SuggestStep, DecideStep, BanStep, CooldownStep DEF EscalationNext, Evaluate

-----------------------------------------------------------------------------
(* Labels *)

LEMMA TagsStart ==
    ASSUME TagsInit
    PROVE  TagsTypeOK
<1> USE DEF TagsInit
<1>1. /\ active \subseteq Ip /\ score \in [Ip -> 0..1] /\ remembered \in [Ip -> -1..1] /\ floor \in 0..1 /\ trapOn \in BOOLEAN
      /\ bound \in [Ip -> 0..2]
  OBVIOUS
<1>2. refresh \in [Refresher -> [at : {"idle", "existing", "write"}, top : SUBSET Ip, add : SUBSET Ip, drop : SUBSET Ip]]
  BY DEF Rest
<1>3. life \in [List -> [Ip -> 0..4]] /\ due \subseteq Site /\ passes \in 0..Passes
  BY DEF Daily, Passes
<1> QED BY <1>1, <1>2, <1>3 DEF TagsTypeOK

LEMMA TagsStutter ==
    ASSUME TagsTypeOK, UNCHANGED tagsVars
    PROVE  TagsTypeOK'
  BY DEF TagsTypeOK, tagsVars

RefreshState == [at : {"idle", "existing", "write"}, top : SUBSET Ip, add : SUBSET Ip, drop : SUBSET Ip]

LEMMA RefreshWith ==
    ASSUME NEW r \in RefreshState, NEW at \in {"idle", "existing", "write"}
    PROVE  /\ \A T \in SUBSET Ip : [r EXCEPT !.at = at, !.top = T] \in RefreshState
           /\ \A A, D \in SUBSET Ip : [r EXCEPT !.at = at, !.add = A, !.drop = D] \in RefreshState
           /\ \A A \in SUBSET Ip : [r EXCEPT !.add = A] \in RefreshState
           /\ \A D \in SUBSET Ip : [r EXCEPT !.drop = D] \in RefreshState
           /\ Rest \in RefreshState
  BY DEF RefreshState, Rest

LEMMA QualifyStep ==
    ASSUME TagsTypeOK, NEW p \in Refresher, Qualify(p)
    PROVE  TagsTypeOK' /\ Budgeted
<1>1. refresh \in [Refresher -> RefreshState] /\ refresh[p] \in RefreshState
  BY DEF TagsTypeOK, RefreshState
<1>2. \A done : Known(done) \in [Ip -> -1..1]
  BY DEF TagsTypeOK, Known
<1>3. remembered' \in [Ip -> -1..1]
  BY <1>2 DEF TagsTypeOK, Qualify
<1>4. refresh' \in [Refresher -> RefreshState]
  <2>1. CASE trapOn
    <3>0. PICK done \in Computable :
            refresh' = [refresh EXCEPT ![p].at = "existing", ![p].top = Top({i \in active : Known(done)[i] >= floor})]
      BY <2>1 DEF Qualify
    <3> DEFINE T == Top({i \in active : Known(done)[i] >= floor})
    <3>1. T \in SUBSET Ip
      BY DEF TagsTypeOK, Top
    <3>2. refresh' = [refresh EXCEPT ![p] = [refresh[p] EXCEPT !.at = "existing", !.top = T]]
      BY <1>1, <3>0
    <3> HIDE DEF T
    <3>3. [refresh[p] EXCEPT !.at = "existing", !.top = T] \in RefreshState
      BY <1>1, <3>1, RefreshWith
    <3> QED BY <1>1, <3>2, <3>3
  <2>2. CASE ~trapOn
    BY <1>1, <2>2 DEF Qualify
  <2> QED BY <2>1, <2>2
<1>5. passes' \in 0..Passes
  BY DEF TagsTypeOK, Qualify, Refresher, Passes
<1>6. UNCHANGED <<active, score, floor, trapOn, bound, life, due>> /\ Budgeted
  BY DEF Qualify, scores, Budgeted
<1> QED BY <1>3, <1>4, <1>5, <1>6 DEF TagsTypeOK, RefreshState

LEMMA RefreshRuns ==
    ASSUME TagsTypeOK, NEW p \in Refresher, RefreshStep(p) \/ Stopped(p)
    PROVE  TagsTypeOK' /\ Budgeted
<1>1. refresh \in [Refresher -> RefreshState] /\ refresh[p] \in RefreshState /\ bound \in [Ip -> 0..2] /\ passes \in 0..Passes
  BY DEF TagsTypeOK, RefreshState
<1>2. refresh[p].top \in SUBSET Ip /\ refresh[p].add \in SUBSET Ip /\ refresh[p].drop \in SUBSET Ip
  BY <1>1 DEF RefreshState
<1>3. UNCHANGED <<active, score, floor, trapOn, remembered, life, due>> /\ Budgeted
  BY DEF RefreshStep, ReadExisting, WriteTag, Written, Stopped, scores, Budgeted
<1>4. refresh' \in [Refresher -> RefreshState] /\ bound' \in [Ip -> 0..2] /\ passes' \in 0..Passes
  <2>1. CASE ReadExisting(p)
    <3> DEFINE A == refresh[p].top \ InForce
               D == InForce \ refresh[p].top
    <3>1. A \in SUBSET Ip /\ D \in SUBSET Ip
      BY <1>2 DEF InForce
    <3>2. refresh' = [refresh EXCEPT ![p] = [refresh[p] EXCEPT !.at = "write", !.add = A, !.drop = D]]
          /\ UNCHANGED <<bound, passes>>
      BY <1>1, <2>1 DEF ReadExisting
    <3> HIDE DEF A, D
    <3>3. [refresh[p] EXCEPT !.at = "write", !.add = A, !.drop = D] \in RefreshState
      BY <1>1, <3>1, RefreshWith
    <3> QED BY <1>1, <3>2, <3>3
  <2>2. CASE WriteTag(p)
    <3>1. PICK i \in Ip :
            \/ /\ \E days \in 1..2 : bound' = [bound EXCEPT ![i] = days]
               /\ refresh' = [refresh EXCEPT ![p] = [refresh[p] EXCEPT !.add = refresh[p].add \ {i}]]
            \/ /\ bound' = [bound EXCEPT ![i] = 0]
               /\ refresh' = [refresh EXCEPT ![p] = [refresh[p] EXCEPT !.drop = refresh[p].drop \ {i}]]
      BY <1>1, <1>2, <2>2 DEF WriteTag
    <3>2. bound' \in [Ip -> 0..2] /\ passes' = passes
      BY <1>1, <2>2, <3>1 DEF WriteTag
    <3>3. /\ [refresh[p] EXCEPT !.add = refresh[p].add \ {i}] \in RefreshState
          /\ [refresh[p] EXCEPT !.drop = refresh[p].drop \ {i}] \in RefreshState
      <4>1. refresh[p].add \ {i} \in SUBSET Ip /\ refresh[p].drop \ {i} \in SUBSET Ip
        BY <1>2
      <4> QED BY <1>1, <4>1, RefreshWith
    <3> QED BY <1>1, <3>1, <3>2, <3>3
  <2>3. CASE Written(p)
    <3>1. passes' \in 0..Passes
      BY <1>1, <2>3 DEF Written, Passes
    <3> QED BY <1>1, <2>3, <3>1, RefreshWith DEF Written
  <2>4. CASE Stopped(p)
    BY <1>1, <2>4, RefreshWith DEF Stopped
  <2> QED BY <2>1, <2>2, <2>3, <2>4 DEF RefreshStep
<1> QED BY <1>3, <1>4 DEF TagsTypeOK, RefreshState

LEMMA DownloadStep ==
    ASSUME TagsTypeOK, NEW site \in Site, Download(site)
    PROVE  TagsTypeOK' /\ Budgeted
<1>1. life \in [List -> [Ip -> 0..4]] /\ due \subseteq Site
  BY DEF TagsTypeOK
<1>2. \A l \in List : Days[l] + 1 \in 0..4
  BY DEF List, Days
<1>3. ASSUME NEW got PROVE Labelled(got) \in [List -> [Ip -> 0..4]]
  BY <1>1, <1>2 DEF Labelled
<1>4. life' \in [List -> [Ip -> 0..4]] /\ due' \subseteq Site
  BY <1>1, <1>3 DEF Download
<1>5. UNCHANGED <<active, score, floor, trapOn, remembered, bound, refresh, passes>> /\ Budgeted
  BY DEF Download, scores, Budgeted
<1> QED BY <1>4, <1>5 DEF TagsTypeOK

LEMMA TagsWorld ==
    ASSUME TagsTypeOK, SaveHoneypot \/ \E i \in Ip : Decision(i) \/ Rescored(i)
    PROVE  TagsTypeOK' /\ Budgeted
<1>1. CASE SaveHoneypot
  BY <1>1 DEF TagsTypeOK, SaveHoneypot, Budgeted
<1>2. ASSUME NEW i \in Ip, Decision(i) PROVE TagsTypeOK' /\ Budgeted
  BY <1>2 DEF TagsTypeOK, Decision, Budgeted
<1>3. ASSUME NEW i \in Ip, Rescored(i) PROVE TagsTypeOK' /\ Budgeted
  <2>1. score' \in [Ip -> 0..1]
    <3>1. score[i] \in 0..1 /\ 1 - score[i] \in 0..1
      BY DEF TagsTypeOK
    <3> QED BY <1>3, <3>1 DEF TagsTypeOK, Rescored
  <2> QED BY <1>3, <2>1 DEF TagsTypeOK, Rescored, Budgeted
<1> QED BY <1>1, <1>2, <1>3

LEMMA DayEndsStep ==
    ASSUME TagsTypeOK, DayEnds
    PROVE  TagsTypeOK' /\ Budgeted
<1>1. \A n \in 0..2 : Less(n) \in 0..2
  BY DEF Less
<1>2. \A n \in 0..4 : Less(n) \in 0..4
  BY DEF Less
<1>3. bound' \in [Ip -> 0..2]
  BY <1>1 DEF TagsTypeOK, DayEnds
<1>4. life' \in [List -> [Ip -> 0..4]]
  BY <1>2 DEF TagsTypeOK, DayEnds
<1>5. remembered' \in [Ip -> -1..1] /\ due' \subseteq Site /\ passes' \in 0..Passes
  BY DEF DayEnds, Forgotten, Daily, Passes
<1>6. UNCHANGED <<active, score, floor, trapOn, refresh>> /\ Budgeted
  BY DEF DayEnds, scores, Budgeted
<1> QED BY <1>3, <1>4, <1>5, <1>6 DEF TagsTypeOK

LEMMA TagsStep ==
    ASSUME TagsTypeOK, TagsNext
    PROVE  TagsTypeOK' /\ Budgeted
  BY QualifyStep, RefreshRuns, DownloadStep, TagsWorld, DayEndsStep DEF TagsNext

-----------------------------------------------------------------------------
(* Peers *)

\* A row that a pull has read: while its id is in the table, that row has
\* its address, for ids are not given twice.
Remembers(q) == q.id <= lastId /\ \A p \in peers : p.id = q.id => p.url = q.url

PullState == [on : BOOLEAN, todo : SUBSET Peer, now : SUBSET Peer, got : Url \cup {"none"}]

PullInv ==
    \A c \in Puller :
        /\ \A q \in pull[c].todo \cup pull[c].now : Remembers(q)
        /\ \A q \in pull[c].now : pull[c].now = {q} /\ pull[c].got \in {q.url, "none"}

PeersInv == PeersTypeOK /\ SummaryIsOwn /\ PullInv

LEMMA PeersStart ==
    ASSUME PeersInit
    PROVE  PeersInv
<1>1. PeersTypeOK
  BY DEF PeersInit, PeersTypeOK, NoPull
<1>2. SummaryIsOwn /\ PullInv
  BY DEF PeersInit, SummaryIsOwn, PullInv, NoPull
<1> QED BY <1>1, <1>2 DEF PeersInv

LEMMA PeersStutter ==
    ASSUME PeersInv, UNCHANGED peersVars
    PROVE  PeersInv'
  BY DEF PeersInv, PeersTypeOK, SummaryIsOwn, PullInv, Remembers, peersVars

\* The facts about the rows, as a step on the page or a pull needs them.
LEMMA PeerFacts ==
    ASSUME PeersInv
    PROVE  /\ peers \subseteq Peer /\ lastId \in Nat /\ pullDue \in BOOLEAN
           /\ pull \in [Puller -> PullState] /\ \A c \in Puller : pull[c] \in PullState
           /\ \A p, q \in peers : p.id = q.id \/ p.name = q.name => p = q
           /\ \A p \in peers : p.id \in Nat /\ p.id <= lastId
<1>1. peers \subseteq Peer /\ lastId \in Nat /\ pull \in [Puller -> PullState]
  BY DEF PeersInv, PeersTypeOK, PullState
<1>2. \A p \in peers : p.id \in Nat
  BY <1>1 DEF Peer
<1> QED BY <1>1, <1>2 DEF PeersInv, PeersTypeOK

LEMMA AddPeerStep ==
    ASSUME PeersInv, NEW n \in PeerName, NEW u \in Url, AddPeer(n, u)
    PROVE  PeersInv' /\ Budgeted
<1> DEFINE new == [id |-> lastId + 1, name |-> n, url |-> u, on |-> TRUE, ok |-> FALSE, from |-> "none"]
<1>1. lastId \in Nat /\ new \in Peer /\ new.id = lastId + 1 /\ new.name = n /\ ~new.ok
  BY PeerFacts DEF Peer
<1>2. peers' = peers \cup {new} /\ lastId' = lastId + 1 /\ UNCHANGED <<pull, pullDue>> /\ Budgeted /\ \A p \in peers : p.name # n
  BY DEF AddPeer, Budgeted
<1> HIDE DEF new
<1>3. \A p \in peers' : p.id <= lastId'
  BY <1>1, <1>2, PeerFacts
<1>4. \A p, q \in peers' : p.id = q.id \/ p.name = q.name => p = q
  <2>1. \A p \in peers : p.id # new.id /\ p.name # new.name
    BY <1>1, <1>2, PeerFacts
  <2> QED BY <1>2, <2>1, PeerFacts
<1>5. PeersTypeOK'
  BY <1>1, <1>2, <1>3, <1>4, PeerFacts DEF PeersTypeOK, PullState
<1>6. SummaryIsOwn'
  BY <1>1, <1>2 DEF PeersInv, SummaryIsOwn
<1>7. PullInv'
  <2>1. ASSUME NEW c \in Puller, NEW q \in pull[c].todo \cup pull[c].now PROVE Remembers(q)'
    <3>1. q \in Peer /\ q.id \in Nat /\ Remembers(q)
      BY PeerFacts DEF PullState, PeersInv, PullInv, Peer
    <3> QED BY <1>1, <1>2, <3>1 DEF Remembers
  <2> QED BY <1>2, <2>1 DEF PeersInv, PullInv
<1> QED BY <1>2, <1>5, <1>6, <1>7 DEF PeersInv

\* Rows go away, or change without changing id, name and address.
LEMMA RowsChange ==
    ASSUME PeersInv, UNCHANGED lastId,
           \A p \in peers' : \E o \in peers : o.id = p.id /\ o.name = p.name /\ o.url = p.url,
           \A p, q \in peers' : p.id = q.id => p = q
    PROVE  /\ \A p, q \in peers' : p.id = q.id \/ p.name = q.name => p = q
           /\ \A p \in peers' : p.id <= lastId'
           /\ \A q : Remembers(q) => Remembers(q)'
<1>1. \A p, q \in peers' : p.id = q.id \/ p.name = q.name => p = q
  BY PeerFacts
<1>2. \A p \in peers' : p.id <= lastId'
  BY PeerFacts
<1>3. \A q : Remembers(q) => Remembers(q)'
  BY DEF Remembers
<1> QED BY <1>1, <1>2, <1>3

LEMMA EditPeerStep ==
    ASSUME PeersInv, NEW p \in peers, TogglePeer(p) \/ DeletePeer(p)
    PROVE  PeersInv' /\ Budgeted
<1> DEFINE new == [p EXCEPT !.on = ~p.on]
<1>1. p \in Peer /\ new \in Peer /\ new.id = p.id /\ new.name = p.name /\ new.url = p.url /\ new.ok = p.ok /\ new.from = p.from
  BY PeerFacts DEF Peer
<1>2. UNCHANGED <<lastId, pull, pullDue>> /\ Budgeted /\ (peers' = (peers \ {p}) \cup {new} \/ peers' = peers \ {p})
  BY DEF TogglePeer, DeletePeer, Budgeted
<1> HIDE DEF new
<1>3. \A q \in peers' : \E o \in peers : o.id = q.id /\ o.name = q.name /\ o.url = q.url
  BY <1>1, <1>2
<1>4. \A q, r \in peers' : q.id = r.id => q = r
  BY <1>1, <1>2, PeerFacts
<1>5. /\ \A r, q \in peers' : r.id = q.id \/ r.name = q.name => r = q
      /\ \A r \in peers' : r.id <= lastId'
      /\ \A q : Remembers(q) => Remembers(q)'
  BY <1>2, <1>3, <1>4, RowsChange
<1>6. PeersTypeOK'
  BY <1>1, <1>2, <1>5, PeerFacts DEF PeersTypeOK, PullState
<1>7. SummaryIsOwn'
  BY <1>1, <1>2 DEF PeersInv, SummaryIsOwn
<1>8. PullInv'
  BY <1>2, <1>5 DEF PeersInv, PullInv
<1> QED BY <1>2, <1>6, <1>7, <1>8 DEF PeersInv

LEMMA PullBeginStep ==
    ASSUME PeersInv, NEW c \in Puller, PullBegin(c)
    PROVE  PeersInv' /\ Budgeted
<1> DEFINE new == [NoPull EXCEPT !.on = TRUE, !.todo = Enabled]
<1>1. pull' = [pull EXCEPT ![c] = new] /\ UNCHANGED <<peers, lastId, pullDue>> /\ Budgeted
  BY DEF PullBegin, Budgeted
<1>2. new \in PullState /\ new.todo = Enabled /\ new.now = {}
  <2>1. Enabled \in SUBSET Peer
    BY PeerFacts DEF Enabled
  <2> QED BY <2>1 DEF PullState, NoPull
<1>3. \A q \in Enabled : Remembers(q)
  BY PeerFacts DEF Enabled, Remembers
<1> HIDE DEF new
<1>4. PeersTypeOK' /\ SummaryIsOwn'
  BY <1>1, <1>2, PeerFacts DEF PeersInv, PeersTypeOK, PullState, SummaryIsOwn
<1>5. ASSUME NEW d \in Puller
      PROVE  /\ \A q \in pull'[d].todo \cup pull'[d].now : Remembers(q)
             /\ \A q \in pull'[d].now : pull'[d].now = {q} /\ pull'[d].got \in {q.url, "none"}
  <2>1. CASE d = c
    BY <1>1, <1>2, <1>3, <2>1, PeerFacts
  <2>2. CASE d # c
    BY <1>1, <2>2, PeerFacts DEF PeersInv, PullInv
  <2> QED BY <2>1, <2>2
<1>6. PullInv'
  BY <1>1, <1>5 DEF PullInv, Remembers
<1> QED BY <1>1, <1>4, <1>6 DEF PeersInv

\* The row with the least id comes next.
LEMMA LeastId ==
    ASSUME NEW T, T \subseteq Peer, T # {}
    PROVE  \E q \in T : \A r \in T : q.id <= r.id
<1> DEFINE ids == {q.id : q \in T}
<1>1. ids \subseteq Nat /\ ids # {}
  BY DEF Peer
<1> HIDE DEF ids
<1>2. PICK n \in ids : \A m \in ids : n <= m
  BY <1>1, NatMin
<1> QED BY <1>2 DEF ids

LEMMA FetchPeerStep ==
    ASSUME PeersInv, NEW c \in Puller, FetchPeer(c)
    PROVE  PeersInv' /\ Budgeted
<1> DEFINE T == pull[c].todo
           p == CHOOSE q \in T : \A r \in T : q.id <= r.id
<1>1. T \subseteq Peer /\ T # {}
  BY PeerFacts DEF FetchPeer, PullState
<1>2. p \in T
  BY <1>1, LeastId
<1>3. PICK got \in {p.url, "none"} : pull' = [pull EXCEPT ![c].todo = T \ {p}, ![c].now = {p}, ![c].got = got]
  BY DEF FetchPeer
<1>4. UNCHANGED <<peers, lastId, pullDue>> /\ Budgeted
  BY DEF FetchPeer, Budgeted
<1> HIDE DEF p
<1> DEFINE new == [pull[c] EXCEPT !.todo = T \ {p}, !.now = {p}, !.got = got]
<1>5. pull' = [pull EXCEPT ![c] = new]
  BY <1>3, PeerFacts
<1>6. p \in Peer /\ p.url \in Url /\ got \in Url \cup {"none"}
  BY <1>1, <1>2, <1>3 DEF Peer
<1>7. new \in PullState /\ new.todo = T \ {p} /\ new.now = {p} /\ new.got = got
  BY <1>1, <1>6, PeerFacts DEF PullState
<1> HIDE DEF new
<1>8. PeersTypeOK' /\ SummaryIsOwn'
  BY <1>4, <1>5, <1>7, PeerFacts DEF PeersInv, PeersTypeOK, PullState, SummaryIsOwn
<1>9. ASSUME NEW d \in Puller
      PROVE  /\ \A q \in pull'[d].todo \cup pull'[d].now : Remembers(q)
             /\ \A q \in pull'[d].now : pull'[d].now = {q} /\ pull'[d].got \in {q.url, "none"}
  <2>1. CASE d = c
    <3>1. \A q \in T : Remembers(q)
      BY DEF PeersInv, PullInv
    <3>2. pull'[d] = new
      BY <1>5, <2>1, PeerFacts
    <3> QED BY <1>2, <1>3, <1>7, <3>1, <3>2
  <2>2. CASE d # c
    BY <1>5, <2>2, PeerFacts DEF PeersInv, PullInv
  <2> QED BY <2>1, <2>2
<1>10. PullInv'
  BY <1>4, <1>9 DEF PullInv, Remembers
<1> QED BY <1>4, <1>8, <1>10 DEF PeersInv

LEMMA UpdatedIs ==
    ASSUME NEW p \in Peer, NEW q, NEW got \in Url \cup {"none"}
    PROVE  /\ Updated(p, q, got) \in Peer
           /\ Updated(p, q, got).id = p.id /\ Updated(p, q, got).name = p.name /\ Updated(p, q, got).url = p.url
           /\ p.id # q.id => Updated(p, q, got) = p
           /\ p.id = q.id => Updated(p, q, got).ok = (got # "none") /\ Updated(p, q, got).from = got
  BY DEF Peer, Updated

LEMMA StorePeerStep ==
    ASSUME PeersInv, NEW c \in Puller, StorePeer(c)
    PROVE  PeersInv' /\ Budgeted
<1>1. PICK q \in pull[c].now : peers' = {Updated(p, q, pull[c].got) : p \in peers}
  BY DEF StorePeer
<1> DEFINE got == pull[c].got
           new == [pull[c] EXCEPT !.now = {}, !.got = "none"]
<1>2. pull' = [pull EXCEPT ![c] = new] /\ UNCHANGED <<lastId, pullDue>> /\ Budgeted
  BY PeerFacts DEF StorePeer, Budgeted
<1>3. new \in PullState /\ new.todo = pull[c].todo /\ new.now = {} /\ got \in Url \cup {"none"}
  BY PeerFacts DEF PullState
<1>4. got \in {q.url, "none"} /\ Remembers(q)
  BY DEF PeersInv, PullInv
<1> HIDE DEF got, new
<1>5. \A r \in peers' : \E p \in peers : r = Updated(p, q, got)
  BY <1>1 DEF got
<1>6. peers' \subseteq Peer
  BY <1>3, <1>5, PeerFacts, UpdatedIs
<1>7. \A r \in peers' : \E o \in peers : o.id = r.id /\ o.name = r.name /\ o.url = r.url
  BY <1>3, <1>5, PeerFacts, UpdatedIs
<1>8. \A r, s \in peers' : r.id = s.id => r = s
  <2> SUFFICES ASSUME NEW r \in peers', NEW s \in peers', r.id = s.id PROVE r = s
    OBVIOUS
  <2>1. PICK o1 \in peers : r = Updated(o1, q, got)
    BY <1>5
  <2>2. PICK o2 \in peers : s = Updated(o2, q, got)
    BY <1>5
  <2>3. o1.id = o2.id
    BY <1>3, <2>1, <2>2, PeerFacts, UpdatedIs
  <2> QED BY <2>1, <2>2, <2>3, PeerFacts
<1>9. /\ \A r, s \in peers' : r.id = s.id \/ r.name = s.name => r = s
      /\ \A r \in peers' : r.id <= lastId'
      /\ \A r : Remembers(r) => Remembers(r)'
  BY <1>2, <1>7, <1>8, RowsChange
<1>10. PeersTypeOK'
  BY <1>2, <1>3, <1>6, <1>9, PeerFacts DEF PeersTypeOK, PullState
<1>11. SummaryIsOwn'
  <2> SUFFICES ASSUME NEW r \in peers', r.ok PROVE r.from = r.url
    BY DEF SummaryIsOwn
  <2>1. PICK p \in peers : r = Updated(p, q, got)
    BY <1>5
  <2>2. p \in Peer /\ r.url = p.url
    BY <1>3, <2>1, PeerFacts, UpdatedIs
  <2>3. CASE p.id = q.id
    <3>1. r.ok = (got # "none") /\ r.from = got
      BY <1>3, <2>1, <2>2, <2>3, UpdatedIs
    <3>2. got = q.url
      BY <1>4, <3>1
    <3> QED BY <1>4, <2>2, <2>3, <3>1, <3>2 DEF Remembers
  <2>4. CASE p.id # q.id
    BY <1>3, <2>1, <2>2, <2>4, UpdatedIs DEF PeersInv, SummaryIsOwn
  <2> QED BY <2>3, <2>4
<1>12. ASSUME NEW d \in Puller
       PROVE  /\ \A r \in pull'[d].todo \cup pull'[d].now : Remembers(r)'
              /\ \A r \in pull'[d].now : pull'[d].now = {r} /\ pull'[d].got \in {r.url, "none"}
  <2>1. CASE d = c
    BY <1>2, <1>3, <1>9, <2>1, PeerFacts DEF PeersInv, PullInv
  <2>2. CASE d # c
    BY <1>2, <1>9, <2>2, PeerFacts DEF PeersInv, PullInv
  <2> QED BY <2>1, <2>2
<1> QED BY <1>2, <1>10, <1>11, <1>12 DEF PeersInv, PullInv

LEMMA PullIdleStep ==
    ASSUME PeersInv, MinutePasses \/ \E c \in Puller : PullEnds(c) \/ PullDies(c)
    PROVE  PeersInv' /\ Budgeted
<1>1. CASE MinutePasses
  BY <1>1 DEF MinutePasses, Budgeted, PeersInv, PeersTypeOK, SummaryIsOwn, PullInv, Remembers
<1>2. ASSUME NEW c \in Puller, PullEnds(c) \/ PullDies(c) PROVE PeersInv' /\ Budgeted
  <2>1. pull' = [pull EXCEPT ![c] = NoPull] /\ UNCHANGED <<peers, lastId>> /\ pullDue' \in BOOLEAN /\ Budgeted
    BY <1>2, PeerFacts DEF PullEnds, PullDies, Budgeted
  <2>2. NoPull \in PullState /\ NoPull.todo = {} /\ NoPull.now = {}
    BY DEF NoPull, PullState
  <2>3. PeersTypeOK' /\ SummaryIsOwn'
    BY <2>1, <2>2, PeerFacts DEF PeersInv, PeersTypeOK, PullState, SummaryIsOwn
  <2>4. PullInv'
    <3> SUFFICES ASSUME NEW d \in Puller
                 PROVE  /\ \A q \in pull'[d].todo \cup pull'[d].now : Remembers(q)
                        /\ \A q \in pull'[d].now : pull'[d].now = {q} /\ pull'[d].got \in {q.url, "none"}
      BY <2>1 DEF PullInv, Remembers
    <3>1. CASE d = c
      BY <2>1, <2>2, <3>1, PeerFacts
    <3>2. CASE d # c
      BY <2>1, <3>2, PeerFacts DEF PeersInv, PullInv
    <3> QED BY <3>1, <3>2
  <2> QED BY <2>1, <2>3, <2>4 DEF PeersInv
<1> QED BY <1>1, <1>2

LEMMA PeersStep ==
    ASSUME PeersInv, PeersNext
    PROVE  PeersInv' /\ Budgeted
  BY AddPeerStep, EditPeerStep, PullBeginStep, FetchPeerStep, StorePeerStep, PullIdleStep DEF PeersNext, PullStep

-----------------------------------------------------------------------------
(* The composition *)

InsightInv == BudgetTypeOK /\ FirewallInv /\ FeedInv /\ EscalationInv /\ TagsTypeOK /\ PeersInv

LEMMA InsightStart ==
    ASSUME Init
    PROVE  InsightInv
<1>1. BudgetTypeOK
  BY DEF Init, BudgetInit, BudgetTypeOK
<1> QED BY <1>1, FirewallStart, FeedStart, EscalationStart, TagsStart, PeersStart DEF Init, InsightInv

LEMMA InsightStep ==
    ASSUME InsightInv, [Next]_vars
    PROVE  InsightInv'
<1> USE DEF InsightInv
<1>1. CASE UNCHANGED vars
  <2>1. BudgetTypeOK'
    BY <1>1 DEF vars, BudgetTypeOK
  <2>2. UNCHANGED firewallVars /\ UNCHANGED feedVars /\ UNCHANGED escalationVars /\ UNCHANGED tagsVars /\ UNCHANGED peersVars
    BY <1>1 DEF vars
  <2> QED BY <2>1, <2>2, FirewallStutter, FeedStutter, EscalationStutter, TagsStutter, PeersStutter
<1>2. CASE /\ FirewallNext \/ Fetch("poller") \/ Store("poller")
           /\ UNCHANGED <<feedVars, escalationVars, tagsVars, peersVars>>
  BY <1>2, FirewallStep, BudgetStep, FeedStutter, EscalationStutter, TagsStutter, PeersStutter
<1>3. CASE FeedNext /\ UNCHANGED <<firewallVars, escalationVars, tagsVars, peersVars>>
  BY <1>3, FeedStep, BudgetStep, FirewallStutter, EscalationStutter, TagsStutter, PeersStutter
<1>4. CASE EscalationNext /\ UNCHANGED <<firewallVars, feedVars, tagsVars, peersVars>>
  BY <1>4, EscalationStep, BudgetStep, FirewallStutter, FeedStutter, TagsStutter, PeersStutter
<1>5. CASE TagsNext /\ UNCHANGED <<firewallVars, feedVars, escalationVars, peersVars>>
  BY <1>5, TagsStep, BudgetStep, FirewallStutter, FeedStutter, EscalationStutter, PeersStutter
<1>6. CASE PeersNext /\ UNCHANGED <<firewallVars, feedVars, escalationVars, tagsVars>>
  BY <1>6, PeersStep, BudgetStep, FirewallStutter, FeedStutter, EscalationStutter, TagsStutter
<1> QED BY <1>1, <1>2, <1>3, <1>4, <1>5, <1>6 DEF Next, FeedNext

LEMMA InsightHolds == Spec => []InsightInv
  BY InsightStart, InsightStep, PTL DEF Spec

\* The verdict on a table of rules agrees with what a router does with a
\* packet of a banned source; and a green pill is only shown when every
\* router was read and its rules, as far as the analysis looks, stop such
\* IPv4 packets in both directions and, when its IPv6 rules were read at
\* least in part and bans were noted, IPv6 ones in at least one direction
\* (blocking.analyze, summarize, fetch_rules_* and the cache behind the
\* pill), for any routers and rules.
THEOREM VerdictStaysSound == Spec => []VerdictSound
<1>1. InsightInv => VerdictSound
  BY VerdictFromTypes DEF InsightInv
<1> QED BY <1>1, InsightHolds, PTL

\* A published feed is signed by the key it carries, also after a change of
\* SECRET_KEY, unless requests overlapped in _ensure_keypair or one that
\* replaced an unusable key ended between its writes; is numbered once; and
\* holds nothing of others' lists and no row that a rule whitelists in the
\* spelling it is stored in (intel_publish), for any number of workers.
THEOREM FeedStaysSound == Spec => []FeedSound
<1>1. InsightInv => FeedSound
  BY FeedFromInv DEF InsightInv
<1> QED BY <1>1, InsightHolds, PTL

\* The tables of suggestions, labels and peers always agree with what they
\* stand for (asn_detector, honeypot, intel_providers, peers).
THEOREM RecordsStaySound == Spec => []RecordsSound
<1>1. InsightInv => RecordsSound
  BY FeedFromInv DEF InsightInv, RecordsSound, TypeOK, FirewallInv, EscalationInv, PeersInv
<1> QED BY <1>1, InsightHolds, PTL

\* An operator's decision on a network sticks for the cooldown (evaluate and
\* decide of asn_detector).
THEOREM DecisionsStick == Spec => DecisionSticks
<1>1. InsightInv /\ [Next]_vars =>
        [\A a \in Asn : Suggest(a) /\ a \notin eval.stale => \A i \in RowsOf(a) : ~Lately(i)]_<<escalationVars, focus, spent>>
  BY DEF InsightInv, EscalationInv, EvalInv, Suggest
<1> QED BY <1>1, InsightHolds, PTL DEF Spec, DecisionSticks

=============================================================================
