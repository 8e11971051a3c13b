------------------------------ MODULE MCInsight ------------------------------
(***************************************************************************)
(* A small instance of Insight for TLC. The analysis is held against every *)
(* table with at most one rule in raw and two in filter, of which a        *)
(* disabled one has no condition and is no jump; the firewall check runs   *)
(* on two routers with a few tables that tell the verdicts apart.          *)
(***************************************************************************)
EXTENDS Insight, SequencesExt

MCRule(chains, conds) ==
    {r \in [chain : chains, act : {"accept", "drop", "jump"}, on : BOOLEAN, list : BOOLEAN, cond : conds] :
        /\ r.act = "jump" => ~r.list /\ r.chain # "custom"
        /\ ~r.on => r.act # "jump" /\ ~r.cond}

MCInspected ==
    {[raw |-> a, filter |-> b] :
        a \in BoundedSeq(MCRule({"prerouting"}, {FALSE}), 1),
        b \in BoundedSeq(MCRule({"input", "forward", "custom"}, BOOLEAN), 2)}

Drop(chain, on) == [chain |-> chain, act |-> "drop", on |-> on, list |-> TRUE, cond |-> FALSE]
Accept(chain) == [chain |-> chain, act |-> "accept", on |-> TRUE, list |-> FALSE, cond |-> FALSE]

MCRaw == [raw |-> <<Drop("prerouting", TRUE)>>, filter |-> <<>>]
MCV4Rules == {MCRaw, [raw |-> <<>>, filter |-> <<Accept("forward"), Drop("forward", TRUE)>>]}
MCV6Rules ==
    {<<>>, [raw |-> <<Accept("prerouting")>>, filter |-> <<Drop("input", TRUE)>>]}

MCMaxEvents ==
    [rules |-> 0, firewall |-> 2, keys |-> 4, feed |-> 3, escalation |-> 4, targets |-> 2, lists |-> 1, peers |-> 4]

MCOnList == [tor |-> {1}, drop |-> {1, 2}, edrop |-> {2}]
=============================================================================
