------------------------------- MODULE Insight -------------------------------
(***************************************************************************)
(* What Protek learns and tells beside the sync: the firewall check, the   *)
(* published feed, suggestions to ban a network, labels on addresses and   *)
(* other instances. They share the poller and the web workers but no       *)
(* state; a behaviour of this composition is about one of them (focus).    *)
(***************************************************************************)
EXTENDS Firewall, Feed, Escalation, Tags, Peers

vars == <<focus, spent, firewallVars, feedVars, escalationVars, tagsVars, peersVars>>

TypeOK ==
    /\ BudgetTypeOK /\ FirewallTypeOK /\ FeedTypeOK /\ EscalationTypeOK /\ TagsTypeOK /\ PeersTypeOK

\* The parts a behaviour is not about start in one state and stay there.
AtRest ==
    /\ focus \notin {"feed", "keys"} => ~enabled
    /\ focus # "targets" => score = [i \in Ip |-> 0] /\ ~trapOn
    /\ focus \notin {"targets", "lists"} => active = {}
    /\ focus \notin {"rules", "firewall"} =>
         router = [r \in Router |-> [v4 |-> CHOOSE t \in V4Rules : TRUE, v6 |-> <<>>, n6 |-> 0, up |-> TRUE,
                                 lost |-> {}]]

Init == BudgetInit /\ FirewallInit /\ FeedInit /\ EscalationInit /\ TagsInit /\ PeersInit /\ AtRest

Next ==
    \/ /\ \/ focus = "rules" /\ (Fetch("poller") \/ Store("poller"))
          \/ focus = "firewall" /\ FirewallNext
       /\ UNCHANGED <<feedVars, escalationVars, tagsVars, peersVars>>
    \/ /\ \/ focus = "keys" /\ KeysNext
          \/ focus = "feed" /\ FeedNext
       /\ UNCHANGED <<firewallVars, escalationVars, tagsVars, peersVars>>
    \/ focus = "escalation" /\ EscalationNext /\ UNCHANGED <<firewallVars, feedVars, tagsVars, peersVars>>
    \/ focus \in {"targets", "lists"} /\ TagsNext /\ UNCHANGED <<firewallVars, feedVars, escalationVars, peersVars>>
    \/ focus = "peers" /\ PeersNext /\ UNCHANGED <<firewallVars, feedVars, escalationVars, tagsVars>>

Spec == Init /\ [][Next]_vars

\* The poller's cycle goes on and every request that began ends; time passes.
FairSpec == Spec /\ FirewallFairness /\ EscalationFairness /\ TagsFairness /\ PeersFairness

-----------------------------------------------------------------------------
(* Properties *)

\* The verdict on a table of rules is right, and so is a green pill.
VerdictSound == AnalysisAgrees /\ GreenMeansStopped

\* A published feed can be verified, is numbered once, and holds Protek's own.
FeedSound == FeedVerifies /\ SequenceUnique /\ OwnIntelOnly

\* The tables of suggestions, labels and peers agree with what they stand for.
RecordsSound == TypeOK /\ OnePending /\ ApprovedIsBanned /\ SummaryIsOwn

\* Once the world around it is quiet, every part shows it as it is.
InsightSettles == VerdictSettles /\ BusyIsAsked /\ TargetsSettle /\ ListedIsLabelled /\ PeersRecover
=============================================================================
