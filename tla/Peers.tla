-------------------------------- MODULE Peers --------------------------------
(***************************************************************************)
(* Other Protek instances (peers.py and its routes): their summaries are   *)
(* pulled over the network by the poller and by a page, row by row, from a *)
(* list read at the start, while operators add, pause and remove peers.    *)
(***************************************************************************)
EXTENDS Budget, FiniteSets, FiniteSetsExt

CONSTANTS
    PeerName, Url,
    Silent        \* addresses that never answer

ASSUME PeersAssumption == Silent \subseteq Url

Puller == {"poller", "page"}

VARIABLES
    peers,      \* protek_peers; from: whose summary the row holds
    lastId,     \* AUTOINCREMENT: ids are not used again
    pull,       \* the refresh_all each process is in
    pullDue     \* peers.last_refresh_at is a minute old or absent

peersVars == <<peers, lastId, pull, pullDue>>

Peer == [id : Nat, name : PeerName, url : Url, on : BOOLEAN, ok : BOOLEAN, from : Url \cup {"none"}]
NoPull == [on |-> FALSE, todo |-> {}, now |-> {}, got |-> "none"]

PeersTypeOK ==
    /\ peers \subseteq Peer /\ lastId \in Nat /\ pullDue \in BOOLEAN
    /\ pull \in [Puller -> [on : BOOLEAN, todo : SUBSET Peer, now : SUBSET Peer, got : Url \cup {"none"}]]
    /\ \A p, q \in peers : p.id = q.id \/ p.name = q.name => p = q
    /\ \A p \in peers : p.id <= lastId

PeersInit == peers = {} /\ lastId = 0 /\ pull = [p \in Puller |-> NoPull] /\ pullDue = TRUE

-----------------------------------------------------------------------------
(* The peers page *)

\* name is UNIQUE: adding it again raises, and the page says so.
AddPeer(n, u) ==
    /\ \A p \in peers : p.name # n
    /\ lastId' = lastId + 1
    /\ peers' = peers \cup {[id |-> lastId + 1, name |-> n, url |-> u, on |-> TRUE, ok |-> FALSE, from |-> "none"]}
    /\ Event /\ UNCHANGED <<pull, pullDue>>

TogglePeer(p) ==
    /\ peers' = (peers \ {p}) \cup {[p EXCEPT !.on = ~@]}
    /\ Event /\ UNCHANGED <<lastId, pull, pullDue>>

DeletePeer(p) ==
    /\ peers' = peers \ {p}
    /\ Event /\ UNCHANGED <<lastId, pull, pullDue>>

-----------------------------------------------------------------------------
(* refresh_all *)

\* list_peers(include_disabled=False)
Enabled == {p \in peers : p.on}

\* maybe_run_scheduled in the poller, peers_refresh in a page.
PullBegin(c) ==
    /\ ~pull[c].on
    /\ \/ c = "poller" /\ Enabled # {} /\ pullDue /\ Free
       \/ c = "page" /\ Event
    /\ pull' = [pull EXCEPT ![c] = [NoPull EXCEPT !.on = TRUE, !.todo = Enabled]]
    /\ UNCHANGED <<peers, lastId, pullDue>>

\* _fetch_peer of the row as it was read: its address answers, or not (an
\* exhausted bucket, the network, an HTTP status, an answer that is no JSON).
FetchPeer(c) ==
    /\ pull[c].on /\ pull[c].now = {} /\ pull[c].todo # {}
    /\ LET p == CHOOSE q \in pull[c].todo : \A r \in pull[c].todo : q.id <= r.id
       IN \E got \in {p.url, "none"} :
            /\ got \notin Silent
            /\ IF got = "none" /\ p.url \notin Silent THEN Fault ELSE Free
            /\ pull' = [pull EXCEPT ![c].todo = @ \ {p}, ![c].now = {p}, ![c].got = got]
    /\ UNCHANGED <<peers, lastId, pullDue>>

\* UPDATE ... WHERE id = ?: a failed pull empties the summary.
Updated(p, q, got) == IF p.id = q.id THEN [p EXCEPT !.ok = got # "none", !.from = got] ELSE p

StorePeer(c) ==
    /\ \E q \in pull[c].now : peers' = {Updated(p, q, pull[c].got) : p \in peers}
    /\ pull' = [pull EXCEPT ![c].now = {}, ![c].got = "none"]
    /\ Free /\ UNCHANGED <<lastId, pullDue>>

PullEnds(c) ==
    /\ pull[c].on /\ pull[c].todo = {} /\ pull[c].now = {}
    /\ pull' = [pull EXCEPT ![c] = NoPull] /\ pullDue' = FALSE
    /\ Free /\ UNCHANGED <<peers, lastId>>

PullDies(c) ==
    /\ pull[c].on /\ pull' = [pull EXCEPT ![c] = NoPull]
    /\ Fault /\ UNCHANGED <<peers, lastId, pullDue>>

MinutePasses ==
    /\ ~pullDue /\ pullDue' = TRUE
    /\ Free /\ UNCHANGED <<peers, lastId, pull>>

PullStep(c) == FetchPeer(c) \/ StorePeer(c) \/ PullEnds(c)

PeersNext ==
    \/ \E n \in PeerName, u \in Url : AddPeer(n, u)
    \/ \E p \in peers : TogglePeer(p) \/ DeletePeer(p)
    \/ \E c \in Puller : PullBegin(c) \/ PullStep(c) \/ PullDies(c)
    \/ MinutePasses

PeersFairness ==
    /\ WF_peersVars(focus = "peers" /\ PullBegin("poller")) /\ WF_peersVars(focus = "peers" /\ MinutePasses)
    /\ \A c \in Puller : WF_peersVars(focus = "peers" /\ PullStep(c))

-----------------------------------------------------------------------------
(* Properties *)

\* What a row shows came from the address in that row: also when the peer was
\* removed and another added under its name while a pull was under way.
SummaryIsOwn == \A p \in peers : p.ok => p.from = p.url

\* Once nobody edits the peers, every enabled peer that answers is shown as
\* healthy and stays so, although a page's pull may still write a failure it
\* met before and another peer may never answer.
PeersRecover == <>[](\A p \in peers : p.on /\ p.url \notin Silent => p.ok)
=============================================================================
