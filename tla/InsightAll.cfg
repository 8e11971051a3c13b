SPECIFICATION FairSpec
CONSTANTS
    Foci = {"rules", "firewall", "keys", "feed", "escalation", "targets", "lists", "peers"}
    MaxEvents <- MCMaxEvents
    MaxFaults = 1
    Router = {r1, r2}
    Changing = {r1}
    V4Rules <- MCV4Rules
    V6Rules <- MCV6Rules
    Inspected <- MCInspected
    Worker = {w1, w2}
    MaxServed = 2
    Asn = {a1, a2}
    MaxRows = 4
    Ip = {1, 2}
    MaxTargets = 1
    PerCall = 1
    OnList <- MCOnList
    PeerName = {n1, n2}
    Url = {u1, u2}
    Silent = {u2}
INVARIANT VerdictSound
INVARIANT FeedSound
INVARIANT RecordsSound
PROPERTY DecisionSticks
PROPERTY InsightSettles
CHECK_DEADLOCK FALSE
