SPECIFICATION FairSpec
CONSTANTS
    ip1 = ip1
    ip1host = ip1host
    country = country
    Text = {ip1, ip1host}
    Bare <- MCBare
    Addr = {"A"}
    Norm <- MCNorm
    Prefixed <- MCPrefixed
    Wide = {country}
    Covers <- MCCovers
    ByGeo = {country}
    Source = {s1, s2}
    External = external
    Reader = {poller, manual}
    Poller = poller
    MaxThreshold = 2
    MaxEvents = 4
INVARIANT TypeOK
INVARIANT WhitelistHonoured
INVARIANT ApprovalHonoured
INVARIANT NotRequeued
PROPERTY Settles
