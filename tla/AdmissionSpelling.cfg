SPECIFICATION Spec
CONSTANTS
    ip1 = ip1
    ip1host = ip1host
    country = country
    Text = {ip1, ip1host}
    Bare <- MCBare
    Addr = {"A"}
    Norm <- MCNorm
    Prefixed <- MCPrefixed
    Wide = {country}
    Covers <- MCCovers
    ByGeo = {country}
    Source = {s1}
    External = external
    Reader = {poller}
    Poller = poller
    MaxThreshold = 2
    MaxEvents = 3
INVARIANT WhitelistedNeverBlocked
