SPECIFICATION Spec
CONSTANTS
    ip1 = ip1
    ip1host = ip1host
    ip2 = ip2
    capped = t2
    Text <- MCTwoSpellings
    Addr = {"A", "B"}
    Norm <- MCNorm
    Rank <- MCRank
    Age <- MCAge
    Keep <- MCKeepAll
    MaxEntries <- MCMaxEntries
    Target = {t1}
    Runner = {poller, manual}
    Poller = poller
    BatchCap = 1
    DryBoot = FALSE
    MaxId = 3
    MaxEdits = 1
    MaxChanges = 1
    MaxFaults = 0
INVARIANT PendingJustified
PROPERTY SharedListContract
