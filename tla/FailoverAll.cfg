SPECIFICATION FairSpec
CONSTANTS
    h1 = h1
    h2 = h2
    Host = {h1, h2}
    Addr = {a}
    Synth = s
    Kind = {"alias", "entries", "chunk"}
    EnvRole <- MCEnvRole
    BatchCap = 1
    MaxEvents = 3
INVARIANT TargetSound
INVARIANT StandbyQuietAlone
CHECK_DEADLOCK FALSE
PROPERTY AliasSettles
