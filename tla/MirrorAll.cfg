SPECIFICATION FairSpec
CONSTANTS
    Key = {k1, k2}
    MaxBan = 2
    Plans <- MCPlans
INVARIANT TypeOK
PROPERTY TombstonedOnlyIfGone
PROPERTY MirrorSettles
PROPERTY RecoveryTold
