SPECIFICATION AlertFairSpec
CONSTANTS
    Poller = poller
    Viewer = viewer
    Debounce = 3
    MaxOf <- MCAll
INVARIANT AlertTypeOK
INVARIANT NoticesAlternate
PROPERTY DebouncedUnseen
PROPERTY ProblemTold
PROPERTY ResolvedTold
