SPECIFICATION FairSpec
CONSTANTS
    Trees <- MCTrees
    MaxFiles = 3
    MaxHits = 4
    BatchSize = 3
    MaxSearch = 2
INVARIANT TypeOK ShowsTheSearch StatusIsTrue RunningHasSearch
PROPERTY EverySearchEnds
\* The user may ask for nothing more: the panel then rests for ever.
CHECK_DEADLOCK FALSE
