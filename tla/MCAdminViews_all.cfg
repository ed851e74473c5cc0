SPECIFICATION FairViewsSpec
CONSTANTS
    Nothing = Nothing
    Actors <- MCActors
    FirstUsers <- MCFirstUsers
    PerPages <- MCPerPages
    DefaultPer = 1
    MaxBalance = 2
    MaxClicks = 3
    MaxLosses = 1
    MaxElsewhere = 1
    max_retries = 1
INVARIANTS ShownPageIsCurrent
PROPERTIES NothingSpinsForever
CHECK_DEADLOCK FALSE
