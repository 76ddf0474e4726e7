\* Every page that lists and searches.
CONSTANTS
    N = 4
    Match <- MCMatch
    Text <- MCText
    Whole = {"whole"}
    Estimates = {9}
    PageSize = 2
    RoleSet <- Operator
    Visits <- MCVisits
    PortalFilters = {"all", "some"}
    Limit = 2
    Limits = {1, 2, 3}
    MaxTotal = 3
    PortalVisits <- MCPortalVisits
    MatchesVisits <- MCMatchesVisits
SPECIFICATION MCSpec
INVARIANTS
    ListIsServed
    BarFitsList
    ListTypesOK
    FlagsFollowRows
    OpenShowsOrWaits
    UrlNamesList
PROPERTY
    LatestShown
