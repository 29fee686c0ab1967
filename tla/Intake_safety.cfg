SPECIFICATION FoundingSpec
CONSTANTS
    Trees <- SafeTrees
    Slug <- SlugOf
    Titled <- TitledAs
    Requests <- AllRequests
    Foundings <- SafeFoundings
    ByHand <- Written
    MaxRuns = 3
    MaxEdits = 1
CHECK_DEADLOCK FALSE
INVARIANTS
    PlansHold
    RoutesResume
    RunAgain
    RootFound
PROPERTIES
    OnlyAdds
