SPECIFICATION Spec
CONSTANTS
    e1 = e1
    e2 = e2
    l1 = l1
    l2 = l2
    app = app
    other = other
    Tasks = {e1, e2}
    Execs = {e1, e2}
    Names = {"x", "y"}
    Runs = {"x", "y", "x:y"}
    NamesOf <- MCNamesOf
    Legacy = {l1, l2}
    LegacyRun <- MCLegacyRun
    ColonId <- MCColonId
    LegacyLen <- MCLegacyLen
    Openers = {app, other}
    App = app
    MaxPending = 1
    Nobody = Nobody
    MaxQuery = 2
    KeepRuns = 1
    MaxClock = 1
    Scenes <- MCScenes
INVARIANTS ApprovalsSound ReadsAreWhole TraceTellsTruth
PROPERTIES RowsAreKept EveryRunEnds
CHECK_DEADLOCK FALSE
