SPECIFICATION Spec
CONSTANTS
    None = None
    Id = {1, 2, 3, 4}
    Created <- MCCreated
    Shape <- MCShape
    Initial <- MCInitial
    Flags <- MCFlags
    Command <- MCCommand
    MaxChanges = 1
INVARIANTS ShowsWhatWasAsked TreeShowsAll HierarchyShown ForShowsFamily
CHECK_DEADLOCK FALSE
