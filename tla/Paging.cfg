\* Three responses at three instants, pages of one or two rows.
SPECIFICATION FairSpec
CONSTANTS
    Ids = {1, 2, 3}
    Filters <- MCFilters
    Limit = 1
    PerPage = 1
    MaxPageSize = 2
    ExportPageSize = 2
    MaxPerPage = 3
    MaxVersion = 2
    MaxTime = 3
INVARIANTS PagingTypeOK NothingSkipped
PROPERTIES PagesDescend WalkEnds
CHECK_DEADLOCK FALSE
