\* The table asked for as many rows per page as MAX_PAGE_SIZE lets through.
SPECIFICATION Spec
CONSTANTS
    Ids = {1, 2, 3}
    Filters <- MCFilters
    Limit = 1
    PerPage = 2
    MaxPageSize = 2
    ExportPageSize = 2
    MaxPerPage = 3
    MaxVersion = 2
    MaxTime = 3
INVARIANTS NextPageIsOffered
CHECK_DEADLOCK FALSE
