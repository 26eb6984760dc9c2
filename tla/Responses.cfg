\* Up to three versions from drafts and one edit on a builder board, one row, and the
\* pages that reviewers ask for.  The bounds are used up in the end: deadlock is not checked.
SPECIFICATION Spec
CONSTANTS
    Slugs <- MCSlugs
    Plain <- MCPlain
    Names <- MCNames
    Kinds <- MCKinds
    AllowedKinds <- MCKinds
    Admits <- MCAdmits
    RawDrafts <- MCRaw
    MaxFields = 2
    Texts <- MCTexts
    None = None
    Malformed = Malformed
    Closed = Closed
    NoPage = NoPage
    MaxVersion = 3
    MaxEdits = 1
    MaxSubmissions = 1
CHECK_DEADLOCK FALSE
INVARIANTS
    ResponsesTypeOK
    NoAnswerHidden
    CellsTellTheTruth
    SearchIsComplete
    HistoryTells
    SlugsCollideOnlyByHand
