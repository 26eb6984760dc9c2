\* What four texts say of the reviewer's screens, with no edits on boards; the
\* property is violated.
SPECIFICATION Spec
CONSTANTS
    Slugs <- MCSlugs
    Plain <- MCPlain
    Names <- MCNames
    Kinds <- MCKinds
    AllowedKinds <- MCKinds
    Admits <- MCAdmits
    RawDrafts <- MCRevised
    MaxFields = 2
    Texts <- MCTexts
    None = None
    Malformed = Malformed
    Closed = Closed
    NoPage = NoPage
    MaxVersion = 3
    MaxEdits = 0
    MaxSubmissions = 1
CHECK_DEADLOCK FALSE
INVARIANTS
    AReviewTextIsTrue
