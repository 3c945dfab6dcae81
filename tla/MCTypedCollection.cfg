\* Two keys; predicate trees up to one node and one level beyond the limits.
CONSTANTS
    IntegerMin <- MCIntegerMin
    IntegerMax = 3
    single = single
    double = double
    infinite = infinite
    nan = nan
    text = text
    blob = blob
    None = None
    Doubles = {single, double, infinite, nan}
    Singles = {single, infinite, nan}
    Finite = {single, double}
    Nans = {nan}
    Narrow <- MCNarrow
    Texts = {text}
    Blobs = {blob}
    Fields <- MCFields
    Records <- MCRecords
    RawRows <- MCRawRows
    Predicates <- MCPredicates
    Height <- MCHeight
    Less <- MCLess
    Drafts <- MCDrafts
    Limits = {0, 1, 2, 3}
    MAX_QUERY_LIMIT = 2
    MAX_PREDICATE_NODES = 4
    MAX_PREDICATE_DEPTH = 3
    MAX_QUERY_ORDER_FIELDS = 2
SPECIFICATION Spec
INVARIANTS
    AnswerMeans
    LimitsExact
    ReadsBack
