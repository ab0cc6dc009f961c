CONSTANTS
    Words = 9
    MaxInsns = 12
    Kinds <- MCKinds
SPECIFICATION Spec
INVARIANTS
    TypeOK
    BucketsStacked
    OpenIndexesHaveBuckets
    PlainCloseFindsConstants
CHECK_DEADLOCK FALSE
