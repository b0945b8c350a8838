CONSTANTS
    Lines = {1, 2, 3, 4, 5, 6, 7}
    MaxLong = 7
    CapturedLines <- UsualLines
    MaxLines = 2
    Words = {1, 2}
    MaxForged = 4
    Unknown = unknown
    Digests <- MCDigests
    Committed <- MCCommitted
    Span <- MCSpan
    EmptyDigest <- MCEmpty
    export_leaf_hash <- MCLeaf
    node_hash <- MCNode
    Exports <- MCExports
    MaxSize = 7
SPECIFICATION MCSpec
INVARIANTS TypesOK Included Extension HonestAccepted CommitHolds
CHECK_DEADLOCK FALSE
