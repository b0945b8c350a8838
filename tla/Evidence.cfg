SPECIFICATION MCSpec
CONSTANTS
    htlc1 = htlc1
    relay = relay
    id1 = id1
    id2 = id2
    token = token
    coin2 = coin2
    Native = Native
    s1 = s1
    s2 = s2
    h1 = h1
    h2 = h2
    payer = payer
    payee = payee
    other = other
    room1 = room1
    room2 = room2
    offer = offer
    accept = accept
    chat = chat
    deal = deal
    Blank = Blank
    Undecodable = Undecodable
    ArchiveFile <- MCArchiveFile
    Instead <- MCInstead
    Names <- MCNames
    alice = alice
    bob = bob
    carol = carol
    x1 = x1
    x2 = x2
    t1 = t1
    t2 = t2
    None = None
    Null = None
    Deployments = {htlc1}
    Ids = {id1, id2}
    Terms <- MCTerms
    SilentTokens = {}
    Secrets = {s1, s2}
    Sha256 <- MCSha256
    Txs <- MCTxs
    Requests <- MCRequests
    MaxBlocks = 2
    MaxReorgs = 1
    Transcripts <- MCTranscripts
    Anchors <- MCAnchors
    Documents <- MCDocuments
    FileLines <- MCFileLines
    Rewrites <- MCRewrites
    Milli = 10
    MsThreshold = 100
    Lines <- MCLines
    Targets <- MCTargets
    MaxLines = 5
INVARIANTS
    TypesOK
    AgreementTraced
    NeverGuesses
    ConformantIsSettled
    VerdictsAgree
    BundleHolds
CHECK_DEADLOCK FALSE
