CONSTANTS
    alice = alice
    bob = bob
    carol = carol
    s1 = s1
    s2 = s2
    d1 = d1
    d2 = d2
    htlc = htlc
    paper = paper
    role = "payer"
    Dids = {alice, bob, carol}
    NoDid = nodid
    Offers <- MCOffers
    NoContract = nocontract
    Rails = {htlc, paper}
    NoRail = norail
    Secrets = {s1, s2}
    Digests = {d1, d2}
    NoDigest = nodigest
    NoSeq = noseq
    Sha256 <- MCSha256
    Me = alice
    Posts <- Contest
    Http = TRUE
    MaxRecords = 4
    MaxMs = 2
SPECIFICATION Spec
INVARIANTS ClosedOnce
CHECK_DEADLOCK FALSE
