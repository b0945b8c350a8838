------------------------------ MODULE MCLedger ------------------------------
(***************************************************************************)
(* Small instances of the ledger's commands for TLC: a behaviour verifies  *)
(* one inclusion proof, verifies one consistency proof, or commits.        *)
(***************************************************************************)
EXTENDS LedgerCommands

CONSTANTS
    Unknown,      \* a digest nothing is known under
    MaxLong,      \* bound: the lines of an export an honest proof is for
    Words,        \* the lines of the exports a proof may be forged for
    MaxForged     \* bound: their number of lines

\* A digest is the sequence of lines under it: two trees have the same digest only
\* if they are over the same lines and of the shape RFC 6962 gives them, and no
\* other bytes hash to it.  Exports are short ones of any lines, and long ones of
\* distinct lines.
Short == UNION {[1..k -> Words] : k \in 0..MaxForged}
Run(lo, hi) == [i \in 1..(hi - lo + 1) |-> lo + i - 1]
Long == {Run(1, k) : k \in 0..MaxLong}

MCExports == Short \cup Long
MCCommitted == Short \cup {Run(lo, hi) : lo \in 1..MaxLong, hi \in 0..MaxLong}
MCDigests == MCCommitted \cup {Unknown}
MCSpan == [d \in MCCommitted |-> d]
MCEmpty == << >>

MCLeaf(x) == <<x>>
MCNode(l, r) ==
    IF /\ l # Unknown /\ r # Unknown /\ l # << >> /\ r # << >>
       /\ Len(l) = split_point[Len(l) + Len(r)]
       /\ l \o r \in MCCommitted
    THEN l \o r ELSE Unknown

\* A proof is honest, or forged for short exports and trees.  The two words can change
\* places, so the new export of a consistency proof begins with the first.
ForgedInclusion == export \in Short /\ line \in Words /\ size <= MaxForged + 1
ForgedConsistency == /\ old \in Short /\ Len(old) < MaxForged
                     /\ new \in Short /\ (new # << >> => new[1] = CHOOSE w \in Words : TRUE)
                     /\ m <= MaxForged /\ n <= MaxForged

-----------------------------------------------------------------------------
Good == [form |-> "json", fields |-> "all", key |-> "ed25519", sig |-> "good",
         signedFor |-> "room", ended |-> TRUE]

\* A line without its terminator.
Torn(l) == [l EXCEPT !.ended = FALSE]

\* One line of each class, a blank one, one that is not UTF-8, and those that the
\* two readers do not read alike; and the beginnings of a line: no JSON yet, cut within a
\* character, or whole but for the terminator.
UsualLines == {Good,
               [Good EXCEPT !.signedFor = "elsewhere"],
               [Good EXCEPT !.sig = "none"],
               [Good EXCEPT !.key = "other"],
               [Good EXCEPT !.fields = "mistyped"],
               [Good EXCEPT !.form = "notJson"],
               [Good EXCEPT !.form = "notUtf8"],
               [Good EXCEPT !.form = "blank"],
               [Good EXCEPT !.form = "onlyWideSpaces"],
               [Good EXCEPT !.form = "carriageReturn"],
               Torn([Good EXCEPT !.form = "notJson"]),
               Torn([Good EXCEPT !.form = "notUtf8"]),
               Torn(Good)}

-----------------------------------------------------------------------------
\* A verification that has ended, or a commit that has not begun.
InclusionIdle ==
    /\ export = << >> /\ line = 1 /\ index = 0 /\ size = 1
    /\ wholeExport = FALSE /\ honestPath = FALSE
    /\ inclusion = "invalid" /\ sides = << >> /\ current = EmptyDigest

ConsistencyIdle ==
    /\ old = << >> /\ new = << >> /\ m = 0 /\ n = 0
    /\ sizesGiven = FALSE /\ honestProof = FALSE
    /\ consistency = "invalid" /\ read = 0
    /\ fn = EmptyDigest /\ sn = EmptyDigest /\ fi = 0 /\ si = 0

MCInit ==
    /\ CommitInit
    /\ \/ InclusionInit /\ ConsistencyIdle /\ (honestPath \/ ForgedInclusion)
       \/ ConsistencyInit /\ InclusionIdle /\ (honestProof \/ ForgedConsistency)
       \/ InclusionIdle /\ ConsistencyIdle

InclusionStep == UNCHANGED <<consistencyVars, commitVars>>
ConsistencyStep == UNCHANGED <<inclusionVars, commitVars>>
CommitStep == InclusionIdle /\ ConsistencyIdle /\ UNCHANGED <<inclusionVars, consistencyVars>>

MCNext ==
    \/ Shape /\ InclusionStep
    \/ \E node \in Digests : Step(node) /\ InclusionStep
    \/ CompareRoot /\ InclusionStep
    \/ WrongPath /\ InclusionStep
    \/ Equal /\ ConsistencyStep
    \/ \E node \in Digests : Begin(node) /\ ConsistencyStep
    \/ \E node \in Digests : Read(node) /\ ConsistencyStep
    \/ CompareRoots /\ ConsistencyStep
    \/ Refuse /\ ConsistencyStep
    \/ \E l \in CapturedLines : Capture(l) /\ CommitStep
    \/ ReadRaw /\ CommitStep
    \/ Count /\ CommitStep
    \/ Open /\ CommitStep
    \/ Write /\ CommitStep
    \/ Crash /\ CommitStep

MCSpec == MCInit /\ [][MCNext]_<<inclusionVars, consistencyVars, commitVars>>
=============================================================================
