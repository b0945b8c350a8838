------------------------------ MODULE Commitment ------------------------------
(***************************************************************************)
(* Export commitments (ledger.py): the commit command, which reads the     *)
(* captured export as bytes, reads it again as text to count its records,  *)
(* and writes an artifact.  The room is still being captured meanwhile,    *)
(* the command may stop anywhere, and anybody may run                      *)
(* verify_commitment_artifact on what it leaves behind.                    *)
(*                                                                         *)
(* A line is what its bytes mean to the two readers.  The Merkle root is   *)
(* the sequence of lines it commits to (see Merkle).                       *)
(***************************************************************************)
EXTENDS Naturals, Sequences, FiniteSets

CONSTANTS
    CapturedLines,  \* the lines a room's export may be captured with, whole or in part
    MaxLines        \* bound on the length of an export

\* A line's form, and the record in it: whether its fields are there and of their
\* types, the kind of its key, its signature and the room it was signed for; and whether
\* its terminator is captured too.
Line == [form : {"json", "blank", "notJson", "notUtf8", "onlyWideSpaces", "carriageReturn"},
         fields : {"all", "missing", "mistyped"},
         key : {"ed25519", "other", "malformed"},
         sig : {"none", "misencoded", "forged", "good"},
         signedFor : {"room", "elsewhere"},
         ended : BOOLEAN]

Classes == {"VALID", "INVALID", "UNSIGNED", "MALFORMED", "UNSUPPORTED_KEY"}

ASSUME CommitmentAssumption == CapturedLines \subseteq Line /\ MaxLines \in Nat

verify_signed_record(record) ==
    CASE record.fields = "missing"                                    -> "MALFORMED"
      [] record.fields # "missing" /\ record.sig = "none"             -> "UNSIGNED"
      [] record.fields = "mistyped" /\ record.sig # "none"            -> "MALFORMED"
      [] OTHER -> CASE record.key = "other"                           -> "UNSUPPORTED_KEY"
                    [] record.key = "malformed"                       -> "MALFORMED"
                    [] record.key = "ed25519" /\ record.sig = "misencoded" -> "MALFORMED"
                    [] OTHER -> IF record.sig = "good" /\ record.signedFor = "room"
                                THEN "VALID" ELSE "INVALID"

\* What classify_export_lines makes of a line's bytes; a blank line is of no class.
\* A carriage return between two tokens of a record is JSON whitespace.
OfBytes(line) == IF line.form \in {"json", "carriageReturn"} THEN verify_signed_record(line)
                 ELSE IF line.form = "blank" THEN "none"
                 ELSE "MALFORMED"

\* What verify_export makes of it: opened as text, a file is also split at carriage
\* returns, is stripped of every Unicode space, and is read no further than a byte
\* that is not UTF-8.
OfText(line) == CASE line.form = "blank"          -> << >>
                  [] line.form = "json"           -> << verify_signed_record(line) >>
                  [] line.form = "notJson"        -> << "MALFORMED" >>
                  [] line.form = "onlyWideSpaces" -> << >>
                  [] line.form = "carriageReturn" -> << "MALFORMED", "MALFORMED" >>
                  [] line.form = "notUtf8"        -> << "MALFORMED" >>

IsText(lines) == \A i \in DOMAIN lines : lines[i].form # "notUtf8"

CountOf(classes) == [c \in Classes |-> Cardinality({i \in DOMAIN classes : classes[i] = c})]

\* Mutant: unsigned records are counted as valid ones.
LenientCounts(raw_lines) ==
    CountOf([i \in DOMAIN raw_lines |-> IF OfBytes(raw_lines[i]) = "UNSIGNED" THEN "VALID"
                                        ELSE OfBytes(raw_lines[i])])

classify_export_lines(raw_lines) == CountOf([i \in DOMAIN raw_lines |-> OfBytes(raw_lines[i])])

anomaly_indices(raw_lines) ==
    {i \in DOMAIN raw_lines : OfBytes(raw_lines[i]) \in {"INVALID", "MALFORMED", "UNSUPPORTED_KEY"}}

\* Counted are the places of the text: a line, and which of its at most two parts.
verify_export(lines) ==
    [c \in Classes |-> Cardinality({at \in (DOMAIN lines) \X {1, 2} :
                           /\ at[2] \in DOMAIN OfText(lines[at[1]])
                           /\ OfText(lines[at[1]])[at[2]] = c})]

-----------------------------------------------------------------------------
VARIABLES
    captured,   \* the file the room's export is captured in
    artifact,   \* the artifact file: NoFile, Partial or its contents
    pc,         \* the commit command: "idle", "read", "counted", "truncated"
    raw,        \* its raw_lines
    counts,     \* its counts
    exit,       \* how it ended: "valid" (0), "anomalies" (1), "failed" (3), or "none"
    overtaken,  \* history: the export grew between its two reads
    mixed       \* history: the artifact was written by a command that was overtaken

commitVars == <<captured, artifact, pc, raw, counts, exit, overtaken, mixed>>

NoFile == [file |-> "none"]
Partial == [file |-> "partial"]   \* not JSON: a verifier refuses it
IsComplete(a) == a.file = "complete"

NoCounts == [c \in Classes |-> 0]

CommitInit == /\ captured = << >>
              /\ artifact = NoFile
              /\ pc = "idle" /\ raw = << >> /\ counts = NoCounts /\ exit = "none"
              /\ overtaken = FALSE /\ mixed = FALSE

\* Whether a line may be captured that begins with this part of it.  Once the part is a
\* whole record, only its terminator can follow, or more that is no JSON together with it.
Begins(part, line) == part.form = "json" => \/ line = [part EXCEPT !.ended = TRUE]
                                            \/ line.form = "notJson"

\* External: the capture of the room appends to its export, and may stop within a line.
Capture(line) ==
    /\ IF captured = << >> \/ captured[Len(captured)].ended
       THEN Len(captured) < MaxLines /\ captured' = Append(captured, line)
       ELSE /\ Begins(captured[Len(captured)], line)
            /\ captured' = [captured EXCEPT ![Len(captured)] = line]
    /\ UNCHANGED <<artifact, pc, raw, counts, exit, overtaken, mixed>>

ReadRaw == /\ pc = "idle"
           /\ raw' = captured
           /\ pc' = "read"
           /\ exit' = "none"
           /\ UNCHANGED <<captured, artifact, counts, overtaken, mixed>>

\* verify_export opens the file again; a byte that is not UTF-8 ends the command.
Count == /\ pc = "read"
         /\ \/ IsText(captured) /\ counts' = verify_export(captured) /\ pc' = "counted" /\ UNCHANGED exit
            \/ ~IsText(captured) /\ exit' = "failed" /\ pc' = "idle" /\ UNCHANGED counts
         /\ overtaken' = (captured # raw)
         /\ UNCHANGED <<captured, artifact, raw, mixed>>

is_valid == counts["INVALID"] = 0 /\ counts["MALFORMED"] = 0

build_commitment_artifact ==
    [file |-> "complete", line_count |-> Len(raw), export_root |-> raw, verification |-> counts,
     anomaly_indices |-> anomaly_indices(raw)]

\* The file is opened for writing, which empties it, and then written.
Open == /\ pc = "counted"
        /\ artifact' = Partial
        /\ pc' = "truncated"
        /\ UNCHANGED <<captured, raw, counts, exit, overtaken, mixed>>

Write == /\ pc = "truncated"
         /\ artifact' = build_commitment_artifact
         /\ exit' = IF is_valid THEN "valid" ELSE "anomalies"
         /\ mixed' = overtaken
         /\ pc' = "idle"
         /\ UNCHANGED <<captured, raw, counts, overtaken>>

Crash == /\ pc # "idle"
         /\ pc' = "idle"
         /\ exit' = "none"
         /\ UNCHANGED <<captured, artifact, raw, counts, overtaken, mixed>>

verify_commitment_artifact(raw_lines, a) ==
    /\ IsComplete(a)
    /\ a.line_count = Len(raw_lines)
    /\ a.export_root = raw_lines
    /\ a.verification = classify_export_lines(raw_lines)
    /\ a.anomaly_indices = anomaly_indices(raw_lines)

CommitNext == \/ \E line \in CapturedLines : Capture(line)
              \/ ReadRaw \/ Count \/ Open \/ Write \/ Crash

CommitSpec == CommitInit /\ [][CommitNext]_commitVars

-----------------------------------------------------------------------------
(* Properties *)

\* Types of the state.
CommitTypeOK == /\ captured \in Seq(CapturedLines) /\ raw \in Seq(CapturedLines)
                /\ pc \in {"idle", "read", "counted", "truncated"}
                /\ counts \in [Classes -> Nat]
                /\ exit \in {"none", "valid", "anomalies", "failed"}
                /\ overtaken \in BOOLEAN /\ mixed \in BOOLEAN
                /\ IsComplete(artifact) => artifact.export_root \in Seq(CapturedLines)

\* A line that the two readers make the same of: not one that only the reader of text
\* splits at a carriage return, or strips to nothing.
ReadAlike(l) == l.form \notin {"onlyWideSpaces", "carriageReturn"}

\* An artifact that is there is accepted for the lines it commits to, whatever stopped
\* since and although one reader counted its records and another found its anomalies -
\* unless the export grew between the two, or has a line that they read differently; and
\* a commit that ended well has left the artifact of the lines it read.
Reproducible ==
    /\ /\ IsComplete(artifact) /\ ~mixed
       /\ \A i \in DOMAIN artifact.export_root : ReadAlike(artifact.export_root[i])
       => verify_commitment_artifact(artifact.export_root, artifact)
    /\ exit \in {"valid", "anomalies"} => IsComplete(artifact) /\ artifact.export_root = raw

\* A commit that exits with 0 has committed to no line, among those read alike, that
\* verify_commitment_artifact classifies as INVALID or MALFORMED; and if the export grew
\* under it, to none but a last one without its terminator.  Such a line is committed as
\* it is (docs/export-commitment-format-v1.md section 3), and what was counted can be the
\* line it has become.
ZeroMeansValid ==
    exit = "valid" => \A i \in DOMAIN artifact.export_root :
        /\ ReadAlike(artifact.export_root[i])
        /\ artifact.export_root[i].ended \/ ~mixed
        => OfBytes(artifact.export_root[i]) \notin {"INVALID", "MALFORMED"}

\* What commit reports is what a later verification finds.
CommitHolds == Reproducible /\ ZeroMeansValid
=============================================================================
