-------------------------------- MODULE Bundle --------------------------------
(***************************************************************************)
(* Evidence bundles (bundle.py).  create_bundle runs the cross verifier,   *)
(* then copies the transcript from its file and fetches the receipts once  *)
(* more, and packs the three with the proof; the file and the chain may    *)
(* have changed in between.  verify_bundle judges a bundle offline.        *)
(*                                                                         *)
(* The transcript's file is a sequence of lines, each a text and its       *)
(* terminator.  An export's root, one-to-one with its lines, stands for    *)
(* them; a deal archive is a JSON document that states the root of an      *)
(* export it does not hold.  Digests of a manifest stand for the contents  *)
(* they are of; nothing signs a manifest.                                  *)
(***************************************************************************)
EXTENDS CrossVerify

CONSTANTS
    FileLines,   \* lines of a file: [text, end]
    Blank,       \* the text of a line of white space
    Undecodable, \* the text of a line whose bytes are not UTF-8
    ArchiveFile, \* the lines of the file of a deal archive
    Rewrites,    \* what the transcript's file may become: its lines, or None
    Instead(_),  \* contents a member of a bundle may be changed to
    Names        \* room and contract id a manifest may be changed to state

ASSUME BundleAssumption == /\ \A l \in FileLines : l = [text |-> l.text, end |-> l.end]
                           /\ \A t \in Transcripts : t.root \in Seq(FileLines)
                           /\ ArchiveFile \in Seq(FileLines)
                           /\ Rewrites \ {None} \subseteq Seq(FileLines)

VARIABLES
    file,         \* the transcript's file
    copied,       \* its bytes in the bundle, None before they are read
    receipts,     \* a set of <<transaction, receipt>>
    bundle,       \* the archive: its members, and the digests and names in its manifest; or None
    result,       \* what verify_bundle says
    bundle_exit   \* exit code of `tclk-proof verify-bundle`

bundleVars == <<file, copied, receipts, bundle, result, bundle_exit>>

Members == {"transcript.jsonl", "receipts.json", "proof.json", "report.txt"}

-----------------------------------------------------------------------------
(* create_bundle, once verify_cross_layer has written its proof *)

CopyTranscript == /\ proof # None /\ copied = None /\ file # None
                  /\ copied' = file
                  /\ UNCHANGED <<allVars, file, receipts, bundle, result, bundle_exit>>

\* Receipts are fetched only with RPC anchors, also for a proof that was refused.
tx_hashes == IF step = "idle" THEN {}
             ELSE {request.lock_tx, request.claim_tx, request.refund_tx} \ {None}
Fetched == {r[1] : r \in receipts}

\* What stands for a receipt that could not be fetched: it has no status.
NoReceipt == [ok |-> FALSE]

ReceiptOf(tx) == IF BlockOf(tx) = {} THEN NoReceipt ELSE chain[CHOOSE b \in BlockOf(tx) : TRUE]

FetchReceipt(tx) ==
    /\ copied # None
    /\ \/ receipts' = receipts \cup {<<tx, ReceiptOf(tx)>>} /\ UNCHANGED rpcFailed
       \/ receipts' = receipts \cup {<<tx, NoReceipt>>} /\ rpcFailed' = TRUE
    /\ UNCHANGED <<chainVars, request, step, lock_event, claim_event, refund_event, asked,
                   crossVars, file, copied, bundle, result, bundle_exit>>

Files == [m \in Members |-> CASE m = "transcript.jsonl" -> copied
                              [] m = "receipts.json" -> receipts
                              [] m = "proof.json" -> proof
                              [] m = "report.txt" -> "report"]

Archive(files, digests, names, changed) ==
    [files |-> files, digests |-> digests, names |-> names, changed |-> changed]

\* The room and the contract id of the manifest are under none of its digests.
names_of_proof == IF proof.refused THEN <<None, None>> ELSE <<proof.agreement.room, proof.agreement.id>>

Pack == /\ copied # None /\ Fetched = tx_hashes /\ bundle = None
        /\ bundle' = Archive(Files, Files, names_of_proof, FALSE)
        /\ UNCHANGED <<allVars, file, copied, receipts, result, bundle_exit>>

-----------------------------------------------------------------------------
(* verify_bundle *)

\* The manifest's room, contract id and time are compared with nothing.
manifest_verified(b) == \A m \in Members : b.files[m] = b.digests[m]

NonBlank(lines) ==
    LET kept[k \in 0..Len(lines)] ==
            IF k = 0 THEN << >>
            ELSE IF lines[k].text = Blank THEN kept[k - 1] ELSE Append(kept[k - 1], lines[k])
    IN  kept[Len(lines)]

\* Mutant: the line feeds are not put back.
root_without_feeds(lines) ==
    [i \in DOMAIN NonBlank(lines) |-> [text |-> NonBlank(lines)[i].text, end |-> "none"]]

\* The root is that of the lines that are not blank, each with a line feed.
recomputed_root(lines) ==
    [i \in DOMAIN NonBlank(lines) |-> [text |-> NonBlank(lines)[i].text, end |-> "lf"]]

\* Mutant: the transcript is not compared with the proof.
any_transcript(b) == TRUE

\* The lines have to be UTF-8, also those that parse_export_lines read with replacements
\* and skipped. A transcript without a line is not compared.
transcript_matches(b) ==
    LET p == b.files["proof.json"]  lines == b.files["transcript.jsonl"]
        root == recomputed_root(lines)
    IN  /\ \A i \in DOMAIN lines : lines[i].text # Undecodable
        /\ p.refused \/ root = << >> \/ root = p.root

\* No document holds the digest of itself.
ASSUME ArchiveAssumption ==
    \A t \in Transcripts : t.kind = "archive" => recomputed_root(ArchiveFile) \notin {t.root, << >>}

\* The receipt of a transaction, if there is one.
receipt_in(b, tx) ==
    LET found == {r \in b.files["receipts.json"] : r[1] = tx}
    IN  IF found = {} THEN NoReceipt ELSE (CHOOSE r \in found : TRUE)[2]

\* A receipt holds the event again; of a lock, the terms are compared as well.
ReceiptHolds(b, tx, name) ==
    LET r == receipt_in(b, tx)  s == b.files["proof.json"].settlement
    IN  /\ HasEvent(r, s.htlc, s.id, name)
        /\ name = "Locked" =>
               LET t == TheEvent(r, 0, s.htlc, s.id, name).log.terms
               IN  /\ t.amount = s.amount /\ t.hashlock = s.hashlock
                   /\ s.erc20 = TRUE <=> t.token # Native

receipts_verified(b) ==
    LET p == b.files["proof.json"]
    IN  ~p.refused /\ p.settlement.provenance = "rpc_receipt_verified" =>
            LET s == p.settlement
            IN  /\ ReceiptHolds(b, s.lock_tx, "Locked")
                /\ s.claim_tx # None => ReceiptHolds(b, s.claim_tx, "Claimed")
                /\ s.refund_tx # None => ReceiptHolds(b, s.refund_tx, "Refunded")

verify_bundle(b) ==
    LET says == verify_standalone_proof(b.files["proof.json"])
        valid == manifest_verified(b) /\ says.valid /\ receipts_verified(b) /\ transcript_matches(b)
    IN  [valid |-> valid, is_conformant |-> valid /\ says.is_conformant,
         fatal |-> ~manifest_verified(b) \/ ~says.schema]

VerifyBundle == /\ bundle # None /\ result = None
                /\ result' = verify_bundle(bundle)
                /\ bundle_exit' = IF result'.fatal THEN 2 ELSE IF result'.is_conformant THEN 0 ELSE 1
                /\ UNCHANGED <<allVars, file, copied, receipts, bundle>>

-----------------------------------------------------------------------------
(* External: the file changes once the proof is made, the archive is damaged *)

Rewrite(lines) == /\ proof # None /\ copied = None
                  /\ file' = lines
                  /\ UNCHANGED <<allVars, copied, receipts, bundle, result, bundle_exit>>

\* One member changes, or its digest in the manifest, or both with each other.
Damage(m, content) ==
    LET f == [bundle.files EXCEPT ![m] = content]  d == [bundle.digests EXCEPT ![m] = content]
    IN  /\ bundle # None /\ result = None /\ ~bundle.changed
        /\ \/ bundle' = Archive(f, bundle.digests, bundle.names, TRUE)
           \/ bundle' = Archive(bundle.files, d, bundle.names, TRUE)
           \/ bundle' = Archive(f, d, bundle.names, TRUE)
        /\ UNCHANGED <<allVars, file, copied, receipts, result, bundle_exit>>

Misname(names) == /\ bundle # None /\ result = None /\ ~bundle.changed
                  /\ bundle' = Archive(bundle.files, bundle.digests, names, TRUE)
                  /\ UNCHANGED <<allVars, file, copied, receipts, result, bundle_exit>>

file_of(t) == IF t.kind = "archive" THEN ArchiveFile ELSE t.root

BundleInit == /\ CrossInit
              /\ file = file_of(transcript) /\ copied = None /\ receipts = {}
              /\ bundle = None /\ result = None /\ bundle_exit = None

BundleNext == \/ CrossNext /\ UNCHANGED bundleVars
              \/ Reorganise /\ UNCHANGED <<crossVars, bundleVars>>
              \/ CopyTranscript
              \/ \E tx \in tx_hashes \ Fetched : FetchReceipt(tx)
              \/ Pack \/ VerifyBundle
              \/ \E lines \in Rewrites : Rewrite(lines)
              \/ \E m \in Members : \E content \in Instead(m) : Damage(m, content)
              \/ \E names \in Names : Misname(names)

BundleSpec == BundleInit /\ [][BundleNext]_<<allVars, bundleVars>>

-----------------------------------------------------------------------------
(* Properties *)

\* Types of the state; an archive has a receipt or an error for every transaction of its proof.
BundleTypeOK == /\ bundle # None => /\ DOMAIN bundle.files = Members /\ DOMAIN bundle.digests = Members
                                    /\ Fetched = tx_hashes
                /\ result # None => bundle # None
                /\ bundle_exit \in {None, 0, 1, 2}

\* The members, and the digests of the manifest, are those that were packed.
FilesKept == bundle.files = Files
DigestsKept == bundle.digests = Files

\* Nothing that a bundle is made of has changed since it was verified, and nothing in it
\* since it was packed, but for the names in its manifest.
Undisturbed == /\ reorgs = 0 /\ ~rpcFailed /\ copied = file_of(transcript)
               /\ FilesKept /\ DigestsKept
Ordinary(lines) ==
    lines # << >> /\ \A i \in DOMAIN lines : lines[i].end = "lf" /\ lines[i].text \notin {Blank, Undecodable}

\* The bundle's receipts are those of transactions to the contract, of which the verification
\* need not be told, and then takes a lock that a relay has sent.
SentDirectly == step = "done" => request.lock_tx.to = lock_event.log.address

\* A bundle whose inputs did not change is judged as the proof in it was, with the same
\* exit code, if its transcript is an export whose lines end in a line feed, are not blank
\* and are UTF-8, and the lock was sent straight to the contract.  That of a deal archive
\* never passes, as the root of its file is not that of the export the archive is of.  With
\* the proof that was packed, no bundle passes that did not pass as a deal.
BundleAgrees ==
    result # None =>
        /\ Undisturbed /\ transcript.kind = "export" /\ Ordinary(copied) /\ SentDirectly
               => bundle_exit = exit
        /\ Undisturbed /\ transcript.kind = "archive" => bundle_exit # 0
        /\ bundle_exit = 0 /\ bundle.files["proof.json"] = proof => exit = 0

\* The verdict on a deal, that on its stored proof and that on its bundle are the same.
VerdictsAgree == StandaloneAgrees /\ BundleAgrees

Texts(lines) == [i \in DOMAIN lines |-> lines[i].text]

\* An archive of which a member changed, or a digest, and not the two together, is refused.
\* With the proof that was packed, whatever changed while or after it was made, a conformant
\* bundle holds the texts that were verified, or none, and a receipt of the agreed lock; and
\* with the receipts that were packed, one of a claim that opens the agreed hashlock.  More
\* does not hold, whatever bundle.py:242 says of any tampering: the names in the manifest are
\* not verified, and a proof packed again with its digest is taken for the one that was made.
BundleHolds ==
    result # None =>
        /\ ~(FilesKept <=> DigestsKept) => bundle_exit = 2 /\ ~result.valid
        /\ result.is_conformant /\ bundle.files["proof.json"] = proof =>
               LET s == proof.settlement
                   logs(tx) == receipt_in(bundle, tx).logs
               IN  /\ Texts(NonBlank(bundle.files["transcript.jsonl"]))
                          \in {Texts(transcript.root), << >>}
                   /\ \E i \in DOMAIN logs(s.lock_tx) :
                          /\ logs(s.lock_tx)[i].name = "Locked" /\ logs(s.lock_tx)[i].id = proof.agreement.id
                          /\ logs(s.lock_tx)[i].terms.amount = proof.agreement.amount
                   /\ s.claim_tx # None /\ bundle.files["receipts.json"] = receipts =>
                          \E i \in DOMAIN logs(s.claim_tx) :
                              /\ logs(s.claim_tx)[i].name = "Claimed"
                              /\ Sha256[logs(s.claim_tx)[i].secret] = proof.agreement.hashlock
=============================================================================
