----------------------------- MODULE CrossVerify -----------------------------
(***************************************************************************)
(* The cross verifier (cross_verify.py): verify_cross_layer compares the   *)
(* agreement of a room's transcript with settlement evidence, read from a  *)
(* chain (EvmVerifier) or from a JSON document, and writes a proof;        *)
(* verify_standalone_proof judges that proof again, without either.        *)
(*                                                                         *)
(* A transcript is what parse_export_lines or parse_deal_archive make of   *)
(* its file.  Its export root is one-to-one with its lines (Inclusion and  *)
(* Consistency are about the tree), and stands for them here.  Ids,        *)
(* amounts, addresses and digests are taken after normalize_*: a value the *)
(* normalisation rejects is None.                                          *)
(***************************************************************************)
EXTENDS EvmVerifier, TLC

CONSTANTS
    Transcripts,  \* [kind, stem, room, root, agreement, signed, included]
    Anchors,      \* the caller's trust anchors: [room, root, id]
    Documents,    \* settlement evidence as JSON
    Milli,        \* 1000, scaled down
    MsThreshold   \* timestamps above it are read as milliseconds

\* The fields of settlement evidence.
EvidenceFields == {"id", "amount", "asset", "hashlock", "status", "provenance", "payer", "payee",
                   "lock_ts", "refund_ts", "claim_ts", "secret", "lock_tx", "claim_tx", "refund_tx",
                   "htlc", "erc20"}

ASSUME CrossAssumption == /\ Milli \in Nat \ {0} /\ MsThreshold \in Nat
                          /\ None \notin {0, 1, 2} /\ None # TRUE
                          /\ \A d \in Documents \ {None} : DOMAIN d = EvidenceFields

VARIABLES
    transcript, anchors, \* the inputs
    proof,               \* the proof, or None
    exit,                \* exit code of the verification, or None
    verdict,             \* what the standalone verifier says of the proof, or None
    standalone_exit

crossVars == <<transcript, anchors, proof, exit, verdict, standalone_exit>>
allVars == <<evmVars, crossVars>>

Trusted == {"rpc_receipt_verified", "cryptographic_receipt_proof"}

\* A failure reason and when it is given.
Reason(name, given) == IF given THEN {name} ELSE {}

-----------------------------------------------------------------------------
(* Settlement evidence *)

\* What build_rpc_settlement_evidence makes of its events.
rpc_evidence ==
    LET t == lock_event.log.terms
    IN  [id |-> lock_event.log.id, amount |-> t.amount, asset |-> t.token, hashlock |-> t.hashlock,
         status |-> settlement_status, provenance |-> "rpc_receipt_verified",
         payer |-> t.payer, payee |-> t.payee, lock_ts |-> None, refund_ts |-> t.refund, claim_ts |-> None,
         secret |-> IF claim_event = None THEN None ELSE claim_event.log.secret,
         lock_tx |-> request.lock_tx, claim_tx |-> request.claim_tx,
         refund_tx |-> request.refund_tx, htlc |-> lock_event.log.address,
         erc20 |-> IF t.token = Native THEN None ELSE TRUE]

parse_ts(v) == IF v # None /\ v > MsThreshold THEN v \div Milli ELSE v

parse_status(raw) == CASE raw \in {"claimed-on-rail", "claimed"} -> "claimed"
                       [] raw \in {"refunded-on-rail", "refunded"} -> "refunded"
                       [] raw \in {"locked", "cancelled"} -> raw
                       [] OTHER -> "unknown"

parse_settlement_evidence(d) ==
    [d EXCEPT !.status = parse_status(@), !.lock_ts = parse_ts(@), !.refund_ts = parse_ts(@),
              !.claim_ts = parse_ts(@), !.provenance = "self_attested"]

WellFormed(d) == None \notin {d.id, d.asset, d.amount, d.hashlock}

-----------------------------------------------------------------------------
(* The checks of verify_cross_layer: agreement a, settlement s *)

AnchorFailures(a) ==
    Reason("room", anchors.room # None /\ a.room # anchors.room)
    \cup Reason("root", anchors.root # None /\ transcript.root # anchors.root)
    \cup Reason("anchored id", anchors.id # None /\ a.id # anchors.id)

\* The signatures of an export are checked for the room the caller names.
signatures_verified(a) == transcript.signed /\ a.room = transcript.room

TranscriptFailures(a) == Reason("signatures", ~signatures_verified(a))
                         \cup Reason("inclusion", ~transcript.included)

\* Mutant: the asset is not compared.
BindingOfAmounts(a, s) == Reason("contract id", a.id # s.id)
                          \cup Reason("hashlock", a.hashlock # s.hashlock)
                          \cup Reason("amount", a.amount # s.amount)

BindingFailures(a, s) == Reason("contract id", a.id # s.id)
                         \cup Reason("hashlock", a.hashlock # s.hashlock)
                         \cup Reason("amount", a.amount # s.amount)
                         \cup Reason("asset", a.asset # s.asset)

SecretFailures(a, s) ==
    Reason("secret missing", s.status = "claimed" /\ s.secret = None)
    \cup Reason("secret", /\ s.status = "claimed" /\ s.secret # None
                          /\ Sha256[s.secret] # a.hashlock)

\* The deadline of the agreement is not among these: a difference is a warning.
TemporalFailures(s) ==
    Reason("lock too late", None \notin {s.lock_ts, s.refund_ts} /\ s.lock_ts >= s.refund_ts)
    \cup Reason("claim too late", None \notin {s.claim_ts, s.refund_ts} /\ s.claim_ts >= s.refund_ts)

LifecycleFailures(s) ==
    Reason("lifecycle", \/ s.status = "claimed" /\ s.refund_tx # None
                        \/ s.status = "refunded" /\ s.claim_tx # None)

\* A payment key stands for the address it derives.
AddressFailures(a, s) ==
    Reason("payer key", a.payer_key # None /\ a.payer_key # s.payer)
    \cup Reason("payee key", a.payee_key # None /\ a.payee_key # s.payee)

Erc20Failures(a, s) ==
    Reason("transfer", /\ a.asset # Native \/ s.asset # Native
                       /\ s.provenance \in Trusted /\ s.erc20 # TRUE)

TermsFailures(a, s) == UNION {BindingFailures(a, s), SecretFailures(a, s), TemporalFailures(s),
                              LifecycleFailures(s), AddressFailures(a, s), Erc20Failures(a, s)}

Refusal == [refused |-> TRUE, is_conformant |-> FALSE, failures |-> {"refused"}]

Proof(a, s) ==
    LET failures == UNION {AnchorFailures(a), TranscriptFailures(a), TermsFailures(a, s),
                           Reason("self-attested", s.provenance \notin Trusted)}
    IN  [refused |-> FALSE, is_conformant |-> failures = {}, failures |-> failures,
         agreement |-> a, settlement |-> s, root |-> transcript.root,
         proven |-> s.provenance \in Trusted]

\* The agreement in the transcript; its room is the one the caller expects, else the
\* file's name, for an export, and the deal's own for an archive.
Agreement ==
    IF transcript.kind = "export"
    THEN [transcript.agreement EXCEPT
             !.room = IF anchors.room # None THEN anchors.room ELSE transcript.stem]
    ELSE transcript.agreement

\* parse_deal_archive calls verify_export_inclusion_proof with arguments it does not have.
Raises == transcript.kind = "archive" /\ transcript.proofs

\* Mutant: a verification that was refused is not told from one that failed.
ExitOfVerdict(p) == IF p.is_conformant THEN 0 ELSE 1

\* The exit code of `tclk-proof verify`.
ExitCode(p) == IF p.refused THEN 2 ELSE IF p.is_conformant THEN 0 ELSE 1

\* The settlement has been parsed (or refused): the transcript, the checks, the proof.
Conclude(settled, s) ==
    /\ IF settled /\ Raises
       THEN proof' = None /\ exit' = 2
       ELSE /\ proof' = IF settled /\ transcript.agreement # None
                        THEN Proof(Agreement, s) ELSE Refusal
            /\ exit' = ExitCode(proof')
    /\ UNCHANGED <<evmVars, transcript, anchors, verdict, standalone_exit>>

VerifyRpc == /\ step \in {"done", "failed"} /\ exit = None
             /\ Conclude(step = "done", IF step = "done" THEN rpc_evidence ELSE None)

\* Without RPC anchors: a document, or none.
VerifyDocument(d) == /\ step = "idle" /\ exit = None
                     /\ Conclude(d # None /\ WellFormed(d),
                                 IF d # None THEN parse_settlement_evidence(d) ELSE None)

-----------------------------------------------------------------------------
(* verify_standalone_proof; a refusal does not satisfy the schema *)

StandaloneBindings(p) ==
    LET a == p.agreement  s == p.settlement
    IN  BindingFailures(a, s)
        \cup Reason("secret", s.secret # None /\ Sha256[s.secret] # a.hashlock)

StandaloneAnchors(p) ==
    Reason("room", anchors.room # None /\ p.agreement.room # anchors.room)
    \cup Reason("root", anchors.root # None /\ p.root # anchors.root)
    \cup Reason("anchored id", anchors.id # None /\ p.agreement.id # anchors.id)

TrustFailures(p) ==
    Reason("trust model", p.settlement.provenance = "self_attested" /\ (p.proven \/ p.is_conformant))
    \cup Reason("self-attested", p.settlement.provenance = "self_attested" /\ ~p.is_conformant)

StandaloneTemporal(p) ==
    LET s == p.settlement
    IN  Reason("claim before lock", None \notin {s.lock_ts, s.claim_ts} /\ s.lock_ts > s.claim_ts)
        \cup Reason("claim too late", None \notin {s.claim_ts, s.refund_ts} /\ s.claim_ts > s.refund_ts)

StandaloneErc20(p) ==
    LET s == p.settlement
    IN  Reason("transfer", /\ p.agreement.asset # Native \/ s.asset # Native
                           /\ IF s.provenance \in Trusted THEN s.erc20 # TRUE
                              ELSE s.erc20 = TRUE \/ p.is_conformant)

Recorded(p) == p.failures

verify_standalone_proof(p) ==
    IF p.refused THEN [schema |-> FALSE, valid |-> FALSE, is_conformant |-> FALSE]
    ELSE LET failures == UNION {StandaloneBindings(p), StandaloneAnchors(p), TrustFailures(p),
                                StandaloneTemporal(p), StandaloneErc20(p), Recorded(p)}
             valid == failures \ {"self-attested"} = {}
         IN  [schema |-> TRUE, valid |-> valid,
              is_conformant |-> /\ valid /\ failures = {}
                                /\ p.settlement.provenance \in Trusted /\ p.is_conformant]

\* `tclk-proof verify-proof`; its --chain-id is read and not used.
VerifyProof ==
    /\ proof # None /\ verdict = None
    /\ verdict' = verify_standalone_proof(proof)
    /\ standalone_exit' = IF ~verdict'.schema THEN 2 ELSE IF verdict'.is_conformant THEN 0 ELSE 1
    /\ UNCHANGED <<evmVars, transcript, anchors, proof, exit>>

-----------------------------------------------------------------------------

CrossInit == /\ EvmInit
             /\ transcript \in Transcripts /\ anchors \in Anchors
             /\ proof = None /\ exit = None /\ verdict = None /\ standalone_exit = None

\* The anchored contract id is also the id the receipts are searched for.
Evm == /\ \/ \E tx \in Txs : Mine(tx)
          \/ \E r \in {q \in Requests : q.id = anchors.id} : exit = None /\ Begin(r)
          \/ FetchChainId \/ FetchLock \/ FetchClaim \/ FetchRefund \/ RpcFails
       /\ UNCHANGED crossVars

CrossNext == \/ Evm
             \/ VerifyRpc
             \/ \E d \in Documents : VerifyDocument(d)
             \/ VerifyProof

CrossSpec == CrossInit /\ [][CrossNext]_allVars

-----------------------------------------------------------------------------
(* Properties *)

\* Types of the state; the exit code says whether the proof is conformant, and whether the
\* inputs could be read at all.
CrossTypeOK ==
    /\ exit \in {None, 0, 1, 2} /\ standalone_exit \in {None, 0, 1, 2}
    /\ proof # None => (exit = 0 <=> proof.is_conformant) /\ (exit = 2 <=> proof.refused)
    /\ verdict # None => proof # None
    /\ exit = None => proof = None

Conformant == proof # None /\ proof.is_conformant

\* On a chain that drops no blocks, a conformant proof comes from receipts, never from a
\* document, and is of an escrow on the chain with the agreed amount, asset, hashlock and,
\* where payment keys are given, parties; a claimed one was claimed with a secret that opens
\* the agreed hashlock; the transcript is signed, and is the one the caller anchored.
ConformantIsSettled ==
    Conformant /\ reorgs = 0 =>
        LET a == proof.agreement
        IN  /\ step = "done" /\ Evidenced.status # "None"
            /\ lock_event.log.id = a.id
            /\ Evidenced.terms.amount = a.amount /\ Evidenced.terms.token = a.asset
            /\ Evidenced.terms.hashlock = a.hashlock
            /\ a.payer_key \in {None, Evidenced.terms.payer}
            /\ a.payee_key \in {None, Evidenced.terms.payee}
            /\ proof.settlement.status = "claimed" => Sha256[Evidenced.secret] = a.hashlock
            /\ transcript.signed /\ transcript.room = a.room
            /\ anchors.root \in {None, transcript.root}

\* Judged again with the same anchors, a proof gets the exit code it got when it was
\* made, and is valid only if being self-attested is all that was held against it; evidence
\* from a document is never conformant (SECURITY.md).
StandaloneAgrees ==
    verdict # None => /\ standalone_exit = exit
                      /\ step = "idle" => ~verdict.is_conformant
                      /\ verdict.valid => proof.failures \subseteq {"self-attested"}
=============================================================================
