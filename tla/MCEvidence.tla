----------------------------- MODULE MCEvidence -----------------------------
(***************************************************************************)
(* Small instances of the verification of a deal for TLC.  A behaviour is  *)
(* of one case: a transcript is "read", a deal and its settlement are      *)
(* "judged", or they are "bundled".                                        *)
(***************************************************************************)
EXTENDS Evidence

CONSTANTS
    htlc1, relay, id1, id2, token, coin2, s1, s2, h1, h2, payer, payee, other,
    room1, room2, offer, accept, chat, deal, alice, bob, carol, x1, x2, t1, t2

VARIABLE kind      \* the case

MCSha256 == (s1 :> h1) @@ (s2 :> h2)
Direct(call) == [to |-> call.at, calls |-> <<call>>]
lock(id, t) == Direct([do |-> "lock", at |-> htlc1, id |-> id, terms |-> t])
claim(s) == Direct([do |-> "claim", at |-> htlc1, id |-> id1, secret |-> s])
refund1 == Direct([do |-> "refund", at |-> htlc1, id |-> id1])
Request(l, c, r, id) == [lock_tx |-> l, claim_tx |-> c, refund_tx |-> r, htlc |-> htlc1,
                         id |-> id, chain_id |-> "here"]

-----------------------------------------------------------------------------
(* Judged: escrows that differ from the agreed one in one term.  Timestamps  *)
(* are block heights; 10 plays the part of 1000.                             *)

agreed == [payer |-> payer, payee |-> payee, token |-> token, amount |-> 5, hashlock |-> h1, refund |-> 3]
MCTerms == {agreed} \cup {[agreed EXCEPT !.payer = other], [agreed EXCEPT !.payee = other],
                          [agreed EXCEPT !.token = Native], [agreed EXCEPT !.token = coin2],
                          [agreed EXCEPT !.amount = 4], [agreed EXCEPT !.hashlock = h2],
                          [agreed EXCEPT !.refund = 2]}
Locks == {lock(id1, t) : t \in MCTerms} \cup {lock(id2, agreed)}
early == lock(id1, [agreed EXCEPT !.refund = 2])
JudgedTxs == Locks \cup {claim(s1), claim(s2), refund1}
JudgedRequests ==
    {Request(l, claim(s1), None, id) : l \in Locks, id \in {None, id1}}
    \cup {Request(lock(id1, [agreed EXCEPT !.hashlock = h2]), claim(s2), None, None),
          Request(lock(id1, agreed), None, None, None), Request(early, None, refund1, None)}

lines(terminator) == << [text |-> offer, end |-> terminator], [text |-> accept, end |-> terminator] >>
agreement == [id |-> id1, amount |-> 5, asset |-> token, hashlock |-> h1, refund_after |-> 35,
              payer_key |-> payer, payee_key |-> payee, room |-> room1]
export == [kind |-> "export", stem |-> room1, room |-> room1, root |-> lines("lf"), proofs |-> FALSE,
           agreement |-> agreement, signed |-> TRUE, included |-> TRUE]
archive == [export EXCEPT !.kind = "archive"]
Judged ==
    {export, archive, [export EXCEPT !.agreement = None], [export EXCEPT !.signed = FALSE],
     [export EXCEPT !.stem = room2],
     [export EXCEPT !.agreement = [agreement EXCEPT !.payer_key = None, !.payee_key = None]],
     [archive EXCEPT !.included = FALSE], [archive EXCEPT !.proofs = TRUE]}

Unanchored == [room |-> None, root |-> None, id |-> None]
MCAnchors == [room : {room1}, root : {lines("lf")}, id : {id1}] \cup {Unanchored}
             \cup [room : {room2}, root : {lines("crlf")}, id : {None}]

document == [id |-> id1, amount |-> 5, asset |-> token, hashlock |-> h1, status |-> "claimed-on-rail",
             provenance |-> "rpc_receipt_verified", payer |-> payer, payee |-> payee,
             lock_ts |-> 11, refund_ts |-> 13, claim_ts |-> 12, secret |-> s1, lock_tx |-> None,
             claim_tx |-> claim(s1), refund_tx |-> None, htlc |-> None, erc20 |-> None]
MCDocuments ==
    {None, document, [document EXCEPT !.erc20 = TRUE], [document EXCEPT !.id = None],
     [document EXCEPT !.status = "refunded"], [document EXCEPT !.status = "refunded", !.claim_tx = None],
     [document EXCEPT !.status = "?"], [document EXCEPT !.secret = None], [document EXCEPT !.secret = s2],
     [document EXCEPT !.claim_ts = 13], [document EXCEPT !.claim_ts = 10], [document EXCEPT !.lock_ts = 125],
     [document EXCEPT !.lock_ts = 135], [document EXCEPT !.asset = coin2]}

-----------------------------------------------------------------------------
(* Bundled: a rival escrow may take the contract id when the chain is        *)
(* reorganised.  Where it is not, a relay may send the lock, the file may    *)
(* gain a line, a blank one or other terminators, or be emptied or gone; and *)
(* where nothing else went wrong, members may come from other bundles.       *)

rival == [agreed EXCEPT !.amount = 4]
relayed == [lock(id1, agreed) EXCEPT !.to = relay]
BundledTxs == {lock(id1, agreed), lock(id1, rival), claim(s1), relayed}
BundledRequests == {Request(lock(id1, agreed), c, None, None) : c \in {claim(s1), None}}
                   \cup {[Request(relayed, claim(s1), None, None) EXCEPT !.htlc = None]}

spaced == << lines("lf")[1], [text |-> Blank, end |-> "lf"], lines("lf")[2] >>
grown == Append(lines("lf"), [text |-> chat, end |-> "lf"])
undecodable == Append(lines("lf"), [text |-> Undecodable, end |-> "lf"])
MCFileLines == [text : {offer, accept, chat, deal, Blank, Undecodable}, end : {"lf", "crlf"}]
MCArchiveFile == << [text |-> deal, end |-> "lf"] >>
MCRewrites == {None, << >>, grown, spaced, lines("crlf")}
Reorganised == {export, [export EXCEPT !.agreement = None],
                [export EXCEPT !.root = grown, !.signed = FALSE]}
Bundled == Reorganised \cup {[export EXCEPT !.root = undecodable], archive}

\* Receipts of the lock of another amount, and of a claim with another secret.
receiptOf(tx, call) == <<tx, [ok |-> TRUE, tx |-> tx, logs |-> LogsOf(call)]>>
otherLock == {receiptOf(lock(id1, agreed), lock(id1, rival).calls[1])}
otherClaim == {receiptOf(lock(id1, agreed), lock(id1, agreed).calls[1]),
               receiptOf(claim(s1), claim(s2).calls[1])}
otherProof ==
    [refused |-> FALSE, is_conformant |-> TRUE, failures |-> {}, proven |-> TRUE, root |-> lines("lf"),
     agreement |-> [agreement EXCEPT !.amount = 4],
     settlement |-> [parse_settlement_evidence(document) EXCEPT
                         !.provenance = "rpc_receipt_verified", !.amount = 4, !.lock_tx = lock(id1, agreed),
                         !.htlc = htlc1, !.erc20 = TRUE]]
MCInstead(m) == CASE m = "transcript.jsonl" -> {<< >>, grown, spaced, undecodable}
                  [] m = "receipts.json" -> {{}, otherLock, otherClaim}
                  [] m = "proof.json" -> {Refusal, otherProof}
                  [] m = "report.txt" -> {"other"}
MCNames == {<<None, None>>, <<room2, id1>>}

-----------------------------------------------------------------------------
(* Read: a room with two offers.  The first is accepted with its contract id *)
(* spelled out, possibly twice, the second without.                          *)

offer1 == [type |-> "offer", id |-> x1, role |-> "payer", from |-> alice, key |-> "k1", terms |-> t1]
offer2 == [type |-> "offer", id |-> x2, role |-> "payee", from |-> carol, key |-> "k3", terms |-> t2]
again1 == [offer1 EXCEPT !.terms = t2]
plain1 == [type |-> "accept", ref |-> x1, from |-> bob, key |-> "k2", statement |-> h1, contract |-> Null]
accept1 == [plain1 EXCEPT !.contract = ContractId(offer1, plain1)]
accept2 == [type |-> "accept", ref |-> x2, from |-> bob, key |-> "k2", statement |-> h2, contract |-> Null]
lockFrame == [type |-> "lock", contract |-> accept1.contract]

Piece(form, frame) == [form |-> form, frame |-> frame]
Line(text) == [json |-> TRUE, object |-> TRUE, status |-> "VALID", text |-> text]
Bare(frame) == Line(<<Piece("bare", frame)>>)

\* A remark that quotes an offer and brings an accept in a code fence.
quote == Line(<<Piece("prose", Null), Piece("inline", offer1), Piece("fenced", accept2)>>)
remark == Line(<<Piece("prose", Null)>>)
garbage == [json |-> FALSE]
scalar == [json |-> TRUE, object |-> FALSE]
unsigned == [Bare(lockFrame) EXCEPT !.status = "INVALID"]

MCLines == {Bare(offer1), Bare(again1), Bare(offer2), Bare(accept1), Bare(lockFrame), quote, remark,
            garbage, scalar, unsigned}
MCTargets == {Null, accept1.contract, ContractId(offer2, accept2), ContractId(again1, plain1)}

-----------------------------------------------------------------------------
MCTxs == JudgedTxs \cup BundledTxs
MCRequests == JudgedRequests \cup BundledRequests
MCTranscripts == Judged \cup Bundled

\* What a behaviour of a case is about.
TranscriptsOf == ("judged" :> Judged) @@ ("bundled" :> Bundled) @@ ("read" :> {export})
AnchorsOf == IF kind = "judged" THEN MCAnchors ELSE {Unanchored}

OfJudged == reorgs = 0 /\ request \in JudgedRequests \cup {NoRequest}
OfBundled == /\ chain # << >> => Last(chain).tx \in BundledTxs
             /\ request \in BundledRequests \cup {NoRequest}
             /\ reorgs = 0 \/ (transcript \in Reorganised /\ file = transcript.root
                               /\ request.lock_tx # relayed)
             /\ bundle # None /\ bundle.changed => /\ transcript = export /\ copied = transcript.root
                                                   /\ reorgs = 0 /\ ~rpcFailed
             /\ step = "idle" /\ proof # None /\ ~proof.refused
                    => proof.settlement = parse_settlement_evidence(document)

MCInit == /\ kind \in DOMAIN TranscriptsOf
          /\ BundleInit /\ ReadInit
          /\ transcript \in TranscriptsOf[kind] /\ anchors \in AnchorsOf

MCNext == /\ UNCHANGED kind
          /\ \/ /\ kind = "judged" /\ CrossNext /\ OfJudged'
                /\ UNCHANGED <<bundleVars, transcriptVars>>
             \/ kind = "bundled" /\ BundleNext /\ OfBundled' /\ UNCHANGED transcriptVars
             \/ kind = "read" /\ ReadNext /\ UNCHANGED <<allVars, bundleVars>>

MCSpec == MCInit /\ [][MCNext]_<<kind, allVars, bundleVars, transcriptVars>>
=============================================================================
