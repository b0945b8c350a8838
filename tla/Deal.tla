--------------------------------- MODULE Deal ---------------------------------
(***************************************************************************)
(* DealManager (tclk-rail-evm/src/deal.ts): the deal record and, for each  *)
(* apply method, when it accepts a frame and what it makes of the record.  *)
(*                                                                         *)
(* An offer's id and a contract's id are hashes of what they identify, so  *)
(* they are modelled by it: an offer is its own id, a contract id is the   *)
(* offer with the core of the accept that closed it.  Hence frozen terms   *)
(* (projectLockTerms) are fields of the contract id.                       *)
(*                                                                         *)
(* Amount, asset, lock kind, nonces and payment keys only ever enter those *)
(* hashes and are left out, as are createdAtMs and updatedAtMs, which no   *)
(* method reads.                                                           *)
(***************************************************************************)
EXTENDS Naturals

CONSTANTS
    Dids,         \* identities
    NoDid,        \* the counterparty of an offer nobody accepted yet
    Offers,       \* the offers made
    NoContract,   \* the contract id of an offer nobody accepted yet
    Rails,        \* rails a lock frame may name
    NoRail,
    Secrets,
    Digests,
    NoDigest,     \* secretHash before a reveal
    NoSeq,        \* a stage without a recorded sequence number
    Sha256

Offer == [from          : Dids,
          role          : {"payer", "payee"},
          rails         : SUBSET Rails,
          claimByMs     : Nat,
          refundAfterMs : Nat,
          expiresMs     : Nat]

ASSUME DealAssumption ==
    /\ Offers \subseteq Offer
    /\ NoDid \notin Dids
    /\ NoRail \notin Rails
    /\ NoContract \notin [offer : Offers, from : Dids, statement : Digests]
    /\ NoSeq \notin Nat
    /\ NoDigest \notin Digests
    /\ Sha256 \in [Secrets -> Digests]

\* computeContractId: the offer and who accepted it with which statement.
Contracts == [offer : Offers, from : Dids, statement : Digests]

Payer(c) == IF c.offer.role = "payer" THEN c.offer.from ELSE c.from
Payee(c) == IF c.offer.role = "payee" THEN c.offer.from ELSE c.from

DealStatus == {"OFFERED", "ACCEPTED", "LOCKED", "VERIFIED",
               "REVEALED", "CLAIMED", "REFUNDED", "CANCELLED"}

isTerminal(d) == d.status \in {"CLAIMED", "REFUNDED", "CANCELLED"}

Outcomes == {"claimed", "refunded", "cancelled"}

\* What recordSequences keeps a sequence number of; a cancel has none.
Stages == {"offer", "accept", "lock", "reveal", "refund", "receipt"}

\* The ref of a lock is a contract id; the wallet always names the deal's own.
Deal == [offer      : Offers,
         status     : DealStatus,
         contractId : Contracts \cup {NoContract},
         rail       : Rails \cup {NoRail},
         ref        : Contracts \cup {NoContract},
         secretHash : Digests \cup {NoDigest},
         receipt    : Outcomes \cup {"none"},
         sequences  : [Stages -> Nat \cup {NoSeq}]]

NewDeal(offer) == [offer      |-> offer,
                   status     |-> "OFFERED",
                   contractId |-> NoContract,
                   rail       |-> NoRail,
                   ref        |-> NoContract,
                   secretHash |-> NoDigest,
                   receipt    |-> "none",
                   sequences  |-> [stage \in Stages |-> NoSeq]]

\* record.payer.did and record.payee.did.
PayerOf(d) == IF d.contractId # NoContract THEN Payer(d.contractId)
              ELSE IF d.offer.role = "payer" THEN d.offer.from ELSE NoDid
PayeeOf(d) == IF d.contractId # NoContract THEN Payee(d.contractId)
              ELSE IF d.offer.role = "payee" THEN d.offer.from ELSE NoDid

-----------------------------------------------------------------------------
(* Frames, as decoded: each kind has the fields the methods look at. *)

OfferFrames   == [type : {"offer"}, from : Dids, offer : Offers, id : Offers]
AcceptFrames  == [type : {"accept"}, from : Dids, ref : Offers,
                  statement : Digests, contract : Contracts]
LockFrames    == [type : {"lock"}, from : Dids, contract : Contracts,
                  rail : Rails, ref : Contracts]
RevealFrames  == [type : {"reveal"}, from : Dids, contract : Contracts, secret : Secrets]
RefundFrames  == [type : {"refund"}, from : Dids, contract : Contracts]
CancelFrames  == [type : {"cancel"}, from : Dids, contract : Contracts \cup Offers]
ReceiptFrames == [type : {"receipt"}, from : Dids, contract : Contracts, outcome : Outcomes]

DealFrames == AcceptFrames \cup LockFrames \cup RevealFrames \cup RefundFrames
              \cup CancelFrames \cup ReceiptFrames

-----------------------------------------------------------------------------
(* The methods.  Each accepts a repetition of what it did last. *)

\* Mutant: an offer can be accepted again by somebody else.
CanReaccept(d, f, t) ==
    /\ d.status \in {"OFFERED", "ACCEPTED"}
    /\ f.ref = d.offer
    /\ f.from # d.offer.from
    /\ t < d.offer.expiresMs
    /\ f.contract = [offer |-> d.offer, from |-> f.from, statement |-> f.statement]

CanAccept(d, f, t) ==
    \/ d.status = "ACCEPTED" /\ d.contractId = f.contract
    \/ /\ d.status = "OFFERED"
       /\ f.ref = d.offer
       /\ f.from # d.offer.from
       /\ t < d.offer.expiresMs
       /\ f.contract = [offer |-> d.offer, from |-> f.from, statement |-> f.statement]

applyAccept(d, f) == [d EXCEPT !.status = "ACCEPTED", !.contractId = f.contract]

\* Mutant: anybody may report a lock.
CanLockByAnyone(d, f, t) ==
    \/ d.status = "LOCKED" /\ d.ref = f.ref /\ d.rail = f.rail
    \/ /\ d.status = "ACCEPTED"
       /\ f.contract = d.contractId
       /\ f.rail \in d.offer.rails
       /\ t < d.offer.refundAfterMs

CanLock(d, f, t) ==
    \/ d.status = "LOCKED" /\ d.ref = f.ref /\ d.rail = f.rail
    \/ /\ d.status = "ACCEPTED"
       /\ f.contract = d.contractId
       /\ f.from = PayerOf(d)
       /\ f.rail \in d.offer.rails
       /\ t < d.offer.refundAfterMs

applyLock(d, f) == [d EXCEPT !.status = "LOCKED", !.rail = f.rail, !.ref = f.ref]

CanVerify(d, ref) == d.status \in {"LOCKED", "VERIFIED"} /\ ref = d.ref

markVerified(d) == [d EXCEPT !.status = "VERIFIED"]

CanReveal(d, f, t) ==
    \/ d.status = "REVEALED" /\ d.secretHash = Sha256[f.secret]
    \/ /\ d.status \in {"LOCKED", "VERIFIED"}
       /\ f.from = PayeeOf(d)
       /\ Sha256[f.secret] = d.contractId.statement
       /\ t < d.offer.refundAfterMs

applyReveal(d, f) == [d EXCEPT !.status = "REVEALED", !.secretHash = Sha256[f.secret]]

CanClaim(d) == d.status \in {"REVEALED", "CLAIMED"}

applyClaim(d) == [d EXCEPT !.status = "CLAIMED"]

CanRefund(d, from, t) ==
    \/ d.status = "REFUNDED"
    \/ /\ d.status \in {"LOCKED", "VERIFIED", "REVEALED"}
       /\ from = PayerOf(d)
       /\ t >= d.offer.refundAfterMs

applyRefund(d) == [d EXCEPT !.status = "REFUNDED"]

CanCancel(d, from) ==
    \/ d.status = "CANCELLED"
    \/ /\ d.status \in {"OFFERED", "ACCEPTED"}
       /\ from \in {PayerOf(d), PayeeOf(d), d.offer.from}

applyCancel(d) == [d EXCEPT !.status = "CANCELLED"]

OutcomeOf(status) == CASE status = "CLAIMED"   -> "claimed"
                       [] status = "REFUNDED"  -> "refunded"
                       [] status = "CANCELLED" -> "cancelled"

CanReceipt(d, f) == /\ isTerminal(d)
                    /\ f.contract = d.contractId
                    /\ f.outcome = OutcomeOf(d.status)

applyReceipt(d, f) == [d EXCEPT !.receipt = f.outcome]

\* Mutant: counts the records instead of naming the last one.
recordNextSequence(d, stage, seq) ==
    IF stage \in Stages THEN [d EXCEPT !.sequences[stage] = seq + 1] ELSE d

recordLedgerSequence(d, stage, seq) ==
    IF stage \in Stages THEN [d EXCEPT !.sequences[stage] = seq] ELSE d

-----------------------------------------------------------------------------
\* Whether a deal takes a frame of a record stamped t, and what it becomes.
Takes(d, f, t) == CASE f.type = "accept"  -> CanAccept(d, f, t)
                    [] f.type = "lock"    -> CanLock(d, f, t)
                    [] f.type = "reveal"  -> CanReveal(d, f, t)
                    [] f.type = "refund"  -> CanRefund(d, f.from, t)
                    [] f.type = "cancel"  -> CanCancel(d, f.from)
                    [] f.type = "receipt" -> CanReceipt(d, f)

After(d, f) == CASE f.type = "accept"  -> applyAccept(d, f)
                 [] f.type = "lock"    -> applyLock(d, f)
                 [] f.type = "reveal"  -> applyReveal(d, f)
                 [] f.type = "refund"  -> applyRefund(d)
                 [] f.type = "cancel"  -> applyCancel(d)
                 [] f.type = "receipt" -> applyReceipt(d, f)
=============================================================================
