------------------------------ MODULE DealProofs ------------------------------
(***************************************************************************)
(* What the methods of Deal make of a deal record.                         *)
(***************************************************************************)
EXTENDS Deal, TLAPS

\* The type of a frame tells its fields.
LEMMA FrameKinds ==
    ASSUME NEW f \in DealFrames
    PROVE  /\ f.type \in Stages \cup {"cancel"}
           /\ f.type # "offer"
           /\ f.type = "accept" => f \in AcceptFrames
           /\ f.type = "lock" => f \in LockFrames
           /\ f.type = "reveal" => f \in RevealFrames
           /\ f.type = "refund" => f \in RefundFrames
           /\ f.type = "cancel" => f \in CancelFrames
           /\ f.type = "receipt" => f \in ReceiptFrames
BY DEF DealFrames, AcceptFrames, LockFrames, RevealFrames, RefundFrames, CancelFrames,
       ReceiptFrames, Stages

\* A new deal is a deal.
LEMMA NewDealType == ASSUME NEW o \in Offers PROVE NewDeal(o) \in Deal
BY DEF NewDeal, Deal, DealStatus

\* What a frame makes of a deal is a deal.
LEMMA AfterType ==
    ASSUME NEW d \in Deal, NEW f \in DealFrames
    PROVE  After(d, f) \in Deal
<1>1. CASE f.type = "accept"
    <2>1. f \in AcceptFrames BY <1>1, FrameKinds
    <2>2. After(d, f) = applyAccept(d, f) BY <1>1 DEF After
    <2> QED BY <2>1, <2>2 DEF applyAccept, AcceptFrames, Deal, DealStatus
<1>2. CASE f.type = "lock"
    <2>1. f \in LockFrames BY <1>2, FrameKinds
    <2>2. After(d, f) = applyLock(d, f) BY <1>2 DEF After
    <2> QED BY <2>1, <2>2 DEF applyLock, LockFrames, Deal, DealStatus
<1>3. CASE f.type = "reveal"
    <2>1. f \in RevealFrames BY <1>3, FrameKinds
    <2>2. After(d, f) = applyReveal(d, f) BY <1>3 DEF After
    <2>3. Sha256[f.secret] \in Digests BY <2>1, DealAssumption DEF RevealFrames
    <2> QED BY <2>2, <2>3 DEF applyReveal, Deal, DealStatus
<1>4. CASE f.type = "refund"
    <2>1. After(d, f) = applyRefund(d) BY <1>4 DEF After
    <2> QED BY <2>1 DEF applyRefund, Deal, DealStatus
<1>5. CASE f.type = "cancel"
    <2>1. After(d, f) = applyCancel(d) BY <1>5 DEF After
    <2> QED BY <2>1 DEF applyCancel, Deal, DealStatus
<1>6. CASE f.type = "receipt"
    <2>1. f \in ReceiptFrames BY <1>6, FrameKinds
    <2>2. After(d, f) = applyReceipt(d, f) BY <1>6 DEF After
    <2> QED BY <2>1, <2>2 DEF applyReceipt, ReceiptFrames, Deal
<1> QED BY <1>1, <1>2, <1>3, <1>4, <1>5, <1>6, FrameKinds DEF Stages

\* Recording a sequence number changes nothing but the sequence numbers.
LEMMA RecordedType ==
    ASSUME NEW d \in Deal, NEW stage, NEW seq \in Nat
    PROVE  /\ recordLedgerSequence(d, stage, seq) \in Deal
           /\ recordLedgerSequence(d, stage, seq).offer = d.offer
           /\ recordLedgerSequence(d, stage, seq).status = d.status
           /\ recordLedgerSequence(d, stage, seq).contractId = d.contractId
           /\ recordLedgerSequence(d, stage, seq).rail = d.rail
<1>1. CASE stage \in Stages
    <2>1. recordLedgerSequence(d, stage, seq) = [d EXCEPT !.sequences[stage] = seq]
        BY <1>1 DEF recordLedgerSequence
    <2>2. [d.sequences EXCEPT ![stage] = seq] \in [Stages -> Nat \cup {NoSeq}]
        BY <1>1 DEF Deal
    <2> QED BY <2>1, <2>2 DEF Deal
<1>2. CASE stage \notin Stages
    BY <1>2 DEF recordLedgerSequence
<1> QED BY <1>1, <1>2

\* What a method that takes a frame makes of a deal: the status of that frame,
\* unless it is a receipt; only an accept binds the deal to a contract, and a
\* deal that ended stays ended.
LEMMA AfterStatus ==
    ASSUME NEW d \in Deal, NEW f \in DealFrames, NEW t, Takes(d, f, t)
    PROVE  /\ f.type = "accept" => /\ After(d, f).status = "ACCEPTED"
                                   /\ After(d, f).contractId = f.contract
           /\ f.type # "accept" => After(d, f).contractId = d.contractId
           /\ f.type = "lock" => After(d, f).status = "LOCKED"
           /\ f.type = "reveal" => After(d, f).status = "REVEALED"
           /\ f.type = "refund" => After(d, f).status = "REFUNDED"
           /\ f.type = "cancel" => After(d, f).status = "CANCELLED"
           /\ f.type = "receipt" => After(d, f).status = d.status
           /\ isTerminal(d) => f.type # "accept" /\ isTerminal(After(d, f))
<1>1. CASE f.type = "accept"
    <2>1. After(d, f) = applyAccept(d, f) BY <1>1 DEF After
    <2>2. CanAccept(d, f, t) BY <1>1 DEF Takes
    <2>3. ~isTerminal(d) BY <2>2 DEF CanAccept, isTerminal
    <2> QED BY <1>1, <2>1, <2>3 DEF applyAccept, Deal
<1>2. CASE f.type = "lock"
    <2>1. After(d, f) = applyLock(d, f) BY <1>2 DEF After
    <2>2. CanLock(d, f, t) BY <1>2 DEF Takes
    <2>3. ~isTerminal(d) BY <2>2 DEF CanLock, isTerminal
    <2> QED BY <1>2, <2>1, <2>3 DEF applyLock, Deal
<1>3. CASE f.type = "reveal"
    <2>1. After(d, f) = applyReveal(d, f) BY <1>3 DEF After
    <2>2. CanReveal(d, f, t) BY <1>3 DEF Takes
    <2>3. ~isTerminal(d) BY <2>2 DEF CanReveal, isTerminal
    <2> QED BY <1>3, <2>1, <2>3 DEF applyReveal, Deal
<1>4. CASE f.type = "refund"
    <2>1. After(d, f) = applyRefund(d) BY <1>4 DEF After
    <2> QED BY <1>4, <2>1 DEF applyRefund, Deal, isTerminal
<1>5. CASE f.type = "cancel"
    <2>1. After(d, f) = applyCancel(d) BY <1>5 DEF After
    <2> QED BY <1>5, <2>1 DEF applyCancel, Deal, isTerminal
<1>6. CASE f.type = "receipt"
    <2>1. After(d, f) = applyReceipt(d, f) BY <1>6 DEF After
    <2> QED BY <1>6, <2>1 DEF applyReceipt, Deal, isTerminal
<1> QED BY <1>1, <1>2, <1>3, <1>4, <1>5, <1>6, FrameKinds DEF Stages

\* Recording a sequence number of a stage changes that of no other.
LEMMA RecordedSequences ==
    ASSUME NEW d \in Deal, NEW stage, NEW seq \in Nat, NEW s \in Stages
    PROVE  recordLedgerSequence(d, stage, seq).sequences[s] =
               IF s = stage THEN seq ELSE d.sequences[s]
<1>1. CASE stage \in Stages
    <2>1. recordLedgerSequence(d, stage, seq) = [d EXCEPT !.sequences[stage] = seq]
        BY <1>1 DEF recordLedgerSequence
    <2>2. recordLedgerSequence(d, stage, seq).sequences = [d.sequences EXCEPT ![stage] = seq]
        BY <2>1 DEF Deal
    <2>3. d.sequences \in [Stages -> Nat \cup {NoSeq}] BY DEF Deal
    <2> QED BY <1>1, <2>2, <2>3
<1>2. CASE stage \notin Stages
    BY <1>2 DEF recordLedgerSequence
<1> QED BY <1>1, <1>2

\* No method touches the sequence numbers.
LEMMA AfterSequences ==
    ASSUME NEW d \in Deal, NEW f \in DealFrames
    PROVE  After(d, f).sequences = d.sequences
<1>1. CASE f.type = "accept"
    <2>1. After(d, f) = applyAccept(d, f) BY <1>1 DEF After
    <2> QED BY <2>1 DEF applyAccept, Deal
<1>2. CASE f.type = "lock"
    <2>1. After(d, f) = applyLock(d, f) BY <1>2 DEF After
    <2> QED BY <2>1 DEF applyLock, Deal
<1>3. CASE f.type = "reveal"
    <2>1. After(d, f) = applyReveal(d, f) BY <1>3 DEF After
    <2> QED BY <2>1 DEF applyReveal, Deal
<1>4. CASE f.type = "refund"
    <2>1. After(d, f) = applyRefund(d) BY <1>4 DEF After
    <2> QED BY <2>1 DEF applyRefund, Deal
<1>5. CASE f.type = "cancel"
    <2>1. After(d, f) = applyCancel(d) BY <1>5 DEF After
    <2> QED BY <2>1 DEF applyCancel, Deal
<1>6. CASE f.type = "receipt"
    <2>1. After(d, f) = applyReceipt(d, f) BY <1>6 DEF After
    <2> QED BY <2>1 DEF applyReceipt, Deal
<1> QED BY <1>1, <1>2, <1>3, <1>4, <1>5, <1>6, FrameKinds DEF Stages
===============================================================================
