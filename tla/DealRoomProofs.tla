---------------------------- MODULE DealRoomProofs ----------------------------
(***************************************************************************)
(* Proofs about DealRoom: its types, that deals stay registered under what *)
(* they are about, that the room holds the evidence of their status, that  *)
(* other members' records take effect in order, that the evidence points   *)
(* are of the deal, and what holds of an offer ingested under one key.     *)
(***************************************************************************)
EXTENDS DealRoom, DealProofs

-----------------------------------------------------------------------------
(* The deal record *)

\* A frame that passed decoding and is about an existing deal.
LEMMA DealFrame ==
    ASSUME NEW f \in Frames, f.type \notin {"offer", "chat", "malformed"}
    PROVE  f \in DealFrames
BY DEF Frames, OfferFrames, OtherFrames

\* A method that takes a frame of a bound deal leaves it bound, to the contract
\* it was bound to before if there was one, and of the same offer.
LEMMA AfterBound ==
    ASSUME NEW d \in Deal, NEW f \in DealFrames, NEW t \in Nat, Takes(d, f, t), Bound(d)
    PROVE  /\ Bound(After(d, f))
           /\ After(d, f).offer = d.offer
           /\ d.contractId # NoContract => After(d, f).contractId = d.contractId
           /\ f.type = "accept" => After(d, f).contractId = f.contract
<1>1. CASE f.type = "accept"
    <2>1. f \in AcceptFrames BY <1>1, FrameKinds
    <2>2. After(d, f) = applyAccept(d, f) BY <1>1 DEF After
    <2>3. CanAccept(d, f, t) BY <1>1 DEF Takes
    <2>4. f.contract \in Contracts BY <2>1 DEF AcceptFrames
    <2>5. f.contract # NoContract BY <2>4, DealAssumption DEF Contracts
    <2>6. f.contract.offer = d.offer BY <2>3, <2>4, <2>5 DEF CanAccept, Bound, Contracts
    <2>7. /\ applyAccept(d, f).contractId = f.contract
          /\ applyAccept(d, f).status = "ACCEPTED"
          /\ applyAccept(d, f).offer = d.offer
        BY DEF applyAccept, Deal
    <2>8. Bound(applyAccept(d, f)) BY <2>5, <2>6, <2>7 DEF Bound
    <2>9. d.contractId # NoContract => d.contractId = f.contract BY <2>3 DEF CanAccept, Bound
    <2> QED BY <2>2, <2>7, <2>8, <2>9
<1>2. CASE f.type = "lock"
    <2>1. After(d, f) = applyLock(d, f) BY <1>2 DEF After
    <2>2. CanLock(d, f, t) BY <1>2 DEF Takes
    <2>3. d.contractId # NoContract BY <2>2 DEF CanLock, Bound
    <2> QED BY <1>2, <2>1, <2>3 DEF applyLock, Deal, Bound
<1>3. CASE f.type = "reveal"
    <2>1. After(d, f) = applyReveal(d, f) BY <1>3 DEF After
    <2>2. CanReveal(d, f, t) BY <1>3 DEF Takes
    <2>3. d.contractId # NoContract BY <2>2 DEF CanReveal, Bound
    <2> QED BY <1>3, <2>1, <2>3 DEF applyReveal, Deal, Bound
<1>4. CASE f.type = "refund"
    <2>1. After(d, f) = applyRefund(d) BY <1>4 DEF After
    <2>2. CanRefund(d, f.from, t) BY <1>4 DEF Takes
    <2>3. d.contractId # NoContract BY <2>2 DEF CanRefund, Bound
    <2> QED BY <1>4, <2>1, <2>3 DEF applyRefund, Deal, Bound
<1>5. CASE f.type = "cancel"
    <2>1. After(d, f) = applyCancel(d) BY <1>5 DEF After
    <2> QED BY <1>5, <2>1 DEF applyCancel, Deal, Bound
<1>6. CASE f.type = "receipt"
    <2>1. After(d, f) = applyReceipt(d, f) BY <1>6 DEF After
    <2> QED BY <1>6, <2>1 DEF applyReceipt, Deal, Bound
<1> QED BY <1>1, <1>2, <1>3, <1>4, <1>5, <1>6, FrameKinds DEF Stages

-----------------------------------------------------------------------------
(* Ingesting a record *)

\* Where a frame's deal is looked up, there is one or the index is 0.
LEMMA TargetType ==
    ASSUME TypeOK, NEW r \in Record
    PROVE  TargetOf(r) \in 0..Len(deals)
<1>0. deals \in Seq(Deal) /\ Len(deals) \in Nat BY DEF TypeOK
<1>1. CASE WellFormed(r) /\ r.frame.type \notin {"offer", "chat"}
    <2>1. r.frame \in DealFrames BY <1>1, DealFrame DEF Record, WellFormed
    <2>2. TargetOf(r) = Target(r.frame) BY <1>1 DEF TargetOf
    <2>3. CASE r.frame.type = "accept"
        <3>1. r.frame.ref \in Offers BY <2>1, <2>3, FrameKinds DEF AcceptFrames
        <3>2. Target(r.frame) = byOffer[r.frame.ref] BY <2>3 DEF Target
        <3> QED BY <2>2, <3>1, <3>2 DEF TypeOK
    <2>4. CASE r.frame.type = "cancel" /\ r.frame.contract \in Offers
        <3>1. Target(r.frame) = byOffer[r.frame.contract] BY <2>4 DEF Target
        <3> QED BY <2>2, <2>4, <3>1 DEF TypeOK
    <2>5. CASE /\ r.frame.type # "accept"
               /\ ~(r.frame.type = "cancel" /\ r.frame.contract \in Offers)
        <3>1. r.frame.contract \in Contracts
            BY <2>1, <2>5, FrameKinds DEF Stages, LockFrames, RevealFrames, RefundFrames,
               CancelFrames, ReceiptFrames
        <3>2. Target(r.frame) = byContract[r.frame.contract] BY <2>5 DEF Target
        <3> QED BY <2>2, <3>1, <3>2 DEF TypeOK
    <2> QED BY <2>3, <2>4, <2>5
<1>2. CASE ~(WellFormed(r) /\ r.frame.type \notin {"offer", "chat"})
    BY <1>0, <1>2 DEF TargetOf
<1> QED BY <1>1, <1>2

\* What a taken frame changes: the one deal, and where it is found if accepted.
LEMMA ChangeEffect ==
    ASSUME TypeOK, NEW r \in Record, NEW i \in 0..Len(deals),
           TakesDeal(r, i), ChangeDeal(r, i)
    PROVE  /\ i \in DOMAIN deals /\ deals[i] \in Deal /\ r.frame \in DealFrames
           /\ Takes(deals[i], r.frame, r.ts)
           /\ deals' \in Seq(Deal) /\ Len(deals') = Len(deals)
           /\ DOMAIN deals' = DOMAIN deals
           /\ \A j \in DOMAIN deals : j # i => deals'[j] = deals[j]
           /\ deals'[i] = recordLedgerSequence(After(deals[i], r.frame), r.frame.type, r.seq)
           /\ deals'[i].offer = After(deals[i], r.frame).offer
           /\ deals'[i].status = After(deals[i], r.frame).status
           /\ deals'[i].contractId = After(deals[i], r.frame).contractId
           /\ deals'[i].rail = After(deals[i], r.frame).rail
<1> DEFINE new == recordLedgerSequence(After(deals[i], r.frame), r.frame.type, r.seq)
<1>1. deals \in Seq(Deal) /\ Len(deals) \in Nat /\ DOMAIN deals = 1..Len(deals)
    BY DEF TypeOK
<1>2. i \in DOMAIN deals BY <1>1 DEF TakesDeal
<1>3. deals[i] \in Deal BY <1>1, <1>2
<1>4. r.frame \in DealFrames BY DealFrame DEF Record, TakesDeal, WellFormed
<1>5. After(deals[i], r.frame) \in Deal BY <1>3, <1>4, AfterType
<1>6. r.seq \in Nat BY DEF Record
<1>7. /\ new \in Deal
      /\ new.offer = After(deals[i], r.frame).offer
      /\ new.status = After(deals[i], r.frame).status
      /\ new.contractId = After(deals[i], r.frame).contractId
      /\ new.rail = After(deals[i], r.frame).rail
    BY <1>5, <1>6, RecordedType
<1>8. deals' = [deals EXCEPT ![i] = new] BY <1>1, <1>2 DEF ChangeDeal
<1> HIDE DEF new
<1>9. deals'[i] = new /\ \A j \in DOMAIN deals : j # i => deals'[j] = deals[j]
    BY <1>1, <1>2, <1>8
<1>10. deals' \in Seq(Deal) /\ Len(deals') = Len(deals) /\ DOMAIN deals' = DOMAIN deals
    BY <1>1, <1>2, <1>7, <1>8
<1>11. Takes(deals[i], r.frame, r.ts) BY DEF TakesDeal
<1> QED BY <1>2, <1>3, <1>4, <1>7, <1>9, <1>10, <1>11 DEF new

\* The contract under which an accepted deal is found.
LEMMA ChangeIndex ==
    ASSUME TypeOK, Registered, NEW r \in Record, NEW i \in 0..Len(deals),
           TakesDeal(r, i), ChangeDeal(r, i)
    PROVE  /\ byOffer' = byOffer
           /\ \/ byContract' = byContract
              \/ /\ deals'[i].contractId \in Contracts
                 /\ byContract' = [byContract EXCEPT ![deals'[i].contractId] = i]
           /\ Bound(deals'[i])
           /\ deals'[i].offer = deals[i].offer
           /\ deals[i].contractId # NoContract => deals'[i].contractId = deals[i].contractId
<1>1. /\ i \in DOMAIN deals /\ deals[i] \in Deal /\ r.frame \in DealFrames
      /\ Takes(deals[i], r.frame, r.ts)
      /\ deals'[i].offer = After(deals[i], r.frame).offer
      /\ deals'[i].status = After(deals[i], r.frame).status
      /\ deals'[i].contractId = After(deals[i], r.frame).contractId
    BY ChangeEffect
<1>2. Bound(deals[i]) BY <1>1 DEF Registered
<1>3. r.ts \in Nat BY DEF Record
<1>4. /\ Bound(After(deals[i], r.frame))
      /\ After(deals[i], r.frame).offer = deals[i].offer
      /\ deals[i].contractId # NoContract =>
            After(deals[i], r.frame).contractId = deals[i].contractId
      /\ r.frame.type = "accept" => After(deals[i], r.frame).contractId = r.frame.contract
    BY <1>1, <1>2, <1>3, AfterBound
<1>5. Bound(deals'[i]) BY <1>1, <1>4 DEF Bound
<1>6. CASE r.frame.type = "accept"
    <2>1. r.frame.contract \in Contracts BY <1>1, <1>6, FrameKinds DEF AcceptFrames
    <2>2. byContract' = [byContract EXCEPT ![deals'[i].contractId] = i]
        BY <1>6 DEF ChangeDeal
    <2>3. byOffer' = byOffer BY DEF ChangeDeal
    <2> QED BY <1>1, <1>4, <1>5, <1>6, <2>1, <2>2, <2>3
<1>7. CASE r.frame.type # "accept"
    BY <1>1, <1>4, <1>5, <1>7 DEF ChangeDeal
<1> QED BY <1>6, <1>7

\* What an offer changes: there is one deal more, found under the offer.
LEMMA AddEffect ==
    ASSUME TypeOK, NEW r \in Record, OffersDeal(r), AddDeal(r)
    PROVE  /\ r.frame.id \in Offers
           /\ deals' \in Seq(Deal) /\ Len(deals') = Len(deals) + 1
           /\ DOMAIN deals' = 1..(Len(deals) + 1)
           /\ \A j \in DOMAIN deals : deals'[j] = deals[j]
           /\ deals'[Len(deals) + 1].offer = r.frame.id
           /\ deals'[Len(deals) + 1].status = "OFFERED"
           /\ deals'[Len(deals) + 1].contractId = NoContract
           /\ deals'[Len(deals) + 1].rail = NoRail
           /\ byOffer' = [byOffer EXCEPT ![r.frame.id] = Len(deals) + 1]
           /\ byContract' = byContract
<1> DEFINE new == recordLedgerSequence(NewDeal(r.frame.offer), "offer", r.seq)
<1>1. deals \in Seq(Deal) /\ Len(deals) \in Nat /\ DOMAIN deals = 1..Len(deals)
    BY DEF TypeOK
<1>2. r.frame \in Frames /\ r.seq \in Nat BY DEF Record
<1>3. r.frame \in OfferFrames
    BY <1>2 DEF OffersDeal, Frames, OtherFrames, DealFrames, AcceptFrames, LockFrames,
       RevealFrames, RefundFrames, CancelFrames, ReceiptFrames
<1>4. r.frame.offer \in Offers /\ r.frame.id \in Offers /\ r.frame.offer = r.frame.id
    BY <1>3 DEF OfferFrames, OffersDeal
<1>5. NewDeal(r.frame.offer) \in Deal BY <1>4, NewDealType
<1>6. /\ new \in Deal
      /\ new.offer = NewDeal(r.frame.offer).offer
      /\ new.status = NewDeal(r.frame.offer).status
      /\ new.contractId = NewDeal(r.frame.offer).contractId
      /\ new.rail = NewDeal(r.frame.offer).rail
    BY <1>2, <1>5, RecordedType
<1>7. new.offer = r.frame.id /\ new.status = "OFFERED" /\ new.contractId = NoContract
      /\ new.rail = NoRail
    BY <1>4, <1>6 DEF NewDeal
<1>8. deals' = Append(deals, new) BY DEF AddDeal
<1> HIDE DEF new
<1>9. /\ deals' \in Seq(Deal) /\ Len(deals') = Len(deals) + 1
      /\ DOMAIN deals' = 1..(Len(deals) + 1)
      /\ \A j \in DOMAIN deals : deals'[j] = deals[j]
      /\ deals'[Len(deals) + 1] = new
    BY <1>1, <1>6, <1>8
<1> QED BY <1>4, <1>7, <1>9 DEF AddDeal

\* Ingesting a record keeps the adapter's types and every deal registered.
LEMMA IngestedKeeps ==
    ASSUME TypeOK, Registered, NEW r \in Record, NEW i \in 0..Len(deals), Ingested(r, i)
    PROVE  /\ deals' \in Seq(Deal) /\ Len(deals') \in Nat /\ Len(deals') >= Len(deals)
           /\ byOffer' \in [Offers -> 0..Len(deals')]
           /\ byContract' \in [Contracts -> 0..Len(deals')]
           /\ seen' \subseteq Nat \X Nat
           /\ Registered'
<1>1. /\ deals \in Seq(Deal) /\ Len(deals) \in Nat /\ DOMAIN deals = 1..Len(deals)
      /\ byOffer \in [Offers -> 0..Len(deals)]
      /\ byContract \in [Contracts -> 0..Len(deals)]
      /\ seen \subseteq Nat \X Nat
    BY DEF TypeOK
<1>2. seen' \subseteq Nat \X Nat BY <1>1 DEF Ingested, Remember, Key, Record
<1>3. /\ \A c \in Contracts : byContract[c] # 0 => deals[byContract[c]].contractId = c
      /\ \A o \in Offers : byOffer[o] # 0 => deals[byOffer[o]].offer = o
      /\ \A j \in DOMAIN deals : Bound(deals[j])
    BY DEF Registered
<1>4. CASE OffersDeal(r) /\ AddDeal(r)
    <2> PICK n \in Nat : n = Len(deals) BY <1>1
    <2>1. /\ r.frame.id \in Offers
          /\ deals' \in Seq(Deal) /\ Len(deals') = n + 1 /\ DOMAIN deals' = 1..(n + 1)
          /\ \A j \in DOMAIN deals : deals'[j] = deals[j]
          /\ deals'[n + 1].offer = r.frame.id
          /\ deals'[n + 1].status = "OFFERED"
          /\ deals'[n + 1].contractId = NoContract
          /\ byOffer' = [byOffer EXCEPT ![r.frame.id] = n + 1]
          /\ byContract' = byContract
        BY <1>4, AddEffect
    <2>2. byOffer \in [Offers -> 0..n] /\ byContract \in [Contracts -> 0..n]
          /\ DOMAIN deals = 1..n
        BY <1>1
    <2>3. byOffer' \in [Offers -> 0..(n + 1)] BY <2>1, <2>2
    <2>4. byContract' \in [Contracts -> 0..(n + 1)] BY <2>1, <2>2
    <2>5. \A c \in Contracts : byContract'[c] # 0 => deals'[byContract'[c]].contractId = c
        BY <1>3, <2>1, <2>2
    <2>6. \A o \in Offers : byOffer'[o] # 0 => deals'[byOffer'[o]].offer = o
        <3> TAKE o \in Offers
        <3>1. CASE o = r.frame.id BY <2>1, <2>2, <3>1
        <3>2. CASE o # r.frame.id
            <4>1. byOffer'[o] = byOffer[o] BY <2>1, <2>2, <3>2
            <4> QED BY <1>3, <2>1, <2>2, <4>1
        <3> QED BY <3>1, <3>2
    <2>7. Bound(deals'[n + 1]) BY <2>1 DEF Bound
    <2>8. \A j \in DOMAIN deals' : Bound(deals'[j])
        <3> TAKE j \in DOMAIN deals'
        <3>1. j = n + 1 \/ j \in DOMAIN deals BY <2>1, <2>2
        <3> QED BY <1>3, <2>1, <2>7, <3>1
    <2>9. Registered' BY <2>5, <2>6, <2>8 DEF Registered
    <2> QED BY <1>2, <2>1, <2>3, <2>4, <2>9
<1>5. CASE TakesDeal(r, i) /\ ChangeDeal(r, i)
    <2>1. /\ i \in DOMAIN deals
          /\ deals' \in Seq(Deal) /\ Len(deals') = Len(deals) /\ DOMAIN deals' = DOMAIN deals
          /\ \A j \in DOMAIN deals : j # i => deals'[j] = deals[j]
        BY <1>5, ChangeEffect
    <2>2. /\ byOffer' = byOffer
          /\ \/ byContract' = byContract
             \/ /\ deals'[i].contractId \in Contracts
                /\ byContract' = [byContract EXCEPT ![deals'[i].contractId] = i]
          /\ Bound(deals'[i])
          /\ deals'[i].offer = deals[i].offer
          /\ deals[i].contractId # NoContract => deals'[i].contractId = deals[i].contractId
        BY <1>5, ChangeIndex
    <2>3. byContract' \in [Contracts -> 0..Len(deals')] BY <1>1, <2>1, <2>2
    <2>4. ASSUME NEW c \in Contracts, byContract'[c] # 0
          PROVE  deals'[byContract'[c]].contractId = c
        <3>1. CASE byContract'[c] = byContract[c]
            <4>1. byContract[c] \in DOMAIN deals BY <1>1, <2>4, <3>1
            <4>2. deals[byContract[c]].contractId = c BY <1>3, <2>4, <3>1
            <4>3. c # NoContract BY DealAssumption DEF Contracts
            <4> QED BY <2>1, <2>2, <3>1, <4>1, <4>2, <4>3
        <3>2. CASE byContract'[c] # byContract[c]
            <4>1. c = deals'[i].contractId /\ byContract'[c] = i BY <1>1, <2>2, <3>2
            <4> QED BY <4>1
        <3> QED BY <3>1, <3>2
    <2>5. \A o \in Offers : byOffer'[o] # 0 => deals'[byOffer'[o]].offer = o
        <3> TAKE o \in Offers
        <3>1. byOffer[o] # 0 => byOffer[o] \in DOMAIN deals BY <1>1
        <3> QED BY <1>3, <2>1, <2>2, <3>1
    <2>6. \A j \in DOMAIN deals' : Bound(deals'[j]) BY <1>3, <2>1, <2>2
    <2>7. Registered' BY <2>4, <2>5, <2>6 DEF Registered
    <2> QED BY <1>1, <1>2, <2>1, <2>2, <2>3, <2>7
<1>6. CASE Ignored(r) /\ UNCHANGED <<deals, byOffer, byContract>>
    <2>1. Registered' BY <1>6 DEF Registered
    <2> QED BY <1>1, <1>2, <1>6, <2>1
<1> QED BY <1>4, <1>5, <1>6 DEF Ingested

-----------------------------------------------------------------------------
(* One step *)

\* The record sync() is at is in the room.
LEMMA CurrentType ==
    ASSUME TypeOK, sync.pc # "idle"
    PROVE  Current \in Record
<1>1. room \in Seq(Record) /\ Len(room) \in Nat BY DEF TypeOK
<1>2. sync.next \in 1..sync.upto /\ sync.upto <= Len(room) /\ sync.upto \in Nat
    BY DEF TypeOK, Sync
<1>3. sync.next \in 1..Len(room) BY <1>1, <1>2
<1> QED BY <1>1, <1>3 DEF Current

\* Going on to the next record, sync() stays within the transcript it fetched.
LEMMA AdvanceType ==
    ASSUME TypeOK, sync.pc # "idle", Advance
    PROVE  /\ sync' \in Sync
           /\ sync'.pc # "idle" => sync'.next \in 1..sync'.upto /\ sync'.upto = sync.upto
           /\ sync'.deal = 0 /\ sync'.pc # "resolver"
<1>1. sync \in Sync /\ sync.next \in 1..sync.upto /\ sync.upto \in Nat /\ sync.next \in Nat
    BY DEF TypeOK, Sync
<1>2. CASE sync.next = sync.upto BY <1>2 DEF Advance, NoSync, Sync
<1>3. CASE sync.next # sync.upto
    <2>1. sync' = [sync EXCEPT !.pc = "records", !.next = sync.next + 1, !.deal = 0]
        BY <1>3 DEF Advance
    <2>2. sync.next + 1 \in 1..sync.upto /\ sync.next + 1 \in Nat BY <1>1, <1>3
    <2>3. /\ sync'.pc = "records" /\ sync'.upto = sync.upto
          /\ sync'.next = sync.next + 1 /\ sync'.deal = 0
        BY <1>1, <2>1 DEF Sync
    <2>4. sync' \in Sync BY <1>1, <2>1, <2>2 DEF Sync
    <2> QED BY <2>2, <2>3, <2>4
<1> QED BY <1>2, <1>3

\* What sync() does keeps the invariant.
LEMMA SyncStep ==
    ASSUME TypeOK, Registered, Fetch \/ Skip \/ Resolve \/ Ingest \/ Abort
    PROVE  TypeOK' /\ Registered'
<1>0. room \in Seq(Record) /\ Len(room) \in Nat /\ Len(deals) \in Nat /\ sync \in Sync
    BY DEF TypeOK
<1>1. CASE Fetch
    <2>1. Len(room) # 0 BY <1>0, <1>1 DEF Fetch
    <2>2. sync' \in Sync /\ sync'.next \in 1..sync'.upto /\ sync'.upto = Len(room)
          /\ sync'.deal = 0 /\ sync'.pc = "records"
        BY <1>0, <1>1, <2>1 DEF Fetch, Sync
    <2>3. UNCHANGED <<room, deals, byOffer, byContract, seen, own, now>>
        BY <1>1 DEF Fetch, adapter
    <2>4. TypeOK' BY <1>0, <2>2, <2>3 DEF TypeOK
    <2>5. Registered' BY <2>3 DEF Registered
    <2> QED BY <2>4, <2>5
<1>2. CASE Skip
    <2>1. sync.pc # "idle" /\ Advance /\ UNCHANGED <<room, deals, byOffer, byContract, seen, own, now>>
        BY <1>2 DEF Skip, adapter
    <2>2. /\ sync' \in Sync
          /\ sync'.pc # "idle" => sync'.next \in 1..sync'.upto /\ sync'.upto = sync.upto
          /\ sync'.deal = 0 /\ sync'.pc # "resolver"
        BY <2>1, AdvanceType
    <2>3. TypeOK' BY <1>0, <2>1, <2>2 DEF TypeOK
    <2>4. Registered' BY <2>1 DEF Registered
    <2> QED BY <2>3, <2>4
<1>3. CASE Resolve
    <2>1. /\ sync.pc = "records"
          /\ WellFormed(Current) /\ Current.frame.type = "accept"
          /\ byOffer[Current.frame.ref] # 0
          /\ sync' = [sync EXCEPT !.pc = "resolver", !.deal = byOffer[Current.frame.ref]]
          /\ UNCHANGED <<room, deals, byOffer, byContract, seen, own, now>>
        BY <1>3 DEF Resolve, adapter
    <2>2. Current \in Record BY <2>1, CurrentType
    <2>3. Current.frame \in DealFrames BY <2>1, <2>2, DealFrame DEF Record
    <2>4. Current.frame.ref \in Offers BY <2>1, <2>3, FrameKinds DEF AcceptFrames
    <2>5. byOffer[Current.frame.ref] \in 0..Len(deals) BY <2>4 DEF TypeOK
    <2> PICK n \in 0..Len(deals) : n = byOffer[Current.frame.ref] BY <2>5
    <2>6. sync' \in Sync /\ sync'.deal = byOffer[Current.frame.ref]
          /\ sync'.next = sync.next /\ sync'.upto = sync.upto
        <3>1. sync' = [sync EXCEPT !.pc = "resolver", !.deal = n] BY <2>1
        <3>2. n \in Nat BY <1>0
        <3> QED BY <1>0, <3>1, <3>2 DEF Sync
    <2>7. TypeOK' BY <1>0, <2>1, <2>5, <2>6 DEF TypeOK
    <2>8. Registered' BY <2>1 DEF Registered
    <2> QED BY <2>7, <2>8
<1>4. CASE Ingest
    <2>1. PICK i \in 0..Len(deals) : Ready(i) /\ Ingested(Current, i)
        BY <1>4 DEF Ingest
    <2>2. sync.pc # "idle" /\ Advance /\ UNCHANGED <<room, own, now>>
        BY <1>4, <2>1 DEF Ingest, Ready
    <2>3. Current \in Record BY <2>2, CurrentType
    <2>4. /\ sync' \in Sync
          /\ sync'.pc # "idle" => sync'.next \in 1..sync'.upto /\ sync'.upto = sync.upto
          /\ sync'.deal = 0 /\ sync'.pc # "resolver"
        BY <2>2, AdvanceType
    <2>5. /\ deals' \in Seq(Deal) /\ Len(deals') \in Nat
          /\ byOffer' \in [Offers -> 0..Len(deals')]
          /\ byContract' \in [Contracts -> 0..Len(deals')]
          /\ seen' \subseteq Nat \X Nat
          /\ Registered'
        BY <2>1, <2>3, IngestedKeeps
    <2>6. TypeOK' BY <1>0, <2>2, <2>4, <2>5 DEF TypeOK
    <2> QED BY <2>5, <2>6
<1>5. CASE Abort
    <2>1. sync' = NoSync /\ UNCHANGED <<room, deals, byOffer, byContract, seen, own, now>>
        BY <1>5 DEF Abort, adapter
    <2>2. TypeOK' BY <1>0, <2>1 DEF TypeOK, NoSync, Sync
    <2>3. Registered' BY <2>1 DEF Registered
    <2> QED BY <2>2, <2>3
<1> QED BY <1>1, <1>2, <1>3, <1>4, <1>5

\* A message that may be sent becomes a record.
LEMMA SentType ==
    ASSUME TypeOK, NEW p \in Posts
    PROVE  Sent(p) \in Record
<1>1. p \in [from : Dids, nonce : Nat, frame : Frames] BY RoomAssumption
<1>2. Len(room) + 1 \in Nat /\ now \in Nat BY DEF TypeOK
<1> QED BY <1>1, <1>2 DEF Sent, Record

\* What is sent, and what the wallet makes of its own record, keeps the invariant.
LEMMA SendStep ==
    ASSUME TypeOK, Registered,
           (\E p \in Posts : Post(p) \/ Send(p)) \/ IngestOwn \/ LoseAnswer
    PROVE  TypeOK' /\ Registered'
<1>0. room \in Seq(Record) /\ Len(room) \in Nat /\ Len(deals) \in Nat /\ sync \in Sync
    BY DEF TypeOK
<1>1. ASSUME NEW p \in Posts, Post(p) \/ Send(p) PROVE TypeOK' /\ Registered'
    <2>1. Sent(p) \in Record BY SentType
    <2>2. room' = Append(room, Sent(p)) /\ UNCHANGED <<deals, byOffer, byContract, seen, sync, now>>
        BY <1>1 DEF Post, Send, adapter
    <2>3. room' \in Seq(Record) /\ Len(room') = Len(room) + 1 BY <1>0, <2>1, <2>2
    <2>4. own' \in Record \cup {NoRecord}
        <3>1. CASE Post(p) BY <3>1 DEF Post, TypeOK
        <3>2. CASE Send(p)
            <4>1. own' = IF Http THEN [Sent(p) EXCEPT !.seq = 0] ELSE Sent(p)
                BY <3>2 DEF Send
            <4>2. [Sent(p) EXCEPT !.seq = 0] \in Record BY <2>1 DEF Record
            <4> QED BY <2>1, <4>1, <4>2
        <3> QED BY <1>1, <3>1, <3>2
    <2>5. sync.pc # "idle" => sync.upto <= Len(room')
        BY <1>0, <2>3 DEF TypeOK, Sync
    <2>6. TypeOK' BY <2>2, <2>3, <2>4, <2>5 DEF TypeOK
    <2>7. Registered' BY <2>2 DEF Registered
    <2> QED BY <2>6, <2>7
<1>2. CASE IngestOwn
    <2>1. own # NoRecord /\ own' = NoRecord /\ UNCHANGED <<room, sync, now>>
        BY <1>2 DEF IngestOwn
    <2>2. own \in Record BY <2>1 DEF TypeOK
    <2>3. TargetOf(own) \in 0..Len(deals) BY <2>2, TargetType
    <2>4. Ingested(own, TargetOf(own)) \/ UNCHANGED <<deals, byOffer, byContract, seen>>
        BY <1>2 DEF IngestOwn, adapter
    <2>5. /\ deals' \in Seq(Deal) /\ Len(deals') \in Nat /\ Len(deals') >= Len(deals)
          /\ byOffer' \in [Offers -> 0..Len(deals')]
          /\ byContract' \in [Contracts -> 0..Len(deals')]
          /\ seen' \subseteq Nat \X Nat
          /\ Registered'
        <3>1. CASE Ingested(own, TargetOf(own)) BY <2>2, <2>3, <3>1, IngestedKeeps
        <3>2. CASE UNCHANGED <<deals, byOffer, byContract, seen>>
            <4>1. Registered' BY <3>2 DEF Registered
            <4> QED BY <1>0, <3>2, <4>1 DEF TypeOK
        <3> QED BY <2>4, <3>1, <3>2
    <2>6. sync.deal \in 0..Len(deals') BY <1>0, <2>5 DEF TypeOK
    <2>7. TypeOK' BY <2>1, <2>5, <2>6 DEF TypeOK
    <2> QED BY <2>5, <2>7
<1>3. CASE LoseAnswer
    <2>1. own' = NoRecord /\ UNCHANGED <<room, deals, byOffer, byContract, seen, sync, now>>
        BY <1>3 DEF LoseAnswer, adapter
    <2>2. TypeOK' BY <2>1 DEF TypeOK
    <2>3. Registered' BY <2>1 DEF Registered
    <2> QED BY <2>2, <2>3
<1> QED BY <1>1, <1>2, <1>3

\* What the application calls on a deal, and time, keep the invariant.
LEMMA AppStep ==
    ASSUME TypeOK, Registered,
           \/ \E i \in DOMAIN deals : Verify(i) \/ Claim(i) \/ Refund(i) \/ Cancel(i)
           \/ Tick
    PROVE  TypeOK' /\ Registered'
<1>0. deals \in Seq(Deal) /\ Len(deals) \in Nat /\ DOMAIN deals = 1..Len(deals)
    BY DEF TypeOK
<1>1. ASSUME NEW i \in DOMAIN deals, NEW d, AppChange(i, d), d \in Deal,
             d.offer = deals[i].offer, d.contractId = deals[i].contractId, Bound(d)
      PROVE  TypeOK' /\ Registered'
    <2>1. deals' = [deals EXCEPT ![i] = d]
          /\ UNCHANGED <<room, byOffer, byContract, seen, sync, own, now>>
        BY <1>1 DEF AppChange
    <2>2. deals' \in Seq(Deal) /\ Len(deals') = Len(deals) /\ DOMAIN deals' = DOMAIN deals
        BY <1>0, <1>1, <2>1
    <2>3. deals'[i] = d /\ \A j \in DOMAIN deals : j # i => deals'[j] = deals[j]
        BY <1>0, <2>1
    <2>4. TypeOK' BY <2>1, <2>2 DEF TypeOK
    <2>5. /\ \A c \in Contracts : byContract[c] # 0 => byContract[c] \in DOMAIN deals
          /\ \A o \in Offers : byOffer[o] # 0 => byOffer[o] \in DOMAIN deals
        BY <1>0 DEF TypeOK
    <2>6. Registered' BY <1>1, <2>1, <2>2, <2>3, <2>5 DEF Registered
    <2> QED BY <2>4, <2>6
<1>2. ASSUME NEW i \in DOMAIN deals, Verify(i) \/ Claim(i) \/ Refund(i) \/ Cancel(i)
      PROVE  TypeOK' /\ Registered'
    <2>1. deals[i] \in Deal /\ Bound(deals[i]) BY <1>0 DEF Registered
    <2>2. CASE Verify(i)
        <3>1. CanVerify(deals[i], deals[i].contractId) /\ AppChange(i, markVerified(deals[i]))
            BY <2>2 DEF Verify
        <3>2. markVerified(deals[i]) \in Deal /\ Bound(markVerified(deals[i]))
              /\ markVerified(deals[i]).offer = deals[i].offer
              /\ markVerified(deals[i]).contractId = deals[i].contractId
            BY <2>1, <3>1 DEF CanVerify, markVerified, Bound, Deal, DealStatus
        <3> QED BY <1>1, <3>1, <3>2
    <2>3. CASE Claim(i)
        <3>1. CanClaim(deals[i]) /\ AppChange(i, applyClaim(deals[i])) BY <2>3 DEF Claim
        <3>2. applyClaim(deals[i]) \in Deal /\ Bound(applyClaim(deals[i]))
              /\ applyClaim(deals[i]).offer = deals[i].offer
              /\ applyClaim(deals[i]).contractId = deals[i].contractId
            BY <2>1, <3>1 DEF CanClaim, applyClaim, Bound, Deal, DealStatus
        <3> QED BY <1>1, <3>1, <3>2
    <2>4. CASE Refund(i)
        <3>1. CanRefund(deals[i], PayerOf(deals[i]), now) /\ AppChange(i, applyRefund(deals[i]))
            BY <2>4 DEF Refund
        <3>2. applyRefund(deals[i]) \in Deal /\ Bound(applyRefund(deals[i]))
              /\ applyRefund(deals[i]).offer = deals[i].offer
              /\ applyRefund(deals[i]).contractId = deals[i].contractId
            BY <2>1, <3>1 DEF CanRefund, applyRefund, Bound, Deal, DealStatus
        <3> QED BY <1>1, <3>1, <3>2
    <2>5. CASE Cancel(i)
        <3>1. CanCancel(deals[i], Me) /\ AppChange(i, applyCancel(deals[i])) BY <2>5 DEF Cancel
        <3>2. applyCancel(deals[i]) \in Deal /\ Bound(applyCancel(deals[i]))
              /\ applyCancel(deals[i]).offer = deals[i].offer
              /\ applyCancel(deals[i]).contractId = deals[i].contractId
            BY <2>1, <3>1 DEF applyCancel, Bound, Deal, DealStatus
        <3> QED BY <1>1, <3>1, <3>2
    <2> QED BY <1>2, <2>2, <2>3, <2>4, <2>5
<1>3. CASE Tick
    <2>1. now' \in Nat BY <1>3 DEF Tick, TypeOK
    <2>2. UNCHANGED <<room, deals, byOffer, byContract, seen, sync, own>>
        BY <1>3 DEF Tick, adapter
    <2>3. TypeOK' BY <2>1, <2>2 DEF TypeOK
    <2>4. Registered' BY <2>2 DEF Registered
    <2> QED BY <2>3, <2>4
<1> QED BY <1>2, <1>3

-----------------------------------------------------------------------------
\* The adapter starts empty.
LEMMA RoomInit == Init => TypeOK /\ Registered
<1> SUFFICES ASSUME Init PROVE TypeOK /\ Registered OBVIOUS
<1>1. room = << >> /\ deals = << >> /\ seen = {} /\ sync = NoSync /\ own = NoRecord /\ now = 0
      /\ byOffer = [o \in Offers |-> 0] /\ byContract = [c \in Contracts |-> 0]
    BY DEF Init
<1>2. Len(deals) = 0 /\ DOMAIN deals = {} /\ deals \in Seq(Deal) BY <1>1
<1>3. TypeOK BY <1>1, <1>2 DEF TypeOK, NoSync, Sync
<1>4. Registered BY <1>1, <1>2 DEF Registered
<1> QED BY <1>3, <1>4

\* No step takes the adapter out of the invariant.
LEMMA RoomNext == TypeOK /\ Registered /\ [Next]_vars => TypeOK' /\ Registered'
<1> SUFFICES ASSUME TypeOK, Registered, [Next]_vars PROVE TypeOK' /\ Registered' OBVIOUS
<1>1. CASE \E p \in Posts : Post(p) \/ Send(p) BY <1>1, SendStep
<1>2. CASE Fetch \/ Skip \/ Resolve \/ Ingest \/ Abort BY <1>2, SyncStep
<1>3. CASE IngestOwn \/ LoseAnswer BY <1>3, SendStep
<1>4. CASE (\E i \in DOMAIN deals : Verify(i) \/ Claim(i) \/ Refund(i) \/ Cancel(i)) \/ Tick
    BY <1>4, AppStep
<1>5. CASE UNCHANGED vars
    <2>1. UNCHANGED <<room, deals, byOffer, byContract, seen, sync, own, now>> BY <1>5 DEF vars
    <2> QED BY <2>1 DEF TypeOK, Registered
<1> QED BY <1>1, <1>2, <1>3, <1>4, <1>5 DEF Next

\* The adapter's state has its types, and every index points at what it should,
\* for any number of members, offers and messages and any length of transcript.
THEOREM RoomTypeCorrect == Spec => []TypeOK
<1>1. Init => TypeOK /\ Registered BY RoomInit
<1>2. TypeOK /\ Registered /\ [Next]_vars => (TypeOK /\ Registered)' BY RoomNext
<1> QED BY <1>1, <1>2, PTL DEF Spec

\* RoomDealAdapter's two maps stay true of the deals they lead to, whichever
\* records interleave with the resolver's answer and the wallet's own sends.
THEOREM RegisteredAlways == Spec => []Registered
<1>1. Init => TypeOK /\ Registered BY RoomInit
<1>2. TypeOK /\ Registered /\ [Next]_vars => (TypeOK /\ Registered)' BY RoomNext
<1> QED BY <1>1, <1>2, PTL DEF Spec

-----------------------------------------------------------------------------
(* The evidence in the room *)

\* Evidence stays when records are added and time passes, and is only about a
\* deal's offer, contract, status and rail.
LEMMA BackedStays ==
    ASSUME NEW d \in Deal, NEW e \in Deal, NEW R, NEW R2, NEW t \in Nat, NEW t2 \in Nat,
           BackedBy(d, R, t), R \subseteq R2, t <= t2,
           e.offer = d.offer, e.contractId = d.contractId, e.status = d.status,
           e.rail = d.rail
    PROVE  BackedBy(e, R2, t2)
<1>1. d.offer.refundAfterMs \in Nat BY DealAssumption DEF Deal, Offer
<1>2. e.status = "REFUNDED" => t2 >= e.offer.refundAfterMs BY <1>1 DEF BackedBy
<1>3. /\ e.contractId # NoContract => \E r \in R2 : Accepts(r, e.contractId)
      /\ e.status \in {"LOCKED", "VERIFIED", "REVEALED", "CLAIMED", "REFUNDED"} =>
            \E r \in R2 : Locks(r, e.contractId)
      /\ e.status \in {"REVEALED", "CLAIMED"} => \E r \in R2 : Reveals(r, e.contractId)
      /\ e.status \in {"OFFERED", "ACCEPTED", "CANCELLED"} => e.rail = NoRail
    BY DEF BackedBy
<1> QED BY <1>2, <1>3 DEF BackedBy

\* A taken record is the evidence of what it does.
LEMMA AfterBacked ==
    ASSUME NEW d \in Deal, NEW r \in Record, NEW R, NEW t \in Nat,
           NEW q \in R, q.from = r.from, q.frame = r.frame, q.ts = r.ts, r.ts <= t,
           r.frame \in DealFrames, r.frame.from = r.from,
           r.frame.type = "reveal" => r.frame.contract = d.contractId,
           Takes(d, r.frame, r.ts), Bound(d), BackedBy(d, R, t)
    PROVE  BackedBy(After(d, r.frame), R, t)
<1> DEFINE f == r.frame
<1>0. /\ d.contractId # NoContract => \E x \in R : Accepts(x, d.contractId)
      /\ d.status \in {"LOCKED", "VERIFIED", "REVEALED", "CLAIMED", "REFUNDED"} =>
            \E x \in R : Locks(x, d.contractId)
      /\ d.status \in {"REVEALED", "CLAIMED"} => \E x \in R : Reveals(x, d.contractId)
      /\ d.status = "REFUNDED" => t >= d.offer.refundAfterMs
      /\ d.status \in {"OFFERED", "ACCEPTED", "CANCELLED"} => d.rail = NoRail
    BY DEF BackedBy
<1>1. CASE f.type = "accept"
    <2>1. After(d, f) = applyAccept(d, f) /\ CanAccept(d, f, r.ts)
        BY <1>1 DEF After, Takes
    <2>2. /\ applyAccept(d, f).contractId = f.contract
          /\ applyAccept(d, f).status = "ACCEPTED"
          /\ applyAccept(d, f).rail = d.rail
        BY DEF applyAccept, Deal
    <2>3. d.rail = NoRail BY <1>0, <2>1 DEF CanAccept
    <2>4. \E x \in R : Accepts(x, f.contract)
        <3>1. CASE d.status = "ACCEPTED" /\ d.contractId = f.contract
            BY <1>0, <3>1 DEF Bound
        <3>2. CASE /\ r.ts < d.offer.expiresMs
                   /\ f.contract = [offer |-> d.offer, from |-> f.from,
                                    statement |-> f.statement]
            <4>1. f.contract.offer = d.offer /\ f.contract.from = f.from BY <3>2
            <4>2. Accepts(q, f.contract) BY <1>1, <3>2, <4>1 DEF Accepts, Says
            <4> QED BY <4>2
        <3> QED BY <2>1, <3>1, <3>2 DEF CanAccept
    <2> QED BY <2>1, <2>2, <2>3, <2>4 DEF BackedBy
<1>2. CASE f.type = "lock"
    <2>1. After(d, f) = applyLock(d, f) /\ CanLock(d, f, r.ts) BY <1>2 DEF After, Takes
    <2>2. /\ applyLock(d, f).contractId = d.contractId
          /\ applyLock(d, f).status = "LOCKED"
        BY DEF applyLock, Deal
    <2>3. d.contractId # NoContract BY <2>1 DEF CanLock, Bound
    <2>4. \E x \in R : Locks(x, d.contractId)
        <3>1. CASE d.status = "LOCKED" BY <1>0, <3>1
        <3>2. CASE d.status # "LOCKED"
            <4>1. Locks(q, d.contractId)
                BY <1>2, <2>1, <2>3, <3>2 DEF CanLock, Bound, PayerOf, Locks, Says
            <4> QED BY <4>1
        <3> QED BY <3>1, <3>2
    <2> QED BY <1>0, <2>1, <2>2, <2>4 DEF BackedBy
<1>3. CASE f.type = "reveal"
    <2>1. After(d, f) = applyReveal(d, f) /\ CanReveal(d, f, r.ts)
        BY <1>3 DEF After, Takes
    <2>2. /\ applyReveal(d, f).contractId = d.contractId
          /\ applyReveal(d, f).status = "REVEALED"
        BY DEF applyReveal, Deal
    <2>3. d.contractId # NoContract /\ d.contractId.offer = d.offer
        BY <2>1 DEF CanReveal, Bound
    <2>4. \E x \in R : Locks(x, d.contractId) BY <1>0, <2>1 DEF CanReveal
    <2>5. \E x \in R : Reveals(x, d.contractId)
        <3>1. CASE d.status = "REVEALED" BY <1>0, <3>1
        <3>2. CASE d.status # "REVEALED"
            <4>1. f.contract = d.contractId BY <1>3
            <4>2. Reveals(q, d.contractId)
                BY <1>3, <2>1, <2>3, <3>2, <4>1 DEF CanReveal, PayeeOf, Reveals, Says
            <4> QED BY <4>2
        <3> QED BY <3>1, <3>2
    <2> QED BY <1>0, <2>1, <2>2, <2>4, <2>5 DEF BackedBy
<1>4. CASE f.type = "refund"
    <2>1. After(d, f) = applyRefund(d) /\ CanRefund(d, f.from, r.ts)
        BY <1>4 DEF After, Takes
    <2>2. /\ applyRefund(d).contractId = d.contractId
          /\ applyRefund(d).status = "REFUNDED"
          /\ applyRefund(d).offer = d.offer
        BY DEF applyRefund, Deal
    <2>3. \E x \in R : Locks(x, d.contractId) BY <1>0, <2>1 DEF CanRefund
    <2>4. d.offer.refundAfterMs \in Nat /\ r.ts \in Nat
        BY DealAssumption DEF Deal, Offer, Record
    <2>5. t >= d.offer.refundAfterMs BY <1>0, <2>1, <2>4 DEF CanRefund
    <2> QED BY <1>0, <2>1, <2>2, <2>3, <2>5 DEF BackedBy
<1>5. CASE f.type = "cancel"
    <2>1. After(d, f) = applyCancel(d) /\ CanCancel(d, f.from) BY <1>5 DEF After, Takes
    <2>2. /\ applyCancel(d).contractId = d.contractId
          /\ applyCancel(d).status = "CANCELLED"
          /\ applyCancel(d).rail = d.rail
        BY DEF applyCancel, Deal
    <2>3. d.rail = NoRail BY <1>0, <2>1 DEF CanCancel
    <2> QED BY <1>0, <2>1, <2>2, <2>3 DEF BackedBy
<1>6. CASE f.type = "receipt"
    <2>1. After(d, f) = applyReceipt(d, f) BY <1>6 DEF After
    <2>2. /\ applyReceipt(d, f).contractId = d.contractId
          /\ applyReceipt(d, f).status = d.status
          /\ applyReceipt(d, f).offer = d.offer
          /\ applyReceipt(d, f).rail = d.rail
        BY DEF applyReceipt, Deal
    <2> QED BY <1>0, <2>1, <2>2 DEF BackedBy
<1> QED BY <1>1, <1>2, <1>3, <1>4, <1>5, <1>6, FrameKinds DEF Stages

\* What the evidence rests on besides: no record is from the future; a record the
\* wallet has yet to ingest is in the room, up to its number; and only an accept
\* makes sync() wait for the resolver.
Grounded == /\ \A r \in Records : r.ts <= now
            /\ own # NoRecord =>
                  \E q \in Records : q.from = own.from /\ q.frame = own.frame /\ q.ts = own.ts
            /\ sync.pc = "resolver" => Current.frame.type = "accept"

RoomInv == TypeOK /\ Registered /\ Grounded /\ Backed

\* Appending to the room adds one record to it and leaves the others in place.
LEMMA RoomGrows ==
    ASSUME TypeOK, NEW r \in Record, room' = Append(room, r)
    PROVE  /\ Records \subseteq Records' /\ r \in Records'
           /\ \A x \in Records' : x \in Records \/ x = r
           /\ \A n \in 1..Len(room) : room'[n] = room[n]
<1>1. room \in Seq(Record) BY DEF TypeOK
<1> PICK k \in Nat : k = Len(room) BY <1>1
<1>2. DOMAIN room = 1..k /\ DOMAIN room' = 1..(k + 1) BY <1>1
<1>3. \A n \in 1..k : room'[n] = room[n] BY <1>1
<1>4. room'[k + 1] = r BY <1>1
<1>5. Records \subseteq Records' BY <1>2, <1>3 DEF Records
<1>6. k + 1 \in DOMAIN room' BY <1>2
<1>7. r \in Records' BY <1>4, <1>6 DEF Records
<1>8. ASSUME NEW n \in DOMAIN room' PROVE room'[n] \in Records \/ room'[n] = r
    <2>1. CASE n = k + 1 BY <1>4, <2>1
    <2>2. CASE n # k + 1
        <3>1. n \in 1..k BY <1>2, <2>2
        <3> QED BY <1>2, <1>3, <3>1 DEF Records
    <2> QED BY <2>1, <2>2
<1>9. \A x \in Records' : x \in Records \/ x = r BY <1>8 DEF Records
<1> QED BY <1>3, <1>5, <1>7, <1>9

\* Backed survives a step that changes no deal.
LEMMA BackedKept ==
    ASSUME TypeOK, now' \in Nat, Backed, deals' = deals, Records \subseteq Records', now <= now'
    PROVE  Backed'
<1>1. \A i \in DOMAIN deals : deals[i] \in Deal BY DEF TypeOK
<1>2. now \in Nat BY DEF TypeOK
<1>3. ASSUME NEW i \in DOMAIN deals PROVE BackedBy(deals[i], Records', now')
    <2>1. BackedBy(deals[i], Records, now) BY DEF Backed
    <2>2. PICK d \in Deal : d = deals[i] BY <1>1
    <2>3. PICK t \in Nat : t = now BY <1>2
    <2>4. PICK t2 \in Nat : t2 = now' OBVIOUS
    <2>5. BackedBy(d, Records', t2)
        BY <2>1, <2>2, <2>3, <2>4, BackedStays
    <2> QED BY <2>2, <2>4, <2>5
<1> QED BY <1>3 DEF Backed

\* A record that sync() or the wallet ingests leaves every deal backed, when it
\* is in the room and about the deal at i.
LEMMA IngestedBacked ==
    ASSUME TypeOK, Registered, Backed, NEW r \in Record, NEW i \in 0..Len(deals),
           NEW q \in Records, q.from = r.from, q.frame = r.frame, q.ts = r.ts, r.ts <= now,
           i = TargetOf(r) \/ r.frame.type = "accept",
           Ingested(r, i), UNCHANGED <<room, now>>
    PROVE  Backed'
<1>1. deals \in Seq(Deal) /\ Len(deals) \in Nat /\ DOMAIN deals = 1..Len(deals) /\ now \in Nat
    BY DEF TypeOK
<1>2. Records' = Records /\ now' = now BY DEF Records
<1>3. \A j \in DOMAIN deals : BackedBy(deals[j], Records, now) BY DEF Backed
<1>4. CASE OffersDeal(r) /\ AddDeal(r)
    <2> PICK n \in Nat : n = Len(deals) BY <1>1
    <2>1. /\ DOMAIN deals' = 1..(n + 1)
          /\ \A j \in DOMAIN deals : deals'[j] = deals[j]
          /\ deals'[n + 1].status = "OFFERED"
          /\ deals'[n + 1].contractId = NoContract
          /\ deals'[n + 1].rail = NoRail
        BY <1>4, AddEffect
    <2>2. BackedBy(deals'[n + 1], Records, now) BY <2>1 DEF BackedBy
    <2>3. \A j \in DOMAIN deals' : j \in DOMAIN deals \/ j = n + 1 BY <1>1, <2>1
    <2> QED BY <1>2, <1>3, <2>1, <2>2, <2>3 DEF Backed
<1>5. CASE TakesDeal(r, i) /\ ChangeDeal(r, i)
    <2>1. /\ i \in DOMAIN deals /\ deals[i] \in Deal /\ r.frame \in DealFrames
          /\ Takes(deals[i], r.frame, r.ts)
          /\ deals' \in Seq(Deal) /\ DOMAIN deals' = DOMAIN deals
          /\ \A j \in DOMAIN deals : j # i => deals'[j] = deals[j]
          /\ deals'[i].offer = After(deals[i], r.frame).offer
          /\ deals'[i].status = After(deals[i], r.frame).status
          /\ deals'[i].contractId = After(deals[i], r.frame).contractId
          /\ deals'[i].rail = After(deals[i], r.frame).rail
        BY <1>5, ChangeEffect
    <2>2. r.frame.from = r.from /\ i # 0 BY <1>5 DEF TakesDeal, WellFormed
    <2>3. r.frame.type = "reveal" => r.frame.contract = deals[i].contractId
        <3> SUFFICES ASSUME r.frame.type = "reveal"
                     PROVE  r.frame.contract = deals[i].contractId
            OBVIOUS
        <3>1. r.frame.contract \in Contracts BY <2>1, FrameKinds DEF RevealFrames
        <3>2. TargetOf(r) = Target(r.frame) BY <1>5 DEF TakesDeal, TargetOf
        <3>3. Target(r.frame) = byContract[r.frame.contract] BY DEF Target
        <3> QED BY <2>2, <3>1, <3>2, <3>3 DEF Registered
    <2>4. Bound(deals[i]) BY <2>1 DEF Registered
    <2>5. BackedBy(deals[i], Records, now) BY <1>3, <2>1
    <2>6. PICK t \in Nat : t = now BY <1>1
    <2>7. BackedBy(After(deals[i], r.frame), Records, t)
        BY <2>1, <2>2, <2>3, <2>4, <2>5, <2>6, AfterBacked
    <2>8. After(deals[i], r.frame) \in Deal /\ deals'[i] \in Deal BY <2>1, AfterType
    <2>9. BackedBy(deals'[i], Records, t)
        BY <2>1, <2>7, <2>8, BackedStays
    <2> QED BY <1>2, <1>3, <2>1, <2>6, <2>9 DEF Backed
<1>6. CASE deals' = deals BY <1>2, <1>3, <1>6 DEF Backed
<1> QED BY <1>4, <1>5, <1>6 DEF Ingested

\* sync() ingests records of the room, each into the deal it is about.
LEMMA SyncBacked ==
    ASSUME RoomInv, TypeOK', Fetch \/ Skip \/ Resolve \/ Ingest \/ Abort
    PROVE  Grounded' /\ Backed'
<1>0. TypeOK /\ Registered /\ Grounded /\ Backed BY DEF RoomInv
<1>1. UNCHANGED <<room, own, now>>
    BY DEF Fetch, Skip, Resolve, Ingest, Abort, adapter
<1>2. Records' = Records /\ now \in Nat BY <1>0, <1>1 DEF Records, TypeOK
<1>3. sync'.pc = "resolver" => Current'.frame.type = "accept"
    <2>1. CASE Fetch BY <2>1 DEF Fetch
    <2>2. CASE Skip \/ Ingest
        <3>1. sync.pc # "idle" /\ Advance BY <2>2 DEF Skip, Ingest, Ready
        <3> QED BY <1>0, <3>1, AdvanceType
    <2>3. CASE Resolve
        <3>1. Current.frame.type = "accept"
              /\ sync' = [sync EXCEPT !.pc = "resolver", !.deal = byOffer[Current.frame.ref]]
            BY <2>3 DEF Resolve
        <3>2. sync \in Sync BY <1>0 DEF TypeOK
        <3>3. sync'.next = sync.next BY <3>1, <3>2 DEF Sync
        <3> QED BY <1>1, <3>1, <3>3 DEF Current
    <2>4. CASE Abort BY <2>4 DEF Abort, NoSync
    <2> QED BY <2>1, <2>2, <2>3, <2>4
<1>4. Grounded'
    <2>1. \A r \in Records' : r.ts <= now' BY <1>0, <1>1, <1>2 DEF Grounded
    <2>2. own' # NoRecord =>
            \E q \in Records' : q.from = own'.from /\ q.frame = own'.frame /\ q.ts = own'.ts
        BY <1>0, <1>1, <1>2 DEF Grounded
    <2> QED BY <1>3, <2>1, <2>2 DEF Grounded
<1>5. Backed'
    <2>1. CASE Ingest
        <3>1. PICK i \in 0..Len(deals) : Ready(i) /\ Ingested(Current, i)
            BY <2>1 DEF Ingest
        <3>2. sync.pc # "idle" BY <3>1 DEF Ready
        <3>3. Current \in Record BY <1>0, <3>2, CurrentType
        <3>4. sync.next \in 1..sync.upto /\ sync.upto <= Len(room) /\ sync.upto \in Nat
              /\ room \in Seq(Record) /\ Len(room) \in Nat
            BY <1>0, <3>2 DEF TypeOK, Sync
        <3>5. sync.next \in DOMAIN room BY <3>4
        <3>6. Current \in Records BY <3>5 DEF Current, Records
        <3>7. Current.ts <= now BY <1>0, <3>6 DEF Grounded
        <3>8. i = TargetOf(Current) \/ Current.frame.type = "accept"
            BY <1>0, <3>1 DEF Ready, Grounded
        <3> QED BY <1>0, <1>1, <3>1, <3>3, <3>6, <3>7, <3>8, IngestedBacked
    <2>2. CASE deals' = deals BY <1>0, <1>1, <1>2, <2>2, BackedKept
    <2> QED BY <2>1, <2>2 DEF Fetch, Skip, Resolve, Abort, adapter
<1> QED BY <1>4, <1>5

\* A sent record is evidence from the moment it is in the room.
LEMMA SendBacked ==
    ASSUME RoomInv, TypeOK',
           (\E p \in Posts : Post(p) \/ Send(p)) \/ IngestOwn \/ LoseAnswer
    PROVE  Grounded' /\ Backed'
<1>0. TypeOK /\ Registered /\ Grounded /\ Backed BY DEF RoomInv
<1>1. now \in Nat /\ room \in Seq(Record) /\ sync \in Sync BY <1>0 DEF TypeOK
<1>2. ASSUME NEW p \in Posts, Post(p) \/ Send(p) PROVE Grounded' /\ Backed'
    <2>1. Sent(p) \in Record BY <1>0, SentType
    <2>2. room' = Append(room, Sent(p)) /\ UNCHANGED <<deals, sync, now>>
        BY <1>2 DEF Post, Send, adapter
    <2>3. /\ Records \subseteq Records' /\ Sent(p) \in Records'
          /\ \A x \in Records' : x \in Records \/ x = Sent(p)
          /\ \A n \in 1..Len(room) : room'[n] = room[n]
        BY <1>0, <2>1, <2>2, RoomGrows
    <2>4. Sent(p).ts = now BY DEF Sent
    <2>5. \A r \in Records' : r.ts <= now'
        BY <1>0, <1>1, <2>2, <2>3, <2>4 DEF Grounded
    <2>6. own' # NoRecord =>
            \E q \in Records' : q.from = own'.from /\ q.frame = own'.frame /\ q.ts = own'.ts
        <3>1. CASE Post(p)
            <4>1. own' = own BY <3>1 DEF Post
            <4> QED BY <1>0, <2>3, <4>1 DEF Grounded
        <3>2. CASE Send(p)
            <4>1. own' = IF Http THEN [Sent(p) EXCEPT !.seq = 0] ELSE Sent(p)
                BY <3>2 DEF Send
            <4>2. /\ own'.from = Sent(p).from /\ own'.frame = Sent(p).frame
                  /\ own'.ts = Sent(p).ts
                BY <2>1, <4>1 DEF Record
            <4> QED BY <2>3, <4>2
        <3> QED BY <1>2, <3>1, <3>2
    <2>7. sync'.pc = "resolver" => Current'.frame.type = "accept"
        <3> SUFFICES ASSUME sync.pc = "resolver" PROVE Current'.frame.type = "accept"
            BY <2>2
        <3>1. sync.next \in 1..sync.upto /\ sync.upto <= Len(room) /\ sync.upto \in Nat
              /\ Len(room) \in Nat
            BY <1>0 DEF TypeOK, Sync
        <3>2. sync.next \in 1..Len(room) BY <3>1
        <3>3. Current' = Current BY <2>2, <2>3, <3>2 DEF Current
        <3> QED BY <1>0, <3>3 DEF Grounded
    <2>8. Backed' BY <1>0, <1>1, <2>2, <2>3, BackedKept
    <2> QED BY <2>5, <2>6, <2>7, <2>8 DEF Grounded
<1>3. CASE IngestOwn \/ LoseAnswer
    <2>1. own' = NoRecord /\ UNCHANGED <<room, sync, now>> BY <1>3 DEF IngestOwn, LoseAnswer
    <2>2. Records' = Records BY <2>1 DEF Records
    <2>3. Current' = Current BY <2>1 DEF Current
    <2>4. Grounded' BY <1>0, <2>1, <2>2, <2>3 DEF Grounded
    <2>5. CASE IngestOwn /\ Ingested(own, TargetOf(own))
        <3>1. own # NoRecord BY <2>5 DEF IngestOwn
        <3>2. own \in Record BY <1>0, <3>1 DEF TypeOK
        <3>3. TargetOf(own) \in 0..Len(deals) BY <1>0, <3>2, TargetType
        <3>4. PICK q \in Records : q.from = own.from /\ q.frame = own.frame /\ q.ts = own.ts
            BY <1>0, <3>1 DEF Grounded
        <3>5. own.ts <= now BY <1>0, <3>4 DEF Grounded
        <3>6. Backed' BY <1>0, <2>1, <2>5, <3>2, <3>3, <3>4, <3>5, IngestedBacked
        <3> QED BY <2>4, <3>6
    <2>6. CASE deals' = deals
        <3>1. Backed' BY <1>0, <1>1, <2>1, <2>2, <2>6, BackedKept
        <3> QED BY <2>4, <3>1
    <2> QED BY <1>3, <2>5, <2>6 DEF IngestOwn, LoseAnswer, adapter
<1> QED BY <1>2, <1>3

\* The application asks a deal for nothing its evidence does not cover.
LEMMA AppBacked ==
    ASSUME RoomInv, TypeOK',
           \/ \E i \in DOMAIN deals : Verify(i) \/ Claim(i) \/ Refund(i) \/ Cancel(i)
           \/ Tick
    PROVE  Grounded' /\ Backed'
<1>0. TypeOK /\ Registered /\ Grounded /\ Backed BY DEF RoomInv
<1>1. now \in Nat /\ deals \in Seq(Deal) BY <1>0 DEF TypeOK
<1>2. UNCHANGED <<room, sync, own>>
    BY DEF Verify, Claim, Refund, Cancel, AppChange, Tick
<1>3. Records' = Records /\ Current' = Current BY <1>2 DEF Records, Current
<1>4. now' \in Nat /\ now <= now'
    BY <1>1 DEF Verify, Claim, Refund, Cancel, AppChange, Tick
<1>5. Grounded'
    <2>1. room \in Seq(Record) BY <1>0 DEF TypeOK
    <2>2. \A n \in DOMAIN room : room[n] \in Record BY <2>1
    <2>3. \A r \in Records : r.ts \in Nat BY <2>2 DEF Records, Record
    <2>4. \A r \in Records' : r.ts <= now' BY <1>0, <1>1, <1>3, <1>4, <2>3 DEF Grounded
    <2> QED BY <1>0, <1>2, <1>3, <2>4 DEF Grounded
<1>6. ASSUME NEW i \in DOMAIN deals, NEW d, AppChange(i, d), BackedBy(d, Records, now)
      PROVE  Backed'
    <2>1. deals' = [deals EXCEPT ![i] = d] /\ now' = now BY <1>6 DEF AppChange
    <2>2. DOMAIN deals' = DOMAIN deals BY <1>1, <2>1
    <2>3. \A j \in DOMAIN deals : deals'[j] = IF j = i THEN d ELSE deals[j] BY <1>1, <2>1
    <2> QED BY <1>0, <1>3, <1>6, <2>1, <2>2, <2>3 DEF Backed
<1>7. ASSUME NEW i \in DOMAIN deals, Verify(i) \/ Claim(i) \/ Refund(i) \/ Cancel(i)
      PROVE  Backed'
    <2>1. deals[i] \in Deal /\ BackedBy(deals[i], Records, now) BY <1>0, <1>1 DEF Backed
    <2>2. CASE Verify(i)
        <3>1. CanVerify(deals[i], deals[i].contractId) /\ AppChange(i, markVerified(deals[i]))
            BY <2>2 DEF Verify
        <3>2. BackedBy(markVerified(deals[i]), Records, now)
            BY <2>1, <3>1 DEF CanVerify, markVerified, BackedBy, Deal
        <3> QED BY <1>6, <3>1, <3>2
    <2>3. CASE Claim(i)
        <3>1. CanClaim(deals[i]) /\ AppChange(i, applyClaim(deals[i])) BY <2>3 DEF Claim
        <3>2. BackedBy(applyClaim(deals[i]), Records, now)
            BY <2>1, <3>1 DEF CanClaim, applyClaim, BackedBy, Deal
        <3> QED BY <1>6, <3>1, <3>2
    <2>4. CASE Refund(i)
        <3>1. CanRefund(deals[i], PayerOf(deals[i]), now) /\ AppChange(i, applyRefund(deals[i]))
            BY <2>4 DEF Refund
        <3>2. BackedBy(applyRefund(deals[i]), Records, now)
            BY <2>1, <3>1 DEF CanRefund, applyRefund, BackedBy, Deal
        <3> QED BY <1>6, <3>1, <3>2
    <2>5. CASE Cancel(i)
        <3>1. CanCancel(deals[i], Me) /\ AppChange(i, applyCancel(deals[i])) BY <2>5 DEF Cancel
        <3>2. BackedBy(applyCancel(deals[i]), Records, now)
            BY <2>1, <3>1 DEF CanCancel, applyCancel, BackedBy, Deal
        <3> QED BY <1>6, <3>1, <3>2
    <2> QED BY <1>7, <2>2, <2>3, <2>4, <2>5
<1>8. ASSUME Tick PROVE Backed'
    <2>1. deals' = deals BY <1>8 DEF Tick, adapter
    <2> QED BY <1>0, <1>3, <1>4, <2>1, BackedKept
<1>9. Backed' BY <1>7, <1>8
<1> QED BY <1>5, <1>9

\* The inductive invariant holds at the start.
LEMMA EvidenceInit == Init => RoomInv
<1> SUFFICES ASSUME Init PROVE RoomInv OBVIOUS
<1>1. TypeOK /\ Registered BY RoomInit
<1>2. Records = {} /\ DOMAIN deals = {} BY DEF Init, Records
<1>3. Grounded BY <1>2 DEF Init, Grounded, NoSync
<1>4. Backed BY <1>2 DEF Backed
<1> QED BY <1>1, <1>3, <1>4 DEF RoomInv

\* No step leaves the inductive invariant.
LEMMA EvidenceNext == RoomInv /\ [Next]_vars => RoomInv'
<1> SUFFICES ASSUME RoomInv, [Next]_vars PROVE RoomInv' OBVIOUS
<1>0. TypeOK' /\ Registered' BY RoomNext DEF RoomInv
<1>1. CASE \E p \in Posts : Post(p) \/ Send(p) BY <1>0, <1>1, SendBacked DEF RoomInv
<1>2. CASE Fetch \/ Skip \/ Resolve \/ Ingest \/ Abort BY <1>0, <1>2, SyncBacked DEF RoomInv
<1>3. CASE IngestOwn \/ LoseAnswer BY <1>0, <1>3, SendBacked DEF RoomInv
<1>4. CASE (\E i \in DOMAIN deals : Verify(i) \/ Claim(i) \/ Refund(i) \/ Cancel(i)) \/ Tick
    BY <1>0, <1>4, AppBacked DEF RoomInv
<1>5. CASE UNCHANGED vars
    <2>1. UNCHANGED <<room, deals, sync, own, now>> BY <1>5 DEF vars
    <2>2. Grounded' /\ Backed'
        BY <2>1 DEF RoomInv, Grounded, Backed, Records, Current
    <2> QED BY <1>0, <2>2 DEF RoomInv
<1> QED BY <1>1, <1>2, <1>3, <1>4, <1>5 DEF Next

\* The status a member's adapter shows of a deal is evidenced in the room by the
\* records of the parties, however records, resolver and sends interleave.
THEOREM BackedAlways == Spec => []Backed
<1>1. Init => RoomInv BY EvidenceInit
<1>2. RoomInv /\ [Next]_vars => RoomInv' BY EvidenceNext
<1>3. RoomInv => Backed BY DEF RoomInv
<1> QED BY <1>1, <1>2, <1>3, PTL DEF Spec

-----------------------------------------------------------------------------
(* Where a record is, and what was ingested before it *)

\* A record's number is its position, also in the wallet's copy of its own unless that has none
\* yet; and every key the adapter remembers is that of a record in the room.
Numbered == /\ \A n \in DOMAIN room : room[n].seq = n /\ room[n].sig = n
            /\ own # NoRecord => /\ own.sig \in DOMAIN room
                                 /\ own.seq \in {0, own.sig}
                                 /\ room[own.sig].from = Me
                                 /\ room[own.sig].frame = own.frame
            /\ \A k \in seen : k[2] \in DOMAIN room

\* Everything before the record sync() is at has been ingested.
Passed == sync.pc # "idle" => \A m \in 1..(sync.next - 1) : <<m, m>> \in seen

\* A deal was made by an offer, and each deal of the same offer by one of its own.
Offered == \A o \in Offers :
              /\ \A i \in DOMAIN deals : deals[i].offer = o => OfferKeys(o) # {}
              /\ \A i, j \in DOMAIN deals :
                    i # j /\ deals[i].offer = o /\ deals[j].offer = o => OfferedTwice(o)

OrderInv == RoomInv /\ Numbered /\ Passed /\ InOrder /\ EvidencePoints /\ Offered

\* A frame that a deal takes never moves its status back.
LEMMA AfterLater ==
    ASSUME NEW d \in Deal, NEW f \in DealFrames, NEW t, Takes(d, f, t)
    PROVE  After(d, f).status \in Later(d.status)
<1>0. d.status \in DealStatus BY DEF Deal
<1>1. CASE f.type = "accept"
    <2>1. d.status \in {"OFFERED", "ACCEPTED"} BY <1>1 DEF Takes, CanAccept
    <2>2. After(d, f).status = "ACCEPTED" BY <1>1, AfterStatus
    <2> QED BY <2>1, <2>2 DEF Later, DealStatus
<1>2. CASE f.type = "lock"
    <2>1. d.status \in {"ACCEPTED", "LOCKED"} BY <1>2 DEF Takes, CanLock
    <2>2. After(d, f).status = "LOCKED" BY <1>2, AfterStatus
    <2> QED BY <2>1, <2>2 DEF Later, DealStatus
<1>3. CASE f.type = "reveal"
    <2>1. d.status \in {"LOCKED", "VERIFIED", "REVEALED"} BY <1>3 DEF Takes, CanReveal
    <2>2. After(d, f).status = "REVEALED" BY <1>3, AfterStatus
    <2> QED BY <2>1, <2>2 DEF Later, DealStatus
<1>4. CASE f.type = "refund"
    <2>1. d.status \in {"LOCKED", "VERIFIED", "REVEALED", "REFUNDED"}
        BY <1>4 DEF Takes, CanRefund
    <2>2. After(d, f).status = "REFUNDED" BY <1>4, AfterStatus
    <2> QED BY <2>1, <2>2 DEF Later, DealStatus
<1>5. CASE f.type = "cancel"
    <2>1. d.status \in {"OFFERED", "ACCEPTED", "CANCELLED"} BY <1>5 DEF Takes, CanCancel
    <2>2. After(d, f).status = "CANCELLED" BY <1>5, AfterStatus
    <2> QED BY <2>1, <2>2 DEF Later, DealStatus
<1>6. CASE f.type = "receipt"
    <2>1. After(d, f).status = d.status BY <1>6, AfterStatus
    <2> QED BY <1>0, <2>1 DEF Later, DealStatus
<1> QED BY <1>1, <1>2, <1>3, <1>4, <1>5, <1>6, FrameKinds DEF Stages

\* A record as it is ingested: one of the room, or the wallet's copy of one; except for an accept
\* that waited for the resolver, into the deal it is about, and under a key not seen before.
Ingesting(r, i) == /\ Ingested(r, i)
                   /\ (i = TargetOf(r) /\ ~Delivered(r)) \/ r.frame.type = "accept"
                   /\ r.sig \in DOMAIN room /\ r.seq \in {0, r.sig}
                   /\ room[r.sig].frame = r.frame
                   /\ UNCHANGED <<room, now>>

\* What the application makes of the deal at i.
Applying(i, d) == /\ AppChange(i, d)
                  /\ d.offer = deals[i].offer /\ d.contractId = deals[i].contractId
                  /\ d.sequences = deals[i].sequences
                  /\ d.status \in Later(deals[i].status)

\* A step adds a record, or ingests one, or changes a deal, or leaves room and adapter alone.
LEMMA StepKinds ==
    ASSUME RoomInv, Numbered, [Next]_vars
    PROVE  \/ \E r \in Record : /\ room' = Append(room, r)
                                /\ r.seq = Len(room) + 1 /\ r.sig = Len(room) + 1
                                /\ UNCHANGED <<adapter, sync>>
           \/ \E r \in Record, i \in 0..Len(deals) : Ingesting(r, i)
           \/ \E i \in DOMAIN deals, d \in Deal : Applying(i, d)
           \/ UNCHANGED <<room, adapter>>
<1>0. /\ TypeOK /\ Registered /\ Grounded
      /\ room \in Seq(Record) /\ Len(room) \in Nat /\ DOMAIN room = 1..Len(room)
      /\ deals \in Seq(Deal) /\ Len(deals) \in Nat /\ DOMAIN deals = 1..Len(deals)
    BY DEF RoomInv, TypeOK
<1>1. CASE \E p \in Posts : Post(p) \/ Send(p)
    <2>1. PICK p \in Posts : Post(p) \/ Send(p) BY <1>1
    <2>2. Sent(p) \in Record BY <1>0, SentType
    <2>3. room' = Append(room, Sent(p)) /\ UNCHANGED <<adapter, sync>>
        BY <2>1 DEF Post, Send
    <2>4. Sent(p).seq = Len(room) + 1 /\ Sent(p).sig = Len(room) + 1 BY DEF Sent
    <2> QED BY <2>2, <2>3, <2>4
<1>2. CASE Ingest
    <2>1. PICK i \in 0..Len(deals) : Ready(i) /\ Ingested(Current, i) BY <1>2 DEF Ingest
    <2>2. UNCHANGED <<room, now>> BY <1>2 DEF Ingest
    <2>3. sync.pc # "idle" BY <2>1 DEF Ready
    <2>4. Current \in Record BY <1>0, <2>3, CurrentType
    <2>5. sync.next \in 1..sync.upto /\ sync.upto <= Len(room) /\ sync.upto \in Nat
        BY <1>0, <2>3 DEF TypeOK, Sync
    <2>6. sync.next \in DOMAIN room BY <1>0, <2>5
    <2>7. Current.seq = sync.next /\ Current.sig = sync.next
        BY <2>6 DEF Numbered, Current
    <2>8. (i = TargetOf(Current) /\ ~Delivered(Current)) \/ Current.frame.type = "accept"
        BY <1>0, <2>1 DEF Ready, Grounded
    <2>9. Ingesting(Current, i)
        BY <2>1, <2>2, <2>6, <2>7, <2>8 DEF Ingesting, Current
    <2> QED BY <2>4, <2>9
<1>3. CASE IngestOwn /\ ~Delivered(own) /\ Ingested(own, TargetOf(own))
    <2>1. own # NoRecord /\ UNCHANGED <<room, now>> BY <1>3 DEF IngestOwn
    <2>2. own \in Record BY <1>0, <2>1 DEF TypeOK
    <2>3. TargetOf(own) \in 0..Len(deals) BY <1>0, <2>2, TargetType
    <2>4. Ingesting(own, TargetOf(own)) BY <1>3, <2>1 DEF Ingesting, Numbered
    <2> QED BY <2>2, <2>3, <2>4
<1>4. CASE IngestOwn /\ UNCHANGED adapter BY <1>4 DEF IngestOwn
<1>5. ASSUME NEW i \in DOMAIN deals, Verify(i) \/ Claim(i) \/ Refund(i) \/ Cancel(i)
      PROVE  \E d \in Deal : Applying(i, d)
    <2>1. deals[i] \in Deal BY <1>0
    <2>2. CASE Verify(i)
        <3>1. CanVerify(deals[i], deals[i].contractId) /\ AppChange(i, markVerified(deals[i]))
            BY <2>2 DEF Verify
        <3>2. markVerified(deals[i]) \in Deal BY <2>1 DEF markVerified, Deal, DealStatus
        <3>3. /\ markVerified(deals[i]).offer = deals[i].offer
              /\ markVerified(deals[i]).contractId = deals[i].contractId
              /\ markVerified(deals[i]).sequences = deals[i].sequences
              /\ markVerified(deals[i]).status = "VERIFIED"
            BY <2>1 DEF markVerified, Deal
        <3>4. "VERIFIED" \in Later(deals[i].status) BY <3>1 DEF CanVerify, Later, DealStatus
        <3> QED BY <3>1, <3>2, <3>3, <3>4 DEF Applying
    <2>3. CASE Claim(i)
        <3>1. CanClaim(deals[i]) /\ AppChange(i, applyClaim(deals[i])) BY <2>3 DEF Claim
        <3>2. applyClaim(deals[i]) \in Deal BY <2>1 DEF applyClaim, Deal, DealStatus
        <3>3. /\ applyClaim(deals[i]).offer = deals[i].offer
              /\ applyClaim(deals[i]).contractId = deals[i].contractId
              /\ applyClaim(deals[i]).sequences = deals[i].sequences
              /\ applyClaim(deals[i]).status = "CLAIMED"
            BY <2>1 DEF applyClaim, Deal
        <3>4. "CLAIMED" \in Later(deals[i].status) BY <3>1 DEF CanClaim, Later, DealStatus
        <3> QED BY <3>1, <3>2, <3>3, <3>4 DEF Applying
    <2>4. CASE Refund(i)
        <3>1. CanRefund(deals[i], PayerOf(deals[i]), now) /\ AppChange(i, applyRefund(deals[i]))
            BY <2>4 DEF Refund
        <3>2. applyRefund(deals[i]) \in Deal BY <2>1 DEF applyRefund, Deal, DealStatus
        <3>3. /\ applyRefund(deals[i]).offer = deals[i].offer
              /\ applyRefund(deals[i]).contractId = deals[i].contractId
              /\ applyRefund(deals[i]).sequences = deals[i].sequences
              /\ applyRefund(deals[i]).status = "REFUNDED"
            BY <2>1 DEF applyRefund, Deal
        <3>4. "REFUNDED" \in Later(deals[i].status) BY <3>1 DEF CanRefund, Later, DealStatus
        <3> QED BY <3>1, <3>2, <3>3, <3>4 DEF Applying
    <2>5. CASE Cancel(i)
        <3>1. CanCancel(deals[i], Me) /\ AppChange(i, applyCancel(deals[i])) BY <2>5 DEF Cancel
        <3>2. applyCancel(deals[i]) \in Deal BY <2>1 DEF applyCancel, Deal, DealStatus
        <3>3. /\ applyCancel(deals[i]).offer = deals[i].offer
              /\ applyCancel(deals[i]).contractId = deals[i].contractId
              /\ applyCancel(deals[i]).sequences = deals[i].sequences
              /\ applyCancel(deals[i]).status = "CANCELLED"
            BY <2>1 DEF applyCancel, Deal
        <3>4. "CANCELLED" \in Later(deals[i].status) BY <3>1 DEF CanCancel, Later, DealStatus
        <3> QED BY <3>1, <3>2, <3>3, <3>4 DEF Applying
    <2> QED BY <1>5, <2>2, <2>3, <2>4, <2>5
<1>6. CASE Fetch \/ Skip \/ Resolve \/ Abort \/ LoseAnswer \/ Tick \/ UNCHANGED vars
    BY <1>6 DEF Fetch, Skip, Resolve, Abort, LoseAnswer, Tick, vars, adapter
<1>7. CASE IngestOwn
    BY <1>3, <1>4, <1>7 DEF IngestOwn
<1> QED BY <1>1, <1>2, <1>5, <1>6, <1>7 DEF Next

\* The room and what is remembered of it only grow.
LEMMA Growing ==
    ASSUME RoomInv, Numbered, [Next]_vars
    PROVE  /\ seen \subseteq seen'
           /\ \A n \in DOMAIN room : n \in DOMAIN room' /\ room'[n] = room[n]
<1>1. CASE \E r \in Record : /\ room' = Append(room, r)
                             /\ r.seq = Len(room) + 1 /\ r.sig = Len(room) + 1
                             /\ UNCHANGED <<adapter, sync>>
    <2>1. PICK r \in Record : room' = Append(room, r) /\ seen' = seen BY <1>1 DEF adapter
    <2>2. room \in Seq(Record) BY DEF RoomInv, TypeOK
    <2> QED BY <2>1, <2>2
<1>2. CASE \E r \in Record, i \in 0..Len(deals) : Ingesting(r, i)
    BY <1>2 DEF Ingesting, Ingested, Remember
<1>3. CASE \E i \in DOMAIN deals, d \in Deal : Applying(i, d)
    BY <1>3 DEF Applying, AppChange
<1>4. CASE UNCHANGED <<room, adapter>> BY <1>4 DEF adapter
<1> QED BY <1>1, <1>2, <1>3, <1>4, StepKinds

\* Records keep their numbers, and the wallet's copy is of the record it sent.
LEMMA NumberedNext ==
    ASSUME RoomInv, Numbered, [Next]_vars
    PROVE  Numbered'
<1>0. /\ TypeOK /\ room \in Seq(Record) /\ Len(room) \in Nat /\ DOMAIN room = 1..Len(room)
    BY DEF RoomInv, TypeOK
<1> PICK k \in Nat : k = Len(room) BY <1>0
<1>1. ASSUME NEW p \in Posts, Post(p) \/ Send(p) PROVE Numbered'
    <2>1. Sent(p) \in Record BY <1>0, SentType
    <2>2. room' = Append(room, Sent(p)) /\ UNCHANGED seen BY <1>1 DEF Post, Send, adapter
    <2>3. DOMAIN room' = 1..(k + 1) /\ room'[k + 1] = Sent(p)
          /\ \A n \in 1..k : room'[n] = room[n]
        BY <1>0, <2>1, <2>2
    <2>4. /\ Sent(p).seq = k + 1 /\ Sent(p).sig = k + 1 /\ Sent(p).from = p.from
        BY DEF Sent
    <2>5. \A n \in DOMAIN room' : room'[n].seq = n /\ room'[n].sig = n
        <3> TAKE n \in DOMAIN room'
        <3>1. n \in 1..k \/ n = k + 1 BY <2>3
        <3> QED BY <1>0, <2>3, <2>4, <3>1 DEF Numbered
    <2>6. \A x \in seen' : x[2] \in DOMAIN room' BY <1>0, <2>2, <2>3 DEF Numbered
    <2>7. own' # NoRecord => /\ own'.sig \in DOMAIN room'
                             /\ own'.seq \in {0, own'.sig}
                             /\ room'[own'.sig].from = Me
                             /\ room'[own'.sig].frame = own'.frame
        <3>1. CASE Post(p)
            <4>1. own' = own BY <3>1 DEF Post
            <4> QED BY <1>0, <2>3, <4>1 DEF Numbered
        <3>2. CASE Send(p)
            <4>1. own' = IF Http THEN [Sent(p) EXCEPT !.seq = 0] ELSE Sent(p)
                BY <3>2 DEF Send
            <4>2. /\ own'.sig = k + 1 /\ own'.seq \in {0, k + 1}
                  /\ own'.frame = Sent(p).frame
                BY <2>1, <2>4, <4>1 DEF Record
            <4>3. p.from = Me BY <3>2 DEF Send
            <4> QED BY <2>3, <2>4, <4>2, <4>3
        <3> QED BY <1>1, <3>1, <3>2
    <2> QED BY <2>5, <2>6, <2>7 DEF Numbered
<1>2. ASSUME UNCHANGED room, own' = own \/ own' = NoRecord,
             \A x \in seen' : x[2] \in DOMAIN room
      PROVE  Numbered'
    BY <1>2 DEF Numbered
<1>3. CASE Ingest
    <2>1. PICK i \in 0..Len(deals) : Ready(i) /\ Ingested(Current, i) BY <1>3 DEF Ingest
    <2>2. UNCHANGED <<room, own>> BY <1>3 DEF Ingest
    <2>3. sync.pc # "idle" BY <2>1 DEF Ready
    <2>4. sync.next \in 1..sync.upto /\ sync.upto <= Len(room) /\ sync.upto \in Nat
        BY <1>0, <2>3 DEF TypeOK, Sync
    <2>5. sync.next \in DOMAIN room BY <1>0, <2>4
    <2>6. seen' = seen \cup {<<Current.seq, Current.sig>>} /\ Current.sig = sync.next
        BY <2>1, <2>5 DEF Ingested, Remember, Key, Current, Numbered
    <2> QED BY <1>2, <2>2, <2>5, <2>6 DEF Numbered
<1>4. CASE IngestOwn
    <2>1. own # NoRecord /\ own' = NoRecord /\ UNCHANGED room BY <1>4 DEF IngestOwn
    <2>2. seen' = seen \/ seen' = seen \cup {<<own.seq, own.sig>>}
        BY <1>4 DEF IngestOwn, Ingested, Remember, Key, adapter
    <2> QED BY <1>2, <2>1, <2>2 DEF Numbered
<1>5. CASE Fetch \/ Skip \/ Resolve \/ Abort \/ LoseAnswer \/ Tick \/ UNCHANGED vars
           \/ \E i \in DOMAIN deals : Verify(i) \/ Claim(i) \/ Refund(i) \/ Cancel(i)
    <2>1. UNCHANGED <<room, seen>> /\ (own' = own \/ own' = NoRecord)
        BY <1>5 DEF Fetch, Skip, Resolve, Abort, LoseAnswer, Tick, vars, adapter,
           Verify, Claim, Refund, Cancel, AppChange
    <2> QED BY <1>2, <2>1 DEF Numbered
<1> QED BY <1>1, <1>3, <1>4, <1>5 DEF Next

\* sync() goes from record to record, and the wallet's own are the only ones ingested besides.
LEMMA InOrderNext ==
    ASSUME RoomInv, Numbered, Passed, InOrder, [Next]_vars
    PROVE  Passed' /\ InOrder'
<1>0. /\ TypeOK /\ room \in Seq(Record) /\ Len(room) \in Nat /\ DOMAIN room = 1..Len(room)
      /\ sync \in Sync /\ seen \subseteq Nat \X Nat
    BY DEF RoomInv, TypeOK
<1> PICK k \in Nat : k = Len(room) BY <1>0
<1>1. CASE \E p \in Posts : Post(p) \/ Send(p)
    <2>1. PICK p \in Posts : Post(p) \/ Send(p) BY <1>1
    <2>2. room' = Append(room, Sent(p)) /\ UNCHANGED <<seen, sync>>
        BY <2>1 DEF Post, Send, adapter
    <2>3. DOMAIN room' = 1..(k + 1) /\ \A n \in 1..k : room'[n] = room[n]
        BY <1>0, <2>2
    <2>4. Passed' BY <2>2 DEF Passed
    <2>5. ASSUME NEW n \in DOMAIN room', <<n, n>> \in seen, room'[n].from # Me
          PROVE  \A m \in 1..(n - 1) : <<m, m>> \in seen
        <3>1. <<n, n>>[2] \in DOMAIN room BY <2>5 DEF Numbered
        <3>2. n \in 1..k BY <1>0, <3>1
        <3> QED BY <1>0, <2>3, <2>5, <3>2 DEF InOrder
    <2> QED BY <2>2, <2>4, <2>5 DEF InOrder
<1>2. ASSUME sync.pc # "idle", <<sync.next, sync.next>> \in seen', Advance,
             UNCHANGED room, seen \subseteq seen',
             \A x \in seen' : x \in seen \/ x = <<sync.next, sync.next>>
      PROVE  Passed' /\ InOrder'
    <2>1. sync.next \in 1..sync.upto /\ sync.upto <= Len(room) /\ sync.upto \in Nat
        BY <1>0, <1>2 DEF TypeOK, Sync
    <2>2. \A m \in 1..(sync.next - 1) : <<m, m>> \in seen' BY <1>2 DEF Passed
    <2>3. Passed'
        <3>1. CASE sync.next = sync.upto BY <1>2, <3>1 DEF Advance, NoSync, Passed
        <3>2. CASE sync.next # sync.upto
            <4>1. sync' = [sync EXCEPT !.pc = "records", !.next = sync.next + 1, !.deal = 0]
                BY <1>2, <3>2 DEF Advance
            <4>2. sync'.next = sync.next + 1 BY <1>0, <4>1 DEF Sync
            <4>3. \A m \in 1..(sync'.next - 1) : m \in 1..(sync.next - 1) \/ m = sync.next
                BY <2>1, <4>2
            <4>4. \A m \in 1..(sync'.next - 1) : <<m, m>> \in seen' BY <1>2, <2>2, <4>3
            <4> QED BY <4>4 DEF Passed
        <3> QED BY <3>1, <3>2
    <2>4. ASSUME NEW n \in DOMAIN room, <<n, n>> \in seen', room[n].from # Me
          PROVE  \A m \in 1..(n - 1) : <<m, m>> \in seen'
        <3>1. CASE <<n, n>> \in seen BY <1>2, <2>4, <3>1 DEF InOrder
        <3>2. CASE <<n, n>> = <<sync.next, sync.next>>
            <4>1. n = sync.next BY <3>2
            <4> QED BY <2>2, <4>1
        <3> QED BY <1>2, <2>4, <3>1, <3>2
    <2> QED BY <1>2, <2>3, <2>4 DEF InOrder
<1>3. ASSUME sync.pc # "idle" PROVE Key(Current) = <<sync.next, sync.next>>
    <2>1. sync.next \in 1..sync.upto /\ sync.upto <= Len(room) /\ sync.upto \in Nat
        BY <1>0, <1>3 DEF TypeOK, Sync
    <2>2. sync.next \in DOMAIN room BY <1>0, <2>1
    <2> QED BY <2>2 DEF Numbered, Key, Current
<1>4. CASE Skip
    <2>1. sync.pc # "idle" /\ Key(Current) \in seen /\ Advance /\ UNCHANGED <<room, seen>>
        BY <1>4 DEF Skip, Delivered, adapter
    <2> QED BY <1>2, <1>3, <2>1
<1>5. CASE Ingest
    <2>1. PICK i \in 0..Len(deals) : Ready(i) /\ Ingested(Current, i) BY <1>5 DEF Ingest
    <2>2. Advance /\ UNCHANGED room BY <1>5 DEF Ingest
    <2>3. sync.pc # "idle" BY <2>1 DEF Ready
    <2>4. seen' = seen \cup {Key(Current)} BY <2>1 DEF Ingested, Remember
    <2> QED BY <1>2, <1>3, <2>2, <2>3, <2>4
<1>6. CASE IngestOwn
    <2>1. own # NoRecord /\ UNCHANGED <<room, sync>> BY <1>6 DEF IngestOwn
    <2>2. seen' = seen \/ seen' = seen \cup {<<own.seq, own.sig>>}
        BY <1>6 DEF IngestOwn, Ingested, Remember, Key, adapter
    <2>3. Passed' BY <2>1, <2>2 DEF Passed
    <2>4. ASSUME NEW n \in DOMAIN room, <<n, n>> \in seen', room[n].from # Me
          PROVE  \A m \in 1..(n - 1) : <<m, m>> \in seen'
        <3>1. CASE <<n, n>> \in seen BY <2>2, <2>4, <3>1 DEF InOrder
        <3>2. CASE <<n, n>> = <<own.seq, own.sig>>
            <4>1. n = own.sig BY <3>2
            <4> QED BY <2>1, <2>4, <4>1 DEF Numbered
        <3> QED BY <2>2, <2>4, <3>1, <3>2
    <2> QED BY <2>1, <2>3, <2>4 DEF InOrder
<1>7. CASE Fetch
    <2>1. sync'.next = 1 /\ UNCHANGED <<room, seen>> BY <1>7 DEF Fetch, adapter
    <2>2. 1..(sync'.next - 1) = {} BY <2>1
    <2>3. Passed' BY <2>2 DEF Passed
    <2> QED BY <2>1, <2>3 DEF InOrder
<1>8. CASE Resolve
    <2>1. /\ sync.pc # "idle" /\ UNCHANGED <<room, seen>>
          /\ sync' = [sync EXCEPT !.pc = "resolver", !.deal = byOffer[Current.frame.ref]]
        BY <1>8 DEF Resolve, adapter
    <2>2. sync'.next = sync.next BY <1>0, <2>1 DEF Sync
    <2>3. Passed' BY <2>1, <2>2 DEF Passed
    <2> QED BY <2>1, <2>3 DEF InOrder
<1>9. CASE Abort
    <2>1. sync'.pc = "idle" /\ UNCHANGED <<room, seen>> BY <1>9 DEF Abort, NoSync, adapter
    <2> QED BY <2>1 DEF Passed, InOrder
<1>10. CASE LoseAnswer \/ Tick \/ UNCHANGED vars
           \/ \E i \in DOMAIN deals : Verify(i) \/ Claim(i) \/ Refund(i) \/ Cancel(i)
    <2>1. UNCHANGED <<room, seen, sync>>
        BY <1>10 DEF LoseAnswer, Tick, vars, adapter, Verify, Claim, Refund, Cancel, AppChange
    <2> QED BY <2>1 DEF Passed, InOrder
<1> QED BY <1>1, <1>4, <1>5, <1>6, <1>7, <1>8, <1>9, <1>10 DEF Next

\* A frame of a stage after the offer names a contract.
LEMMA StageContract ==
    ASSUME NEW f \in Frames, f.type \in Stages \ {"offer"}
    PROVE  f \in DealFrames /\ f.contract \in Contracts /\ f.contract # NoContract
<1>1. f \in DealFrames BY DealFrame DEF Stages
<1>2. f.contract \in Contracts
    BY <1>1, FrameKinds DEF Stages, AcceptFrames, LockFrames, RevealFrames, RefundFrames,
       ReceiptFrames
<1> QED BY <1>1, <1>2, DealAssumption DEF Contracts

\* The record a deal points at for a stage.
PointsAt(i, stage) == LET n == deals[i].sequences[stage] IN
    n \notin {NoSeq, 0} => /\ n \in DOMAIN room
                           /\ room[n].frame.type = stage
                           /\ room[n].frame.contract = deals[i].contractId

\* What points at its record keeps doing so, under the contract the deal is bound to by then.
LEMMA PointsStay ==
    ASSUME RoomInv, Numbered, [Next]_vars, NEW i \in DOMAIN deals,
           NEW stage \in Stages \ {"offer"}, PointsAt(i, stage),
           deals[i].contractId # NoContract => deals'[i].contractId = deals[i].contractId,
           deals'[i].sequences[stage] = deals[i].sequences[stage]
    PROVE  PointsAt(i, stage)'
<1> PICK n : n = deals[i].sequences[stage] OBVIOUS
<1> SUFFICES ASSUME n \notin {NoSeq, 0}
             PROVE  /\ n \in DOMAIN room'
                    /\ room'[n].frame.type = stage
                    /\ room'[n].frame.contract = deals'[i].contractId
    BY DEF PointsAt
<1>1. n \in DOMAIN room /\ room[n].frame.type = stage
      /\ room[n].frame.contract = deals[i].contractId
    BY DEF PointsAt
<1>2. room \in Seq(Record) BY DEF RoomInv, TypeOK
<1>3. room[n] \in Record BY <1>1, <1>2
<1>4. room[n].frame \in Frames BY <1>3 DEF Record
<1>5. deals[i].contractId # NoContract BY <1>1, <1>4, StageContract
<1>6. n \in DOMAIN room' /\ room'[n] = room[n] BY <1>1, Growing
<1> QED BY <1>1, <1>5, <1>6

\* Each stage of each deal points at its record.
LEMMA EvidencePointsNext ==
    ASSUME RoomInv, Numbered, EvidencePoints, [Next]_vars
    PROVE  EvidencePoints'
<1>0. /\ TypeOK /\ Registered
      /\ deals \in Seq(Deal) /\ Len(deals) \in Nat /\ DOMAIN deals = 1..Len(deals)
    BY DEF RoomInv, TypeOK
<1>1. \A i \in DOMAIN deals, stage \in Stages \ {"offer"} : PointsAt(i, stage)
    BY DEF EvidencePoints, PointsAt
<1>2. SUFFICES \A i \in DOMAIN deals', stage \in Stages \ {"offer"} : PointsAt(i, stage)'
    BY DEF EvidencePoints, PointsAt
<1>3. ASSUME NEW i \in DOMAIN deals, NEW stage \in Stages \ {"offer"},
             deals[i].contractId # NoContract => deals'[i].contractId = deals[i].contractId,
             deals'[i].sequences[stage] = deals[i].sequences[stage]
      PROVE  PointsAt(i, stage)'
    BY <1>1, <1>3, PointsStay
<1>4. CASE deals' = deals BY <1>3, <1>4
<1>5. ASSUME NEW i \in DOMAIN deals, NEW d \in Deal, Applying(i, d)
      PROVE  \A j \in DOMAIN deals', stage \in Stages \ {"offer"} : PointsAt(j, stage)'
    <2>1. deals' = [deals EXCEPT ![i] = d] BY <1>5 DEF Applying, AppChange
    <2>2. DOMAIN deals' = DOMAIN deals /\ deals'[i] = d
          /\ \A j \in DOMAIN deals : j # i => deals'[j] = deals[j]
        BY <1>0, <2>1
    <2>3. d.contractId = deals[i].contractId /\ d.sequences = deals[i].sequences
        BY <1>5 DEF Applying
    <2>4. \A j \in DOMAIN deals : /\ deals'[j].contractId = deals[j].contractId
                                  /\ deals'[j].sequences = deals[j].sequences
        BY <2>2, <2>3
    <2> QED BY <1>3, <2>2, <2>4
<1>6. ASSUME NEW r \in Record, NEW i \in 0..Len(deals), Ingesting(r, i)
      PROVE  \A j \in DOMAIN deals', stage \in Stages \ {"offer"} : PointsAt(j, stage)'
    <2>1. Ingested(r, i) /\ (i = TargetOf(r) \/ r.frame.type = "accept")
          /\ r.sig \in DOMAIN room /\ r.seq \in {0, r.sig} /\ room[r.sig].frame = r.frame
          /\ room' = room
        BY <1>6 DEF Ingesting
    <2>2. r.seq \in Nat BY DEF Record
    <2>3. CASE OffersDeal(r) /\ AddDeal(r)
        <3> PICK k \in Nat : k = Len(deals) BY <1>0
        <3>1. /\ DOMAIN deals' = 1..(k + 1)
              /\ \A j \in DOMAIN deals : deals'[j] = deals[j]
            BY <1>0, <2>3, AddEffect
        <3>2. r.frame.offer \in Offers
            <4>1. r.frame \in Frames BY DEF Record
            <4>2. r.frame \in OfferFrames
                BY <2>3, <4>1 DEF OffersDeal, Frames, OtherFrames, DealFrames, AcceptFrames,
                   LockFrames, RevealFrames, RefundFrames, CancelFrames, ReceiptFrames
            <4> QED BY <4>2 DEF OfferFrames
        <3>3. deals' = Append(deals, recordLedgerSequence(NewDeal(r.frame.offer), "offer", r.seq))
            BY <2>3 DEF AddDeal
        <3>4. deals'[k + 1] = recordLedgerSequence(NewDeal(r.frame.offer), "offer", r.seq)
            BY <1>0, <3>3
        <3>5. NewDeal(r.frame.offer) \in Deal BY <3>2, NewDealType
        <3>6. \A stage \in Stages \ {"offer"} : deals'[k + 1].sequences[stage] = NoSeq
            <4> TAKE stage \in Stages \ {"offer"}
            <4>1. deals'[k + 1].sequences[stage] = NewDeal(r.frame.offer).sequences[stage]
                BY <2>2, <3>4, <3>5, RecordedSequences
            <4> QED BY <4>1 DEF NewDeal
        <3>7. \A stage \in Stages \ {"offer"} : PointsAt(k + 1, stage)'
            BY <3>6 DEF PointsAt
        <3>8. \A j \in DOMAIN deals' : j \in DOMAIN deals \/ j = k + 1 BY <1>0, <3>1
        <3> QED BY <1>3, <3>1, <3>7, <3>8
    <2>4. CASE TakesDeal(r, i) /\ ChangeDeal(r, i)
        <3>1. /\ i \in DOMAIN deals /\ deals[i] \in Deal /\ r.frame \in DealFrames
              /\ DOMAIN deals' = DOMAIN deals
              /\ \A j \in DOMAIN deals : j # i => deals'[j] = deals[j]
              /\ deals'[i] = recordLedgerSequence(After(deals[i], r.frame), r.frame.type, r.seq)
              /\ Takes(deals[i], r.frame, r.ts)
              /\ deals'[i].contractId = After(deals[i], r.frame).contractId
            BY <1>0, <2>4, ChangeEffect
        <3>2. deals[i].contractId # NoContract => deals'[i].contractId = deals[i].contractId
            BY <1>0, <2>4, ChangeIndex
        <3>3. After(deals[i], r.frame) \in Deal
              /\ After(deals[i], r.frame).sequences = deals[i].sequences
            BY <3>1, AfterType, AfterSequences
        <3>4. \A stage \in Stages : deals'[i].sequences[stage] =
                  IF stage = r.frame.type THEN r.seq ELSE deals[i].sequences[stage]
            BY <2>2, <3>1, <3>3, RecordedSequences
        <3>5. ASSUME r.frame.type \in Stages \ {"offer"}
              PROVE  r.frame.contract = deals'[i].contractId
            <4>1. CASE r.frame.type = "accept" BY <3>1, <4>1, AfterStatus
            <4>2. CASE r.frame.type # "accept"
                <5>1. WellFormed(r) /\ i # 0 /\ i = TargetOf(r) BY <2>1, <2>4, <4>2 DEF TakesDeal
                <5>2. r.frame.type \notin {"offer", "chat", "accept", "cancel"}
                    BY <3>5, <4>2 DEF Stages
                <5>3. TargetOf(r) = byContract[r.frame.contract]
                    BY <5>1, <5>2 DEF TargetOf, Target
                <5>4. r.frame.contract \in Contracts /\ r.frame.contract # NoContract
                    BY <3>5, StageContract DEF Record
                <5>5. deals[i].contractId = r.frame.contract
                    BY <1>0, <5>1, <5>3, <5>4 DEF Registered
                <5> QED BY <3>2, <5>4, <5>5
            <4> QED BY <4>1, <4>2
        <3>6. ASSUME NEW stage \in Stages \ {"offer"}
              PROVE  PointsAt(i, stage)'
            <4>1. CASE stage = r.frame.type
                <5>1. deals'[i].sequences[stage] = r.seq BY <3>4, <4>1
                <5>2. r.seq # 0 => r.seq \in DOMAIN room' /\ room'[r.seq].frame = r.frame
                    BY <2>1
                <5> QED BY <3>5, <4>1, <5>1, <5>2 DEF PointsAt
            <4>2. CASE stage # r.frame.type
                BY <1>3, <3>1, <3>2, <3>4, <4>2
            <4> QED BY <4>1, <4>2
        <3> QED BY <1>3, <3>1, <3>6
    <2>5. CASE deals' = deals BY <1>3, <2>5
    <2> QED BY <2>1, <2>3, <2>4, <2>5 DEF Ingested
<1> QED BY <1>4, <1>5, <1>6, StepKinds DEF adapter

-----------------------------------------------------------------------------
(* Which deals an offer has *)

\* The keys an offer was ingested under are not forgotten.
LEMMA KeysStay ==
    ASSUME RoomInv, Numbered, [Next]_vars, NEW o \in Offers
    PROVE  /\ OfferKeys(o) \subseteq OfferKeys(o)'
           /\ OfferedTwice(o) => OfferedTwice(o)'
<1>1. \A k \in OfferKeys(o) : k \in OfferKeys(o)'
    <2> TAKE k \in OfferKeys(o)
    <2>1. /\ k \in seen /\ k[2] \in DOMAIN room
          /\ room[k[2]].frame.type = "offer" /\ room[k[2]].frame.id = o
        BY DEF OfferKeys, Numbered
    <2>2. k \in seen' /\ room'[k[2]] = room[k[2]] BY <2>1, Growing
    <2> QED BY <2>1, <2>2 DEF OfferKeys
<1> QED BY <1>1 DEF OfferedTwice

\* A deal of an offer is made when the offer is ingested under a new key.
LEMMA OfferedNext ==
    ASSUME RoomInv, Numbered, Offered, [Next]_vars
    PROVE  Offered'
<1>0. /\ TypeOK /\ Registered
      /\ deals \in Seq(Deal) /\ Len(deals) \in Nat /\ DOMAIN deals = 1..Len(deals)
    BY DEF RoomInv, TypeOK
<1> SUFFICES ASSUME NEW o \in Offers
             PROVE  /\ \A i \in DOMAIN deals' : deals'[i].offer = o => OfferKeys(o)' # {}
                    /\ \A i, j \in DOMAIN deals' :
                          i # j /\ deals'[i].offer = o /\ deals'[j].offer = o => OfferedTwice(o)'
    BY DEF Offered
<1>1. /\ \A i \in DOMAIN deals : deals[i].offer = o => OfferKeys(o) # {}
      /\ \A i, j \in DOMAIN deals :
            i # j /\ deals[i].offer = o /\ deals[j].offer = o => OfferedTwice(o)
      /\ OfferKeys(o) \subseteq OfferKeys(o)' /\ (OfferedTwice(o) => OfferedTwice(o)')
    BY KeysStay DEF Offered
<1>2. CASE DOMAIN deals' = DOMAIN deals /\ \A i \in DOMAIN deals : deals'[i].offer = deals[i].offer
    BY <1>1, <1>2
<1>3. ASSUME NEW i \in DOMAIN deals, NEW d \in Deal, Applying(i, d)
      PROVE  DOMAIN deals' = DOMAIN deals /\ \A j \in DOMAIN deals : deals'[j].offer = deals[j].offer
    <2>1. deals' = [deals EXCEPT ![i] = d] /\ d.offer = deals[i].offer
        BY <1>3 DEF Applying, AppChange
    <2> QED BY <1>0, <2>1
<1>4. ASSUME NEW r \in Record, NEW i \in 0..Len(deals), Ingesting(r, i), OffersDeal(r), AddDeal(r)
      PROVE  /\ \A j \in DOMAIN deals' : deals'[j].offer = o => OfferKeys(o)' # {}
             /\ \A j, k \in DOMAIN deals' :
                   j # k /\ deals'[j].offer = o /\ deals'[k].offer = o => OfferedTwice(o)'
    <2> PICK n \in Nat : n = Len(deals) BY <1>0
    <2>1. /\ DOMAIN deals' = 1..(n + 1) /\ DOMAIN deals = 1..n
          /\ \A j \in DOMAIN deals : deals'[j] = deals[j]
          /\ deals'[n + 1].offer = r.frame.id
        BY <1>0, <1>4, AddEffect
    <2>2. CASE r.frame.id = o
        <3>1. r.frame.type = "offer" BY <1>4 DEF OffersDeal
        <3>2. /\ ~Delivered(r) /\ seen' = seen \cup {Key(r)}
              /\ room[r.sig].frame = r.frame /\ room' = room
            BY <1>4, <3>1 DEF Ingesting, Ingested, Remember
        <3>3. Key(r)[2] = r.sig BY DEF Key
        <3>4. Key(r) \in OfferKeys(o)' BY <2>2, <3>1, <3>2, <3>3 DEF OfferKeys
        <3>5. Key(r) \notin OfferKeys(o) BY <3>2 DEF Delivered, OfferKeys
        <3>6. OfferKeys(o) # {} => OfferedTwice(o)' BY <1>1, <3>4, <3>5 DEF OfferedTwice
        <3> QED BY <1>1, <2>1, <3>4, <3>6
    <2>3. CASE r.frame.id # o
        <3>1. \A j \in DOMAIN deals' : deals'[j].offer = o => j \in DOMAIN deals /\ deals[j].offer = o
            BY <2>1, <2>3
        <3> QED BY <1>1, <3>1
    <2> QED BY <2>2, <2>3
<1>5. ASSUME NEW r \in Record, NEW i \in 0..Len(deals), TakesDeal(r, i), ChangeDeal(r, i)
      PROVE  DOMAIN deals' = DOMAIN deals /\ \A j \in DOMAIN deals : deals'[j].offer = deals[j].offer
    <2>1. /\ DOMAIN deals' = DOMAIN deals
          /\ \A j \in DOMAIN deals : j # i => deals'[j] = deals[j]
        BY <1>0, <1>5, ChangeEffect
    <2>2. deals'[i].offer = deals[i].offer BY <1>0, <1>5, ChangeIndex
    <2> QED BY <2>1, <2>2
<1>6. CASE deals' = deals BY <1>2, <1>6
<1>7. CASE \E i \in DOMAIN deals, d \in Deal : Applying(i, d) BY <1>2, <1>3, <1>7
<1>8. CASE \E r \in Record, i \in 0..Len(deals) : Ingesting(r, i)
    <2>1. PICK r \in Record, i \in 0..Len(deals) : Ingesting(r, i) BY <1>8
    <2>2. CASE OffersDeal(r) /\ AddDeal(r) BY <1>4, <2>1, <2>2
    <2>3. CASE TakesDeal(r, i) /\ ChangeDeal(r, i) BY <1>2, <1>5, <2>3
    <2> QED BY <1>6, <2>1, <2>2, <2>3 DEF Ingesting, Ingested
<1> QED BY <1>6, <1>7, <1>8, StepKinds DEF adapter

\* Two contracts of one offer are those of two deals.
LEMMA ClosedByTwo ==
    ASSUME RoomInv, Offered
    PROVE  ClosedOnceUnlessRedelivered
<1> SUFFICES ASSUME NEW c1 \in Contracts, NEW c2 \in Contracts,
                    byContract[c1] # 0, byContract[c2] # 0, c1.offer = c2.offer, c1 # c2
             PROVE  OfferedTwice(c1.offer)
    BY DEF ClosedOnceUnlessRedelivered
<1>1. /\ byContract[c1] \in DOMAIN deals /\ byContract[c2] \in DOMAIN deals
      /\ deals \in Seq(Deal)
    BY DEF RoomInv, TypeOK
<1>2. deals[byContract[c1]].contractId = c1 /\ deals[byContract[c2]].contractId = c2
    BY DEF RoomInv, Registered
<1>3. c1 # NoContract /\ c2 # NoContract /\ c1.offer \in Offers BY DealAssumption DEF Contracts
<1>4. /\ deals[byContract[c1]].offer = c1.offer
      /\ deals[byContract[c2]].offer = c1.offer
    BY <1>1, <1>2, <1>3 DEF RoomInv, Registered, Bound
<1>5. byContract[c1] # byContract[c2] BY <1>2
<1> QED BY <1>1, <1>3, <1>4, <1>5 DEF Offered

\* A contract keeps its deal, and its status moves forward.
LEMMA ForwardStep ==
    ASSUME RoomInv, Numbered, Offered, [Next]_vars,
           NEW c \in Contracts, byContract[c] # 0, ~OfferedTwice(c.offer)
    PROVE  /\ byContract'[c] # 0
           /\ deals'[byContract'[c]].status \in Later(deals[byContract[c]].status)
<1>0. /\ TypeOK /\ Registered
      /\ deals \in Seq(Deal) /\ Len(deals) \in Nat /\ DOMAIN deals = 1..Len(deals)
      /\ byContract \in [Contracts -> 0..Len(deals)]
    BY DEF RoomInv, TypeOK
<1> PICK i : i = byContract[c] OBVIOUS
<1>1. i \in DOMAIN deals /\ deals[i] \in Deal BY <1>0
<1>2. c # NoContract /\ c.offer \in Offers BY DealAssumption DEF Contracts
<1>3. deals[i].contractId = c /\ Bound(deals[i]) BY <1>0, <1>1 DEF Registered
<1>4. deals[i].offer = c.offer BY <1>2, <1>3 DEF Bound
<1>5. deals[i].status \in Later(deals[i].status)
    <2>1. deals[i].status \in DealStatus BY <1>1 DEF Deal
    <2> QED BY <2>1 DEF Later, DealStatus
<1>6. CASE byContract' = byContract /\ deals' = deals BY <1>0, <1>5, <1>6
<1>7. ASSUME NEW j \in DOMAIN deals, NEW d \in Deal, Applying(j, d)
      PROVE  /\ byContract'[c] # 0
             /\ deals'[byContract'[c]].status \in Later(deals[byContract[c]].status)
    <2>1. /\ deals' = [deals EXCEPT ![j] = d] /\ byContract' = byContract
          /\ d.status \in Later(deals[j].status)
        BY <1>7 DEF Applying, AppChange
    <2>2. deals'[i] = IF i = j THEN d ELSE deals[i] BY <1>0, <1>1, <2>1
    <2> QED BY <1>5, <2>1, <2>2
<1>8. ASSUME NEW r \in Record, NEW j \in 0..Len(deals), OffersDeal(r), AddDeal(r)
      PROVE  /\ byContract'[c] # 0
             /\ deals'[byContract'[c]].status \in Later(deals[byContract[c]].status)
    <2>1. byContract' = byContract /\ \A k \in DOMAIN deals : deals'[k] = deals[k]
        BY <1>0, <1>8, AddEffect
    <2> QED BY <1>1, <1>5, <2>1
<1>9. ASSUME NEW r \in Record, NEW j \in 0..Len(deals), TakesDeal(r, j), ChangeDeal(r, j)
      PROVE  /\ byContract'[c] # 0
             /\ deals'[byContract'[c]].status \in Later(deals[byContract[c]].status)
    <2>1. /\ j \in DOMAIN deals /\ r.frame \in DealFrames /\ deals[j] \in Deal
          /\ Takes(deals[j], r.frame, r.ts)
          /\ DOMAIN deals' = DOMAIN deals
          /\ \A k \in DOMAIN deals : k # j => deals'[k] = deals[k]
          /\ deals'[j].status = After(deals[j], r.frame).status
        BY <1>0, <1>9, ChangeEffect
    <2>2. /\ \/ byContract' = byContract
             \/ /\ deals'[j].contractId \in Contracts
                /\ byContract' = [byContract EXCEPT ![deals'[j].contractId] = j]
          /\ Bound(deals'[j]) /\ deals'[j].offer = deals[j].offer
        BY <1>0, <1>9, ChangeIndex
    <2>3. byContract'[c] = i
        <3>1. CASE byContract' = byContract BY <3>1
        <3>2. CASE /\ deals'[j].contractId \in Contracts
                   /\ byContract' = [byContract EXCEPT ![deals'[j].contractId] = j]
            <4>1. CASE deals'[j].contractId # c BY <1>0, <3>2, <4>1
            <4>2. CASE deals'[j].contractId = c
                <5>1. deals[j].offer = c.offer BY <1>2, <2>2, <4>2 DEF Bound
                <5>2. j = i BY <1>1, <1>2, <1>4, <2>1, <5>1 DEF Offered
                <5> QED BY <1>0, <3>2, <4>2, <5>2
            <4> QED BY <4>1, <4>2
        <3> QED BY <2>2, <3>1, <3>2
    <2>4. deals'[i].status \in Later(deals[i].status)
        <3>1. CASE i = j BY <2>1, <3>1, AfterLater
        <3>2. CASE i # j BY <1>1, <1>5, <2>1, <3>2
        <3> QED BY <3>1, <3>2
    <2>5. i # 0 OBVIOUS
    <2> QED BY <2>3, <2>4, <2>5
<1>10. CASE \E r \in Record, j \in 0..Len(deals) : Ingesting(r, j)
    <2>1. PICK r \in Record, j \in 0..Len(deals) : Ingested(r, j) BY <1>10 DEF Ingesting
    <2> QED BY <1>6, <1>8, <1>9, <2>1 DEF Ingested
<1> QED BY <1>6, <1>7, <1>10, StepKinds DEF adapter

-----------------------------------------------------------------------------
\* The adapter has ingested nothing yet.
LEMMA OrderInit == Init => OrderInv
<1> SUFFICES ASSUME Init PROVE OrderInv OBVIOUS
<1>1. RoomInv BY EvidenceInit
<1>2. room = << >> /\ deals = << >> /\ seen = {} /\ sync.pc = "idle" /\ own = NoRecord
    BY DEF Init, NoSync
<1>3. DOMAIN room = {} /\ DOMAIN deals = {} BY <1>2
<1>4. Numbered /\ Passed BY <1>2, <1>3 DEF Numbered, Passed
<1>5. InOrder BY <1>3 DEF InOrder
<1>6. EvidencePoints BY <1>3 DEF EvidencePoints
<1>7. Offered BY <1>3 DEF Offered
<1> QED BY <1>1, <1>4, <1>5, <1>6, <1>7 DEF OrderInv

\* No step leaves it.
LEMMA OrderNext == OrderInv /\ [Next]_vars => OrderInv'
<1> SUFFICES ASSUME OrderInv, [Next]_vars PROVE OrderInv' OBVIOUS
<1>1. RoomInv /\ Numbered /\ Passed /\ InOrder /\ EvidencePoints /\ Offered BY DEF OrderInv
<1>2. RoomInv' BY <1>1, EvidenceNext
<1>3. Numbered' BY <1>1, NumberedNext
<1>4. Passed' /\ InOrder' BY <1>1, InOrderNext
<1>5. EvidencePoints' BY <1>1, EvidencePointsNext
<1>6. Offered' BY <1>1, OfferedNext
<1> QED BY <1>2, <1>3, <1>4, <1>5, <1>6 DEF OrderInv

\* Whatever fails, waits or is ingested by the wallet itself, other members' records take effect
\* in the order of the room.
THEOREM InOrderAlways == Spec => []InOrder
<1>1. OrderInv => InOrder BY DEF OrderInv
<1> QED BY <1>1, OrderInit, OrderNext, PTL DEF Spec

\* The sequence numbers a deal keeps are those of its own records, whichever copy came first.
THEOREM EvidencePointsAlways == Spec => []EvidencePoints
<1>1. OrderInv => EvidencePoints BY DEF OrderInv
<1> QED BY <1>1, OrderInit, OrderNext, PTL DEF Spec

\* An offer ingested under one key is closed by one contract at most, however accepts interleave.
THEOREM ClosedOnceAlways == Spec => []ClosedOnceUnlessRedelivered
<1>1. OrderInv => ClosedOnceUnlessRedelivered BY ClosedByTwo DEF OrderInv
<1> QED BY <1>1, OrderInit, OrderNext, PTL DEF Spec

\* The deal found under a contract id never moves back, if its offer has been ingested under one
\* key only.
THEOREM ForwardAlways == Spec => Forward
<1>1. OrderInv /\ [Next]_vars =>
          [\A c \in Contracts : byContract[c] # 0 /\ ~OfferedTwice(c.offer) =>
               /\ byContract'[c] # 0
               /\ deals'[byContract'[c]].status \in Later(deals[byContract[c]].status)]_vars
    <2> SUFFICES ASSUME OrderInv, [Next]_vars,
                        NEW c \in Contracts, byContract[c] # 0, ~OfferedTwice(c.offer)
                 PROVE  /\ byContract'[c] # 0
                        /\ deals'[byContract'[c]].status \in Later(deals[byContract[c]].status)
        OBVIOUS
    <2> QED BY ForwardStep DEF OrderInv
<1> QED BY <1>1, OrderInit, OrderNext, PTL DEF Spec, Forward
=============================================================================
