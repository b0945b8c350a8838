------------------------------- MODULE DealRoom -------------------------------
(***************************************************************************)
(* A chat room and one member's RoomDealAdapter                            *)
(* (tclk-rail-evm/src/transport.ts).                                       *)
(*                                                                         *)
(* Anybody appends signed records to the room, in any order and with any   *)
(* frame; Me is a member whose adapter turns the transcript into deals.    *)
(* Two tasks share the adapter: sync() reads the transcript and ingests it *)
(* record by record, and an operation of the wallet sends a record of its  *)
(* own and ingests it itself.  A task gives way at every await: between    *)
(* two records, while a record is being sent, and while an accept waits    *)
(* for the address resolver.                                               *)
(*                                                                         *)
(* A room server that is reached over Http numbers the records, so the     *)
(* sender ingests its own with sequence number 0 and meets it again in the *)
(* transcript; the in-memory transport returns the final number.           *)
(*                                                                         *)
(* A signature covers the frame and a nonce, so a signed message ("post")  *)
(* is one of a kind; Posts are those anybody may make in this instance.    *)
(***************************************************************************)
EXTENDS Deal, Sequences

CONSTANTS
    Me,          \* the DID of the observer
    Posts,       \* [from, nonce, frame]: the messages that may be sent
    Http,        \* BOOLEAN
    MaxRecords,  \* bound: the length of the transcript
    MaxMs        \* bound: the last instant

\* A line that is not tclk/1, and one that decodeTclkFrame refuses.
OtherFrames == [type : {"chat", "malformed"}, from : Dids]

Frames == OfferFrames \cup DealFrames \cup OtherFrames

ASSUME RoomAssumption ==
    /\ Me \in Dids
    /\ Posts \subseteq [from : Dids, nonce : Nat, frame : Frames]
    /\ Http \in BOOLEAN
    /\ MaxRecords \in Nat /\ MaxMs \in Nat

VARIABLES
    room,        \* the transcript: Seq(Record)
    deals,       \* every DealManager created so far
    byOffer,     \* dealsByOffer: [Offers -> index of a deal, 0 for none]
    byContract,  \* dealsByContract: [Contracts -> index of a deal, 0 for none]
    seen,        \* seenRecordKeys
    sync,        \* the task running sync()
    own,         \* the record Me has sent and not ingested yet, or NoRecord
    now          \* Date.now, the same for everybody

vars == <<room, deals, byOffer, byContract, seen, sync, own, now>>
adapter == <<deals, byOffer, byContract, seen>>

\* A record in the room is identified by its position, and so is its signature.
Record == [seq : Nat, sig : Nat, ts : Nat, from : Dids, nonce : Nat, frame : Frames]

NoRecord == [seq |-> 0, sig |-> 0]

Key(r) == <<r.seq, r.sig>>

\* sync(): the transcript it fetched ends at upto, the next record is next; the
\* deal an accept was looked up for, while the resolver is awaited.
Sync == [pc : {"idle", "records", "resolver"}, upto : Nat, next : Nat, deal : Nat]

NoSync == [pc |-> "idle", upto |-> 0, next |-> 0, deal |-> 0]

Init == /\ room = << >>
        /\ deals = << >>
        /\ byOffer = [o \in Offers |-> 0]
        /\ byContract = [c \in Contracts |-> 0]
        /\ seen = {}
        /\ sync = NoSync
        /\ own = NoRecord
        /\ now = 0

-----------------------------------------------------------------------------
(* ingestRecord() *)

\* Mutant: no record is recognised as one delivered before.
NeverDelivered(r) == FALSE

Delivered(r) == Key(r) \in seen

Remember(r) == seen' = seen \cup {Key(r)}

Ignored(r) == r.frame.type = "chat"

WellFormed(r) == r.frame.type # "malformed" /\ r.frame.from = r.from

\* An offer always makes a new deal, which takes the place of an earlier one.
OffersDeal(r) == /\ WellFormed(r) /\ r.frame.type = "offer"
                 /\ r.frame.offer.claimByMs < r.frame.offer.refundAfterMs
                 /\ r.ts < r.frame.offer.expiresMs
                 /\ r.frame.offer = r.frame.id

AddDeal(r) ==
    /\ deals' = Append(deals, recordLedgerSequence(NewDeal(r.frame.offer), "offer", r.seq))
    /\ byOffer' = [byOffer EXCEPT ![r.frame.id] = Len(deals) + 1]
    /\ UNCHANGED byContract

\* The deal a frame is about, 0 if there is none.
Target(f) ==
    CASE f.type = "accept" -> byOffer[f.ref]
      [] f.type = "cancel" /\ f.contract \in Offers -> byOffer[f.contract]
      [] OTHER -> byContract[f.contract]

TakesDeal(r, i) == /\ WellFormed(r) /\ r.frame.type \notin {"offer", "chat"}
                   /\ i # 0
                   /\ Takes(deals[i], r.frame, r.ts)

ChangeDeal(r, i) ==
    /\ deals' = [deals EXCEPT ![i] = recordLedgerSequence(After(@, r.frame), r.frame.type, r.seq)]
    /\ byContract' = IF r.frame.type = "accept"
                     THEN [byContract EXCEPT ![deals'[i].contractId] = i]
                     ELSE byContract
    /\ UNCHANGED byOffer

\* The record has its effect on the deal at i, a new one if it is an offer.
Ingested(r, i) == /\ \/ OffersDeal(r) /\ AddDeal(r)
                     \/ TakesDeal(r, i) /\ ChangeDeal(r, i)
                     \/ Ignored(r) /\ UNCHANGED <<deals, byOffer, byContract>>
                  /\ Remember(r)

\* ingestRecord() throws, and leaves everything as it was.
Refused(r, i) == ~OffersDeal(r) /\ ~TakesDeal(r, i) /\ ~Ignored(r)

TargetOf(r) == IF WellFormed(r) /\ r.frame.type \notin {"offer", "chat"}
               THEN Target(r.frame) ELSE 0

-----------------------------------------------------------------------------
(* sync() *)

\* fetchMessages() returns the transcript as it is now.
Fetch == /\ sync.pc = "idle"
         /\ room # << >>
         /\ sync' = [pc |-> "records", upto |-> Len(room), next |-> 1, deal |-> 0]
         /\ UNCHANGED <<room, adapter, own, now>>

\* Mutant: one record too many.
AdvanceTooFar == sync' = IF sync.next > sync.upto THEN NoSync
                         ELSE [sync EXCEPT !.pc = "records", !.next = @ + 1, !.deal = 0]

Advance == sync' = IF sync.next = sync.upto THEN NoSync
                   ELSE [sync EXCEPT !.pc = "records", !.next = @ + 1, !.deal = 0]

Current == room[sync.next]

\* A record delivered before has no effect.
Skip == /\ sync.pc = "records"
        /\ Delivered(Current)
        /\ Advance
        /\ UNCHANGED <<room, adapter, own, now>>

\* An accept of an offer we know waits for the resolver.
Resolve == /\ sync.pc = "records"
           /\ ~Delivered(Current)
           /\ WellFormed(Current) /\ Current.frame.type = "accept"
           /\ byOffer[Current.frame.ref] # 0
           /\ sync' = [sync EXCEPT !.pc = "resolver", !.deal = byOffer[Current.frame.ref]]
           /\ UNCHANGED <<room, adapter, own, now>>

Ready(i) == \/ /\ sync.pc = "records" /\ ~Delivered(Current)
               /\ Current.frame.type # "accept"
               /\ i = TargetOf(Current)
            \/ sync.pc = "resolver" /\ i = sync.deal

Ingest == \E i \in 0..Len(deals) :
             /\ Ready(i)
             /\ Ingested(Current, i)
             /\ Advance
             /\ UNCHANGED <<room, own, now>>

\* Mutant: sync() goes on with the next record.
PassOver == /\ \/ \E i \in 0..Len(deals) : Ready(i) /\ Refused(Current, i)
               \/ /\ sync.pc = "records" /\ ~Delivered(Current)
                  /\ Current.frame.type = "accept" /\ TargetOf(Current) = 0
            /\ Advance
            /\ UNCHANGED <<room, adapter, own, now>>

\* The first record that throws ends the whole of sync().
Abort == /\ \/ \E i \in 0..Len(deals) : Ready(i) /\ Refused(Current, i)
            \/ /\ sync.pc = "records" /\ ~Delivered(Current)
               /\ Current.frame.type = "accept" /\ TargetOf(Current) = 0
         /\ sync' = NoSync
         /\ UNCHANGED <<room, adapter, own, now>>

-----------------------------------------------------------------------------
(* Sending *)

\* The nonce of a message is never used again.
Fresh(p) == \A n \in DOMAIN room : p # [from |-> room[n].from, nonce |-> room[n].nonce,
                                         frame |-> room[n].frame]

\* Ids are hashes: nobody can name an offer or a contract not yet published.
Published(id) == \E n \in DOMAIN room :
                    \/ room[n].frame.type = "offer" /\ room[n].frame.id = id
                    \/ room[n].frame.type = "accept" /\ room[n].frame.contract = id

Sayable(f) == CASE f.type = "accept" -> Published(f.ref)
                [] f.type \in {"offer", "chat", "malformed"} -> TRUE
                [] OTHER -> Published(f.contract)

MaySend(p) == Len(room) < MaxRecords /\ Fresh(p) /\ Sayable(p.frame)

Sent(p) == [seq |-> Len(room) + 1, sig |-> Len(room) + 1, ts |-> now, from |-> p.from,
            nonce |-> p.nonce, frame |-> p.frame]

Post(p) == /\ p.from # Me
           /\ MaySend(p)
           /\ room' = Append(room, Sent(p))
           /\ UNCHANGED <<adapter, sync, own, now>>

\* The server has the record; the answer is on its way.
Send(p) == /\ p.from = Me
           /\ own = NoRecord
           /\ MaySend(p)
           /\ room' = Append(room, Sent(p))
           /\ own' = IF Http THEN [Sent(p) EXCEPT !.seq = 0] ELSE Sent(p)
           /\ UNCHANGED <<adapter, sync, now>>

\* The wallet ingests what it sent; its own accept does not ask the resolver.
IngestOwn == /\ own # NoRecord
             /\ IF Delivered(own)
                THEN UNCHANGED adapter
                ELSE \/ Ingested(own, TargetOf(own))
                     \/ Refused(own, TargetOf(own)) /\ UNCHANGED adapter
             /\ own' = NoRecord
             /\ UNCHANGED <<room, sync, now>>

\* The answer is lost: the wallet does not know that the record was taken.
LoseAnswer == /\ Http /\ own # NoRecord
              /\ own' = NoRecord
              /\ UNCHANGED <<room, adapter, sync, now>>

-----------------------------------------------------------------------------
(* What the wallet application calls on a deal it holds. *)

AppChange(i, d) == /\ deals' = [deals EXCEPT ![i] = d]
                   /\ UNCHANGED <<room, byOffer, byContract, seen, sync, own, now>>

\* The chain holds the lock, the claim, the refund.
Verify(i) == CanVerify(deals[i], deals[i].contractId) /\ AppChange(i, markVerified(deals[i]))
Claim(i) == CanClaim(deals[i]) /\ AppChange(i, applyClaim(deals[i]))
Refund(i) == CanRefund(deals[i], PayerOf(deals[i]), now) /\ AppChange(i, applyRefund(deals[i]))

\* cancelDeal() cancels first and then tells the room.
Cancel(i) == CanCancel(deals[i], Me) /\ AppChange(i, applyCancel(deals[i]))

Tick == /\ now < MaxMs
        /\ now' = now + 1
        /\ UNCHANGED <<room, adapter, sync, own>>

Next == \/ \E p \in Posts : Post(p) \/ Send(p)
        \/ Fetch \/ Skip \/ Resolve \/ Ingest \/ Abort
        \/ IngestOwn \/ LoseAnswer
        \/ \E i \in DOMAIN deals : Verify(i) \/ Claim(i) \/ Refund(i) \/ Cancel(i)
        \/ Tick

Spec == Init /\ [][Next]_vars

-----------------------------------------------------------------------------
(* Properties *)

\* Types of the state; every index points at a deal, a position at a record.
TypeOK == /\ room \in Seq(Record)
          /\ deals \in Seq(Deal)
          /\ byOffer \in [Offers -> 0..Len(deals)]
          /\ byContract \in [Contracts -> 0..Len(deals)]
          /\ seen \subseteq Nat \X Nat
          /\ sync \in Sync
          /\ sync.pc # "idle" => sync.next \in 1..sync.upto /\ sync.upto <= Len(room)
          /\ sync.deal \in 0..Len(deals)
          /\ sync.pc = "resolver" => sync.deal # 0
          /\ own \in Record \cup {NoRecord}
          /\ now \in Nat

\* A deal has a contract once its offer is accepted, and one of that offer.
Bound(d) == /\ d.contractId # NoContract => d.contractId.offer = d.offer
            /\ d.contractId = NoContract => d.status \in {"OFFERED", "CANCELLED"}
            /\ d.status = "OFFERED" => d.contractId = NoContract

\* A deal is found under the contract and the offer it is about, and under a
\* contract only once it is closed, whatever a task looked up before it waited.
Registered == /\ \A c \in Contracts : byContract[c] # 0 => deals[byContract[c]].contractId = c
              /\ \A o \in Offers : byOffer[o] # 0 => deals[byOffer[o]].offer = o
              /\ \A i \in DOMAIN deals : Bound(deals[i])

\* The record in which p does something about contract c.
Says(r, p, type, c) == /\ r.from = p
                       /\ r.frame.type = type /\ r.frame.from = p
                       /\ r.frame.contract = c

Accepts(r, c) == Says(r, c.from, "accept", c) /\ r.ts < c.offer.expiresMs

Locks(r, c) == /\ Says(r, Payer(c), "lock", c)
               /\ r.frame.rail \in c.offer.rails
               /\ r.ts < c.offer.refundAfterMs

Reveals(r, c) == /\ Says(r, Payee(c), "reveal", c)
                 /\ Sha256[r.frame.secret] = c.statement
                 /\ r.ts < c.offer.refundAfterMs

BackedBy(d, records, t) ==
    /\ d.contractId # NoContract => \E r \in records : Accepts(r, d.contractId)
    /\ d.status \in {"LOCKED", "VERIFIED", "REVEALED", "CLAIMED", "REFUNDED"} =>
          \E r \in records : Locks(r, d.contractId)
    /\ d.status \in {"REVEALED", "CLAIMED"} => \E r \in records : Reveals(r, d.contractId)
    /\ d.status = "REFUNDED" => t >= d.offer.refundAfterMs
    /\ d.status \in {"OFFERED", "ACCEPTED", "CANCELLED"} => d.rail = NoRail

Records == {room[n] : n \in DOMAIN room}

\* The status of a deal has its evidence in the room, said by the party whose
\* place it was to say it, in time; and a deal is cancelled or locked, not both.
Backed == \A i \in DOMAIN deals : BackedBy(deals[i], Records, now)

\* Other members' records take effect in the order of the room: none is passed
\* over because it was refused once, or while somebody else was being awaited.
InOrder == \A n \in DOMAIN room :
              <<n, n>> \in seen /\ room[n].from # Me =>
                  \A m \in 1..(n - 1) : <<m, m>> \in seen

\* A recorded sequence number is that of a record of this stage of this deal, or
\* the 0 of a record the server had not numbered yet.
EvidencePoints ==
    \A i \in DOMAIN deals, stage \in Stages \ {"offer"} :
        LET n == deals[i].sequences[stage] IN
        n \notin {NoSeq, 0} => /\ n \in DOMAIN room
                              /\ room[n].frame.type = stage
                              /\ room[n].frame.contract = deals[i].contractId

\* An offer is closed by one contract.
ClosedOnce == \A c1, c2 \in Contracts :
    byContract[c1] # 0 /\ byContract[c2] # 0 /\ c1.offer = c2.offer => c1 = c2

\* The keys under which the adapter has ingested an offer: of the wallet's own copy, numbered 0
\* over HTTP, of that same record as the server numbered it, and of any other that repeats it.
OfferKeys(o) == {k \in seen : /\ room[k[2]].frame.type = "offer"
                              /\ room[k[2]].frame.id = o}

OfferedTwice(o) == \E k, l \in OfferKeys(o) : k # l

\* Only an offer that was ingested under two keys is closed by two contracts, whoever accepts it
\* how often and whatever was awaited meanwhile.
ClosedOnceUnlessRedelivered == \A c1, c2 \in Contracts :
    byContract[c1] # 0 /\ byContract[c2] # 0 /\ c1.offer = c2.offer /\ c1 # c2 =>
        OfferedTwice(c1.offer)

Later(status) == CASE status = "OFFERED" -> DealStatus
                   [] status = "ACCEPTED" -> DealStatus \ {"OFFERED"}
                   [] status = "LOCKED" -> DealStatus \ {"OFFERED", "ACCEPTED", "CANCELLED"}
                   [] status = "VERIFIED" -> {"VERIFIED", "REVEALED", "CLAIMED", "REFUNDED"}
                   [] status = "REVEALED" -> {"REVEALED", "CLAIMED", "REFUNDED"}
                   [] OTHER -> {status}

\* What the wallet finds under a contract id only ever moves forward, also when the accept is
\* said again, unless its offer was ingested under two keys.
Forward == [][\A c \in Contracts : byContract[c] # 0 /\ ~OfferedTwice(c.offer) =>
                  /\ byContract'[c] # 0
                  /\ deals'[byContract'[c]].status \in Later(deals[byContract[c]].status)]_vars
=============================================================================
