--------------------------- MODULE DealWalletProofs ---------------------------
(***************************************************************************)
(* Proofs about DealWallet: whatever fails, is lost or is called again,    *)
(* what wallets tell the room and hold of the deal agrees with the chain,  *)
(* and the secret is kept until others can read it.                        *)
(***************************************************************************)
EXTENDS DealWallet, DealProofs, SequenceTheorems

-----------------------------------------------------------------------------
(* The inductive invariant.  Its parts are operators of the values they are  *)
(* about, e the escrow's status, r the transactions mined without effect, so *)
(* that a step is a matter of other arguments.                               *)

WRecord == [frame : OfferFrames \cup DealFrames, ts : Nat]
WCall == [wallet : Wallets, op : Ops \cup {"restart"}, key : Keys, time : Nat]

Types ==
    /\ room \in Seq(WRecord) /\ Len(room) >= 1
    /\ deals \in [Wallets -> Deal \cup {NoDeal}]
    /\ seen \in [Wallets -> SUBSET (Nat \X Nat)]
    /\ preimage \in BOOLEAN
    /\ tasks \in [Tasks -> Task]
    /\ saved \in [Wallets -> Outcomes \cup {"none"}]
    /\ escrow \in {"None", "Locked", "Claimed", "Refunded"}
    /\ now \in Nat
    /\ todo \subseteq WCall

\* The escrow ended with an outcome, as far as a wallet can know.
Over(o, e, r) == /\ o = "claimed" => e = "Claimed" \/ "claim" \in r
                 /\ o = "refunded" => e = "Refunded" \/ "refund" \in r

\* A deal agrees with the chain.
Sound(d, e, r) ==
    found(d) => /\ d.status \in {"LOCKED", "VERIFIED", "REVEALED"} => e # "None"
                /\ isTerminal(d) => Over(OutcomeOf(d.status), e, r)

\* A frame at position n of the room: nothing but the first record is an offer, an accept
\* is of our contract, and what the frame says has happened.
True(n, f, e, r) ==
    /\ f.type = "offer" => n = 1
    /\ f.type = "accept" => f.contract = Contract
    /\ f.type \in {"lock", "reveal"} => e # "None"
    /\ f.type = "refund" => Over("refunded", e, r)
    /\ f.type = "receipt" => Over(f.outcome, e, r)

\* A claim is only sent for an escrow that exists, and a refund when nothing else can happen
\* to it any more.
Asked(p, e, r, time) ==
    /\ "claim" \in p \cup r => e # "None"
    /\ "refund" \in p \cup r => time >= Deadline /\ e \in {"Locked", "Refunded"}

\* The operations that have something to say, what they say, and what has happened then.
Tellers == {"lock", "reveal", "claim", "refund", "cancel"}
Words(op) == IF op = "refund" THEN {"refund", "receipt"}
             ELSE IF op = "claim" THEN {"receipt"} ELSE {op}
Happened(op, e, r) == /\ op \in {"lock", "reveal"} => e # "None"
                      /\ op = "claim" => Over("claimed", e, r)
                      /\ op = "refund" => Over("refunded", e, r)

\* A task k of a wallet that holds d, over the room rm and the unmined transactions p.
Fine(k, d, rm, e, p, r) ==
    /\ k.pc = "enter" => k.op \in Ops
    /\ k.op \in Tellers => k.says # << >> /\ \A i \in 1..Len(k.says) : k.says[i] \in Words(k.op)
    /\ k.op \in Tellers /\ k.pc # "enter" => found(d)
    /\ k.pc = "search" => k.op = "claim"
    /\ k.pc \in {"submit", "wait", "recheck"} => k.op \in {"lock", "claim", "refund"}
    /\ k.pc = "verify" => k.op = "lock"
    /\ k.pc = "wait" => /\ k.op = "claim" => "claim" \in p \/ Over("claimed", e, r)
                        /\ k.op = "refund" => "refund" \in p \/ Over("refunded", e, r)
    /\ k.pc \in {"send", "ingest"} => k.op \in Tellers /\ Happened(k.op, e, r)
    /\ k.pc = "ingest" => /\ k.at > 1 /\ k.at <= Len(rm)
                          /\ k.op = "reveal" => rm[k.at].frame.type = "reveal"
    /\ k.pc = "records" => k.at >= 1 /\ k.at <= k.upto /\ k.upto <= Len(rm)
    /\ k.pc = "save" => found(d) /\ isTerminal(d)

\* What a wallet w holds and has stored; a wallet with a deal has met the offer.
WalletFine(w) == /\ Sound(deals[w], escrow, reverted)
                 /\ saved[w] # "none" => Over(saved[w], escrow, reverted)
                 /\ deals[w] # NoDeal => <<1, 1>> \in seen[w]

RoomFine == \A n \in DOMAIN room : True(n, room[n].frame, escrow, reverted)
TasksFine == \A t \in Tasks : Fine(tasks[t], deal(t), room, escrow, pool, reverted)

IInv == /\ Types
        /\ RoomFine
        /\ \A w \in Wallets : WalletFine(w)
        /\ Asked(pool, escrow, reverted, now)
        /\ TasksFine

-----------------------------------------------------------------------------
(* The contract, the chain and the deals *)

\* Who and what the contract is about.
LEMMA ContractFacts ==
    /\ Contract \in Contracts /\ Contract # NoContract
    /\ Contract.offer \in Offers /\ Contract.from \in Dids /\ Contract.statement \in Digests
    /\ payer \in Dids /\ payee \in Dids /\ Deadline \in Nat
    /\ \A t \in Tasks : WalletOf[t] \in Wallets
<1>1. Contract \in Contracts /\ WalletOf \in [Tasks -> Wallets]
    BY WalletAssumption
<1>2. Contract.offer \in Offers /\ Contract.from \in Dids /\ Contract.statement \in Digests
    BY <1>1 DEF Contracts
<1>3. Contract.offer \in Offer
    BY <1>2, DealAssumption
<1>4. Contract.offer.from \in Dids /\ Deadline \in Nat
    BY <1>3 DEF Offer, Deadline
<1>5. payer \in Dids /\ payee \in Dids
    BY <1>2, <1>4 DEF payer, payee, Payer, Payee
<1>6. Contract # NoContract
    BY <1>1, DealAssumption DEF Contracts
<1> QED
    BY <1>1, <1>2, <1>4, <1>5, <1>6

\* From state to state of the chain nothing that happened is undone.
Onward(e, r, f, s) == /\ e = "Claimed" => f = "Claimed"
                      /\ e = "Refunded" => f = "Refunded"
                      /\ e # "None" => f # "None"
                      /\ r \subseteq s

\* What agreed with the chain goes on to agree.
LEMMA StillTrue ==
    ASSUME NEW e, NEW r, NEW f, NEW s, Onward(e, r, f, s)
    PROVE  /\ \A o : Over(o, e, r) => Over(o, f, s)
           /\ \A d : Sound(d, e, r) => Sound(d, f, s)
           /\ \A n, g : True(n, g, e, r) => True(n, g, f, s)
           /\ \A op : Happened(op, e, r) => Happened(op, f, s)
<1>1. \A o : Over(o, e, r) => Over(o, f, s)
    BY DEF Onward, Over
<1>2. \A d : Sound(d, e, r) => Sound(d, f, s)
    BY <1>1 DEF Onward, Sound
<1>3. \A n, g : True(n, g, e, r) => True(n, g, f, s)
    BY <1>1 DEF Onward, True
<1>4. \A op : Happened(op, e, r) => Happened(op, f, s)
    BY <1>1 DEF Onward, Happened
<1> QED
    BY <1>1, <1>2, <1>3, <1>4

\* A deal a wallet has stays the deal of this contract, and ended if it was.
Kept(d, c) == found(d) => /\ found(c)
                          /\ isTerminal(d) => isTerminal(c)

\* The methods a wallet calls on its own account.
LEMMA MethodEffect ==
    ASSUME NEW d \in Deal
    PROVE  /\ applyClaim(d) \in Deal /\ applyClaim(d).contractId = d.contractId
           /\ applyClaim(d).status = "CLAIMED"
           /\ applyRefund(d) \in Deal /\ applyRefund(d).contractId = d.contractId
           /\ applyRefund(d).status = "REFUNDED"
           /\ applyCancel(d) \in Deal /\ applyCancel(d).contractId = d.contractId
           /\ applyCancel(d).status = "CANCELLED"
           /\ markVerified(d) \in Deal /\ markVerified(d).contractId = d.contractId
           /\ markVerified(d).status = "VERIFIED"
BY DEF applyClaim, applyRefund, applyCancel, markVerified, Deal, DealStatus

\* They leave a deal that agrees with the chain, if what they say has happened.
LEMMA MethodSound ==
    ASSUME NEW d \in Deal, found(d), NEW e, NEW r, Sound(d, e, r)
    PROVE  /\ Over("claimed", e, r) => /\ claimed(d) \in Deal /\ Sound(claimed(d), e, r)
                                       /\ Kept(d, claimed(d))
           /\ Over("refunded", e, r) /\ ~isTerminal(d) =>
                 /\ applyRefund(d) \in Deal /\ Sound(applyRefund(d), e, r)
                 /\ Kept(d, applyRefund(d))
           /\ applyCancel(d) \in Deal /\ Sound(applyCancel(d), e, r) /\ Kept(d, applyCancel(d))
           /\ d.status = "LOCKED" => /\ markVerified(d) \in Deal /\ Sound(markVerified(d), e, r)
                                     /\ Kept(d, markVerified(d))
<1>0. NoDeal \notin Deal
    BY WalletAssumption
<1>1. ASSUME Over("claimed", e, r)
      PROVE  claimed(d) \in Deal /\ Sound(claimed(d), e, r) /\ Kept(d, claimed(d))
    <2>1. CASE d.status = "REVEALED"
        <3>1. claimed(d) = applyClaim(d)
            BY <2>1 DEF claimed
        <3>2. claimed(d) \in Deal /\ claimed(d).contractId = d.contractId
              /\ claimed(d).status = "CLAIMED"
            BY <3>1, MethodEffect
        <3>3. Sound(claimed(d), e, r)
            BY <1>1, <3>2 DEF Sound, OutcomeOf
        <3> QED
            BY <1>0, <3>2, <3>3 DEF Kept, found, isTerminal
    <2>2. CASE d.status # "REVEALED"
        BY <2>2 DEF claimed, Kept
    <2> QED
        BY <2>1, <2>2
<1>2. ASSUME Over("refunded", e, r), ~isTerminal(d)
      PROVE  applyRefund(d) \in Deal /\ Sound(applyRefund(d), e, r) /\ Kept(d, applyRefund(d))
    BY <1>0, <1>2, MethodEffect DEF Sound, OutcomeOf, Over, Kept, found, isTerminal
<1>3. applyCancel(d) \in Deal /\ Sound(applyCancel(d), e, r)
    BY MethodEffect DEF Sound, OutcomeOf, Over, isTerminal
<1>4. Kept(d, applyCancel(d))
    BY <1>0, MethodEffect DEF Kept, found, isTerminal
<1>5. ASSUME d.status = "LOCKED"
      PROVE  markVerified(d) \in Deal /\ Sound(markVerified(d), e, r) /\ Kept(d, markVerified(d))
    BY <1>0, <1>5, MethodEffect DEF Sound, Kept, found, isTerminal
<1> QED
    BY <1>1, <1>2, <1>3, <1>4, <1>5

-----------------------------------------------------------------------------
(* Steps of a task *)

\* A record that was in the room stays where it is.
Longer(rm, rm2) == Len(rm) <= Len(rm2) /\ \A n \in 1..Len(rm) : rm2[n] = rm[n]

\* The other tasks go on to be fine when the room, the chain and the deals move on.
LEMMA StillFine ==
    ASSUME NEW k \in Task, NEW d, NEW c, NEW rm \in Seq(WRecord), NEW rm2 \in Seq(WRecord),
           NEW e, NEW p, NEW r, NEW f, NEW q, NEW s,
           Fine(k, d, rm, e, p, r), Kept(d, c), Longer(rm, rm2), Onward(e, r, f, s),
           "claim" \in p => "claim" \in q \/ Over("claimed", f, s),
           "refund" \in p => "refund" \in q \/ Over("refunded", f, s)
    PROVE  Fine(k, c, rm2, f, q, s)
<1>1. /\ Over("claimed", e, r) => Over("claimed", f, s)
      /\ Happened(k.op, e, r) => Happened(k.op, f, s)
      /\ Over("refunded", e, r) => Over("refunded", f, s)
    BY StillTrue
<1>2. found(d) => found(c)
    BY DEF Kept
<1>3. k.pc = "wait" => /\ k.op = "claim" => "claim" \in q \/ Over("claimed", f, s)
                       /\ k.op = "refund" => "refund" \in q \/ Over("refunded", f, s)
    BY <1>1 DEF Fine
<1>4. /\ k.at \in Nat /\ k.upto \in Nat /\ Len(rm) \in Nat /\ Len(rm2) \in Nat
      /\ Len(rm) <= Len(rm2)
    BY DEF Task, Longer
<1>5. k.pc = "ingest" => /\ k.at > 1 /\ k.at <= Len(rm2)
                         /\ k.op = "reveal" => rm2[k.at].frame.type = "reveal"
    BY <1>4 DEF Fine, Longer
<1>6. k.pc = "records" => k.at >= 1 /\ k.at <= k.upto /\ k.upto <= Len(rm2)
    BY <1>4 DEF Fine
<1>7. k.pc = "save" => found(c) /\ isTerminal(c)
    BY DEF Fine, Kept
<1> QED
    BY <1>1, <1>2, <1>3, <1>5, <1>6, <1>7 DEF Fine

\* A task t takes a step to k, its wallet holds d then; the room may get longer, and more
\* transactions may wait to be mined.
LEMMA TaskStep ==
    ASSUME IInv, NEW t \in Tasks, NEW k \in Task, NEW d \in Deal \cup {NoDeal},
           tasks' = [tasks EXCEPT ![t] = k],
           deals' = [deals EXCEPT ![WalletOf[t]] = d],
           Kept(deal(t), d), Sound(d, escrow, reverted),
           seen' \in [Wallets -> SUBSET (Nat \X Nat)],
           \A w \in Wallets : seen[w] \subseteq seen'[w],
           d # NoDeal => <<1, 1>> \in seen'[WalletOf[t]],
           preimage' \in BOOLEAN,
           saved' \in [Wallets -> Outcomes \cup {"none"}],
           \A w \in Wallets : saved'[w] # "none" => Over(saved'[w], escrow, reverted),
           room' \in Seq(WRecord), Longer(room, room'),
           \A n \in DOMAIN room' : True(n, room'[n].frame, escrow, reverted),
           pool \subseteq pool', Asked(pool', escrow, reverted, now),
           Fine(k, d, room', escrow, pool', reverted),
           UNCHANGED <<escrow, reverted, now>>, todo' \subseteq todo
    PROVE  IInv'
<1>0. WalletOf[t] \in Wallets
    BY ContractFacts
<1>1. Types'
    <2>1. tasks' \in [Tasks -> Task]
        BY DEF IInv, Types
    <2>2. deals' \in [Wallets -> Deal \cup {NoDeal}]
        BY <1>0 DEF IInv, Types
    <2>3. Len(room') >= 1
        BY DEF IInv, Types, Longer
    <2> QED
        BY <2>1, <2>2, <2>3 DEF IInv, Types
<1>2. RoomFine'
    BY DEF RoomFine
<1>3. ASSUME NEW w \in Wallets PROVE WalletFine(w)'
    <2>1. CASE w = WalletOf[t]
        <3>1. deals'[w] = d
            BY <2>1 DEF IInv, Types
        <3> QED
            BY <2>1, <3>1 DEF WalletFine
    <2>2. CASE w # WalletOf[t]
        <3>1. deals'[w] = deals[w]
            BY <2>2 DEF IInv, Types
        <3> QED
            BY <3>1 DEF IInv, WalletFine
    <2> QED
        BY <2>1, <2>2
<1>4. Asked(pool, escrow, reverted, now)'
    OBVIOUS
<1>5. ASSUME NEW s \in Tasks
      PROVE  Fine(tasks'[s], deals'[WalletOf[s]], room', escrow, pool', reverted)
    <2>0. WalletOf[s] \in Wallets /\ tasks[s] \in Task
        BY ContractFacts DEF IInv, Types
    <2>1. CASE s = t
        <3>1. tasks'[s] = k /\ deals'[WalletOf[s]] = d
            BY <2>1, <2>0 DEF IInv, Types
        <3> QED
            BY <3>1
    <2>2. CASE s # t
        <3>1. tasks'[s] = tasks[s]
            BY <2>2 DEF IInv, Types
        <3>2. Kept(deals[WalletOf[s]], deals'[WalletOf[s]])
            <4>1. CASE WalletOf[s] = WalletOf[t]
                <5>1. deals'[WalletOf[s]] = d
                    BY <4>1, <2>0 DEF IInv, Types
                <5> QED
                    BY <4>1, <5>1 DEF deal
            <4>2. CASE WalletOf[s] # WalletOf[t]
                <5>1. deals'[WalletOf[s]] = deals[WalletOf[s]]
                    BY <4>2, <2>0 DEF IInv, Types
                <5> QED
                    BY <5>1 DEF Kept
            <4> QED
                BY <4>1, <4>2
        <3>3. Fine(tasks[s], deals[WalletOf[s]], room, escrow, pool, reverted)
            BY DEF IInv, TasksFine, deal
        <3>4. Onward(escrow, reverted, escrow, reverted)
            BY DEF Onward
        <3>5. room \in Seq(WRecord)
            BY DEF IInv, Types
        <3>6. Fine(tasks[s], deals'[WalletOf[s]], room', escrow, pool', reverted)
            BY <2>0, <3>2, <3>3, <3>4, <3>5, StillFine
        <3> QED
            BY <3>1, <3>6
    <2> QED
        BY <2>1, <2>2
<1>6. TasksFine'
    BY <1>5 DEF TasksFine, deal
<1> QED
    BY <1>1, <1>2, <1>3, <1>4, <1>6 DEF IInv

\* A step that changes at most the task, its wallet's deal and the secret.
LEMMA LocalStep ==
    ASSUME IInv, NEW t \in Tasks, NEW k \in Task, NEW d \in Deal \cup {NoDeal},
           tasks' = [tasks EXCEPT ![t] = k],
           deals' = [deals EXCEPT ![WalletOf[t]] = d],
           Kept(deal(t), d), Sound(d, escrow, reverted),
           d # NoDeal => deal(t) # NoDeal,
           preimage' \in BOOLEAN,
           Fine(k, d, room, escrow, pool, reverted),
           UNCHANGED <<room, seen, saved, chain, now>>, todo' \subseteq todo
    PROVE  IInv'
<1>1. WalletOf[t] \in Wallets
    BY ContractFacts
<1>2. /\ room' = room /\ seen' = seen /\ saved' = saved /\ pool' = pool
      /\ UNCHANGED <<escrow, reverted, now>>
    BY DEF chain
<1>3. d # NoDeal => <<1, 1>> \in seen'[WalletOf[t]]
    BY <1>1, <1>2 DEF IInv, WalletFine, deal
<1>4. \A w \in Wallets : saved'[w] # "none" => Over(saved'[w], escrow, reverted)
    BY <1>2 DEF IInv, WalletFine
<1>5. Longer(room, room')
    BY <1>2 DEF Longer, IInv, Types
<1>6. \A n \in DOMAIN room' : True(n, room'[n].frame, escrow, reverted)
    BY <1>2 DEF IInv, RoomFine
<1>7. /\ seen' \in [Wallets -> SUBSET (Nat \X Nat)]
      /\ saved' \in [Wallets -> Outcomes \cup {"none"}]
      /\ room' \in Seq(WRecord)
      /\ \A w \in Wallets : seen[w] \subseteq seen'[w]
    BY <1>2 DEF IInv, Types
<1>8. pool \subseteq pool' /\ Asked(pool', escrow, reverted, now)
    BY <1>2 DEF IInv
<1>9. Fine(k, d, room', escrow, pool', reverted)
    BY <1>2
<1> QED
    BY <1>2, <1>3, <1>4, <1>5, <1>6, <1>7, <1>8, <1>9, TaskStep

\* A step that changes nothing but the task.
LEMMA QuietStep ==
    ASSUME IInv, NEW t \in Tasks, NEW k \in Task,
           tasks' = [tasks EXCEPT ![t] = k],
           Fine(k, deal(t), room, escrow, pool, reverted),
           UNCHANGED <<room, memory, saved, chain, now>>, todo' \subseteq todo
    PROVE  IInv'
<1>1. WalletOf[t] \in Wallets
    BY ContractFacts
<1>2. deal(t) \in Deal \cup {NoDeal} /\ Sound(deal(t), escrow, reverted) /\ preimage \in BOOLEAN
    BY <1>1 DEF IInv, Types, WalletFine, deal
<1>3. deals' = [deals EXCEPT ![WalletOf[t]] = deal(t)] /\ preimage' = preimage /\ seen' = seen
    BY <1>1 DEF IInv, Types, memory, deal
<1>4. Kept(deal(t), deal(t))
    BY DEF Kept
<1>5. UNCHANGED <<room, seen, saved, chain, now>>
    BY <1>3
<1> QED
    BY <1>2, <1>3, <1>4, <1>5, LocalStep

\* A task that has ended.
LEMMA IdleFine ==
    ASSUME NEW d, NEW rm, NEW e, NEW p, NEW r
    PROVE  Idle \in Task /\ Fine(Idle, d, rm, e, p, r)
<1>1. Idle \in Task
    BY DEF Idle, Task, Keys
<1>2. Idle.op = "none" /\ Idle.pc = "idle"
    BY DEF Idle
<1> QED
    BY <1>1, <1>2 DEF Fine, Tellers

\* A task that goes to pc.
LEMMA GoEffect ==
    ASSUME IInv, NEW t \in Tasks, NEW pc, Go(t, pc),
           pc \in {"check", "search", "submit", "wait", "recheck", "verify", "send", "save"}
    PROVE  \E k \in Task : /\ tasks' = [tasks EXCEPT ![t] = k]
                           /\ k.pc = pc /\ k.op = Op(t) /\ k.says = tasks[t].says
<1> DEFINE k == [tasks[t] EXCEPT !.pc = pc]
<1>1. tasks[t] \in Task
    BY DEF IInv, Types
<1>2. k \in Task /\ k.pc = pc /\ k.op = Op(t) /\ k.says = tasks[t].says
    BY <1>1 DEF Task, Op
<1>3. tasks' = [tasks EXCEPT ![t] = k]
    BY DEF Go
<1> QED
    BY <1>2, <1>3

\* A task that joins a queue.
LEMMA JoinEffect ==
    ASSUME IInv, NEW t \in Tasks, NEW op \in Ops, NEW key \in Keys, Join(t, op, key)
    PROVE  \E k \in Task : /\ tasks' = [tasks EXCEPT ![t] = k]
                           /\ \A d, rm, e, p, r : Fine(k, d, rm, e, p, r)
<1> DEFINE k == [tasks[t] EXCEPT !.op = op, !.key = key, !.pc = "enter", !.says = Says[op]]
<1>1. tasks[t] \in Task
    BY DEF IInv, Types
<1>2. Says[op] \in Seq(Stages \cup {"cancel"})
    <2>1. CASE op = "refund"
        <3>1. Says[op] = <<"refund", "receipt">>
            BY <2>1 DEF Says, Ops
        <3> QED
            BY <3>1 DEF Stages
    <2>2. CASE op \in {"lock", "reveal", "cancel"}
        <3>1. Says[op] = <<op>> /\ op \in Stages \cup {"cancel"}
            BY <2>2 DEF Says, Ops, Stages
        <3> QED
            BY <3>1
    <2>3. CASE op = "claim"
        <3>1. Says[op] = <<"receipt">>
            BY <2>3 DEF Says, Ops
        <3> QED
            BY <3>1 DEF Stages
    <2>4. CASE op \in {"sync", "verify", "archive"}
        <3>1. Says[op] = << >>
            BY <2>4 DEF Says, Ops
        <3> QED
            BY <3>1
    <2> QED
        BY <2>1, <2>2, <2>3, <2>4 DEF Ops
<1>3. k \in Task /\ k.pc = "enter" /\ k.op = op /\ k.says = Says[op]
    BY <1>1, <1>2 DEF Task
<1>4. op \in Tellers => Says[op] # << >> /\ \A i \in 1..Len(Says[op]) : Says[op][i] \in Words(op)
    <2>1. CASE op = "refund"
        <3>1. Says[op] = <<"refund", "receipt">>
            BY <2>1 DEF Says, Ops
        <3> QED
            BY <2>1, <3>1 DEF Words
    <2>2. CASE op = "claim"
        <3>1. Says[op] = <<"receipt">>
            BY <2>2 DEF Says, Ops
        <3> QED
            BY <2>2, <3>1 DEF Words
    <2>3. CASE op \in {"lock", "reveal", "cancel"}
        <3>1. Says[op] = <<op>>
            BY <2>3 DEF Says, Ops
        <3> QED
            BY <2>3, <3>1 DEF Words
    <2> QED
        BY <2>1, <2>2, <2>3 DEF Tellers
<1>5. tasks' = [tasks EXCEPT ![t] = k]
    BY DEF Join
<1>6. \A d, rm, e, p, r : Fine(k, d, rm, e, p, r)
    BY <1>3, <1>4 DEF Fine
<1> QED
    BY <1>3, <1>5, <1>6

\* What is known of a task that takes a step.
LEMMA TaskFacts ==
    ASSUME IInv, NEW t \in Tasks
    PROVE  /\ tasks[t] \in Task /\ WalletOf[t] \in Wallets
           /\ deal(t) \in Deal \cup {NoDeal}
           /\ Sound(deal(t), escrow, reverted)
           /\ found(deal(t)) => deal(t) \in Deal
           /\ Fine(tasks[t], deal(t), room, escrow, pool, reverted)
           /\ room \in Seq(WRecord) /\ Len(room) \in Nat /\ Len(room) >= 1
           /\ preimage \in BOOLEAN
BY ContractFacts DEF IInv, Types, WalletFine, TasksFine, deal, found

\* A call returns or throws, and nothing else changes.
LEMMA EndStep ==
    ASSUME IInv, NEW t \in Tasks, End(t), UNCHANGED <<room, memory, saved, chain, now>>,
           todo' \subseteq todo
    PROVE  IInv'
<1>1. Idle \in Task /\ Fine(Idle, deal(t), room, escrow, pool, reverted)
    BY IdleFine
<1>2. tasks' = [tasks EXCEPT ![t] = Idle]
    BY DEF End
<1> QED
    BY <1>1, <1>2, QuietStep

\* A task gets the mutex.
LEMMA EnterStep ==
    ASSUME IInv, NEW t \in Tasks, Enter(t)
    PROVE  IInv'
<1>1. UNCHANGED <<room, memory, saved, chain, now>> /\ todo' \subseteq todo /\ tasks[t].pc = "enter"
    BY DEF Enter, At
<1>2. CASE Admits(t) /\ Go(t, First[Op(t)])
    <2>1. /\ Op(t) \in Ops /\ tasks[t].op = Op(t) /\ found(deal(t))
          /\ Op(t) \in Tellers => /\ tasks[t].says # << >>
                                  /\ \A i \in 1..Len(tasks[t].says) : tasks[t].says[i] \in Words(Op(t))
        BY <1>1, <1>2, TaskFacts DEF Fine, Op, Admits
    <2>2. CASE Op(t) = "reveal"
        <3>1. First[Op(t)] = "send"
            BY <2>2 DEF First, Ops
        <3>2. PICK k \in Task : /\ tasks' = [tasks EXCEPT ![t] = k]
                                /\ k.pc = "send" /\ k.op = Op(t) /\ k.says = tasks[t].says
            BY <1>2, <3>1, GoEffect
        <3>3. escrow # "None"
            <4>1. deal(t).status \in {"VERIFIED", "LOCKED"}
                BY <1>2, <2>2 DEF Admits
            <4> QED
                BY <4>1, <2>1, TaskFacts DEF Sound
        <3>4. Fine(k, deal(t), room, escrow, pool, reverted)
            BY <2>1, <2>2, <3>2, <3>3 DEF Fine, Tellers, Happened
        <3> QED
            BY <1>1, <3>2, <3>4, QuietStep
    <2>3. CASE Op(t) = "archive"
        <3>1. First[Op(t)] = "save"
            BY <2>3 DEF First, Ops
        <3>2. PICK k \in Task : /\ tasks' = [tasks EXCEPT ![t] = k]
                                /\ k.pc = "save" /\ k.op = Op(t) /\ k.says = tasks[t].says
            BY <1>2, <3>1, GoEffect
        <3>3. isTerminal(deal(t))
            BY <1>2, <2>3 DEF Admits
        <3>4. Fine(k, deal(t), room, escrow, pool, reverted)
            BY <2>1, <2>3, <3>2, <3>3 DEF Fine, Tellers
        <3> QED
            BY <1>1, <3>2, <3>4, QuietStep
    <2>4. CASE Op(t) \notin {"reveal", "archive"}
        <3>1. First[Op(t)] = "check"
            BY <2>1, <2>4 DEF First, Ops
        <3>2. PICK k \in Task : /\ tasks' = [tasks EXCEPT ![t] = k]
                                /\ k.pc = "check" /\ k.op = Op(t) /\ k.says = tasks[t].says
            BY <1>2, <3>1, GoEffect
        <3>3. Fine(k, deal(t), room, escrow, pool, reverted)
            BY <2>1, <3>2 DEF Fine
        <3> QED
            BY <1>1, <3>2, <3>3, QuietStep
    <2> QED
        BY <2>2, <2>3, <2>4
<1>3. CASE End(t)
    BY <1>1, <1>3, EndStep
<1> QED
    BY <1>2, <1>3 DEF Enter

\* The room is searched for the secret.
LEMMA SearchStep ==
    ASSUME IInv, NEW t \in Tasks, Search(t)
    PROVE  IInv'
<1>1. /\ UNCHANGED <<room, memory, saved, chain, now>> /\ todo' \subseteq todo
      /\ tasks[t].pc = "search" /\ (Go(t, "submit") \/ End(t))
    BY DEF Search, At
<1>2. CASE Go(t, "submit")
    <2>1. PICK k \in Task : /\ tasks' = [tasks EXCEPT ![t] = k]
                            /\ k.pc = "submit" /\ k.op = Op(t) /\ k.says = tasks[t].says
        BY <1>2, GoEffect
    <2>2. Fine(k, deal(t), room, escrow, pool, reverted)
        BY <1>1, <2>1, TaskFacts DEF Fine, Op
    <2> QED
        BY <1>1, <2>1, <2>2, QuietStep
<1> QED
    BY <1>1, <1>2, EndStep

\* The rail verifies a lock.
LEMMA VerifyLockStep ==
    ASSUME IInv, NEW t \in Tasks, VerifyLock(t)
    PROVE  IInv'
<1>1. UNCHANGED <<room, memory, saved, chain, now>> /\ todo' \subseteq todo /\ tasks[t].pc = "verify"
    BY DEF VerifyLock, At
<1>2. \/ escrow = "Locked" /\ Go(t, "send")
      \/ End(t)
    BY DEF VerifyLock, Answers, Null
<1>3. CASE escrow = "Locked" /\ Go(t, "send")
    <2>1. PICK k \in Task : /\ tasks' = [tasks EXCEPT ![t] = k]
                            /\ k.pc = "send" /\ k.op = Op(t) /\ k.says = tasks[t].says
        BY <1>3, GoEffect
    <2>2. k.op = "lock" /\ tasks[t].op = "lock"
        BY <1>1, <2>1, TaskFacts DEF Fine, Op
    <2>3. Fine(k, deal(t), room, escrow, pool, reverted)
        BY <1>1, <1>3, <2>1, <2>2, TaskFacts DEF Fine, Tellers, Happened
    <2> QED
        BY <1>1, <2>1, <2>3, QuietStep
<1> QED
    BY <1>1, <1>2, <1>3, EndStep

\* sync() asks for the transcript.
LEMMA FetchStep ==
    ASSUME IInv, NEW t \in Tasks, Fetch(t)
    PROVE  IInv'
<1> DEFINE k == [tasks[t] EXCEPT !.pc = "records", !.at = 1, !.upto = Len(room)]
<1>1. /\ UNCHANGED <<room, memory, saved, chain, now>> /\ todo' \subseteq todo
      /\ tasks[t].pc = "fetch" /\ tasks' = [tasks EXCEPT ![t] = k]
    BY DEF Fetch, At
<1>2. /\ k \in Task /\ k.pc = "records" /\ k.at = 1 /\ k.upto = Len(room)
      /\ k.op = tasks[t].op /\ k.says = tasks[t].says
    BY TaskFacts DEF Task
<1>3. Fine(k, deal(t), room, escrow, pool, reverted)
    BY <1>1, <1>2, TaskFacts DEF Fine
<1> QED
    BY <1>1, <1>2, <1>3, QuietStep

\* A task begins with a call.
LEMMA CallStep ==
    ASSUME IInv, NEW t \in Tasks, NEW c \in todo, Call(t, c)
    PROVE  IInv'
<1>1. UNCHANGED <<room, memory, saved, chain, now>> /\ todo' \subseteq todo
    BY DEF Call
<1>2. c \in WCall /\ c.op \in Ops /\ c.key \in Keys
    BY DEF IInv, Types, WCall, Call
<1>3. CASE Join(t, c.op, c.key)
    BY <1>1, <1>2, <1>3, JoinEffect, QuietStep
<1>4. CASE /\ c.op \in DOMAIN Unlocked
           /\ tasks' = [tasks EXCEPT ![t] = [@ EXCEPT !.op = c.op, !.pc = Unlocked[c.op]]]
    <2> DEFINE k == [tasks[t] EXCEPT !.op = c.op, !.pc = Unlocked[c.op]]
    <2>1. /\ c.op \in {"sync", "verify"}
          /\ Unlocked[c.op] \in {"fetch", "check"}
        BY <1>4 DEF Unlocked
    <2>2. k \in Task /\ k.op = c.op /\ k.pc \in {"fetch", "check"}
        BY <1>2, <2>1, TaskFacts DEF Task
    <2>3. Fine(k, deal(t), room, escrow, pool, reverted)
        BY <2>1, <2>2 DEF Fine, Tellers
    <2>4. tasks' = [tasks EXCEPT ![t] = k]
        BY <1>4
    <2> QED
        BY <1>1, <2>2, <2>3, <2>4, QuietStep
<1> QED
    BY <1>3, <1>4 DEF Call

-----------------------------------------------------------------------------
(* Steps that act on the deal *)

\* A task goes on to k and its wallet then holds d, which agrees with the chain.
Moves(t, k, d) == /\ tasks' = [tasks EXCEPT ![t] = k]
                  /\ deals' = [deals EXCEPT ![WalletOf[t]] = d]
                  /\ found(deal(t)) /\ Kept(deal(t), d) /\ Sound(d, escrow, reverted)
                  /\ Fine(k, d, room, escrow, pool, reverted)

\* A task that goes on to tell the room, once what it says has happened.
LEMMA GoSend ==
    ASSUME IInv, NEW t \in Tasks, NEW d \in Deal, Go(t, "send"),
           deals' = [deals EXCEPT ![WalletOf[t]] = d],
           found(deal(t)), Kept(deal(t), d), Sound(d, escrow, reverted),
           Op(t) \in Tellers, Happened(Op(t), escrow, reverted)
    PROVE  \E k \in Task : Moves(t, k, d)
<1>1. PICK k \in Task : /\ tasks' = [tasks EXCEPT ![t] = k]
                        /\ k.pc = "send" /\ k.op = Op(t) /\ k.says = tasks[t].says
    BY GoEffect
<1>2. Fine(k, d, room, escrow, pool, reverted)
    BY <1>1, TaskFacts DEF Fine, Op, Kept
<1> QED
    BY <1>1, <1>2 DEF Moves

\* A deal that stays as it is.
LEMMA SameDeal ==
    ASSUME IInv, NEW t \in Tasks, found(deal(t)), UNCHANGED deals
    PROVE  /\ deal(t) \in Deal /\ deals' = [deals EXCEPT ![WalletOf[t]] = deal(t)]
           /\ Kept(deal(t), deal(t)) /\ Sound(deal(t), escrow, reverted)
BY TaskFacts DEF IInv, Types, deal, Kept

\* A call that ends and leaves the deal as it is.
LEMMA EndKeeps ==
    ASSUME IInv, NEW t \in Tasks, found(deal(t)), UNCHANGED deals, End(t)
    PROVE  \E k \in Task, d \in Deal : Moves(t, k, d)
BY SameDeal, IdleFine DEF Moves, End

\* Once the escrow is refunded, as far as the wallet can know, so is the deal, or the call ends.
LEMMA RefundingMoves ==
    ASSUME IInv, NEW t \in Tasks, Refunding(t), Op(t) = "refund", found(deal(t)),
           Over("refunded", escrow, reverted)
    PROVE  \E k \in Task, d \in Deal : Moves(t, k, d)
<1>1. Op(t) \in Tellers /\ Happened(Op(t), escrow, reverted)
    BY DEF Tellers, Happened
<1>2. CASE isTerminal(deal(t)) /\ Go(t, "send") /\ UNCHANGED deals
    BY <1>1, <1>2, SameDeal, GoSend
<1>3. CASE ~isTerminal(deal(t)) /\ Becomes(t, applyRefund(deal(t))) /\ Go(t, "send")
    <2>1. /\ applyRefund(deal(t)) \in Deal /\ Kept(deal(t), applyRefund(deal(t)))
          /\ Sound(applyRefund(deal(t)), escrow, reverted)
        BY <1>3, TaskFacts, MethodSound
    <2> QED
        BY <1>1, <1>3, <2>1, GoSend DEF Becomes
<1>4. CASE End(t) /\ UNCHANGED deals
    BY <1>4, EndKeeps
<1> QED
    BY <1>2, <1>3, <1>4 DEF Refunding

\* Once the escrow is claimed, as far as the wallet can know, so is the deal.
LEMMA ClaimedMoves ==
    ASSUME IInv, NEW t \in Tasks, Becomes(t, claimed(deal(t))), Go(t, "send"), Op(t) = "claim",
           found(deal(t)), Over("claimed", escrow, reverted)
    PROVE  \E k \in Task, d \in Deal : Moves(t, k, d)
<1>1. Op(t) \in Tellers /\ Happened(Op(t), escrow, reverted)
    BY DEF Tellers, Happened
<1>2. /\ claimed(deal(t)) \in Deal /\ Kept(deal(t), claimed(deal(t)))
      /\ Sound(claimed(deal(t)), escrow, reverted)
    BY TaskFacts, MethodSound
<1> QED
    BY <1>1, <1>2, GoSend DEF Becomes

\* A deal that stays, and a task that goes on to ask or to send.
LEMMA GoOn ==
    ASSUME IInv, NEW t \in Tasks, found(deal(t)), UNCHANGED deals,
           NEW pc, Go(t, pc), Op(t) \in Tellers, tasks[t].pc # "enter",
           \/ pc = "search" /\ Op(t) = "claim"
           \/ pc \in {"submit", "recheck"} /\ Op(t) \in {"lock", "claim", "refund"}
           \/ pc = "verify" /\ Op(t) = "lock"
    PROVE  \E k \in Task, d \in Deal : Moves(t, k, d)
<1>1. PICK k \in Task : /\ tasks' = [tasks EXCEPT ![t] = k]
                        /\ k.pc = pc /\ k.op = Op(t) /\ k.says = tasks[t].says
    BY GoEffect
<1>2. Fine(k, deal(t), room, escrow, pool, reverted)
    BY <1>1, TaskFacts DEF Fine, Op
<1> QED
    BY <1>1, <1>2, SameDeal DEF Moves

\* The rail's method has returned.
LEMMA SettleMoves ==
    ASSUME IInv, NEW t \in Tasks, Settle(t), found(deal(t)), tasks[t].pc # "enter",
           Op(t) = "claim" => Over("claimed", escrow, reverted),
           Op(t) = "refund" => Over("refunded", escrow, reverted)
    PROVE  preimage' \in BOOLEAN /\ \E k \in Task, d \in Deal : Moves(t, k, d)
<1>1. CASE Op(t) = "lock" /\ Go(t, "verify") /\ UNCHANGED <<deals, preimage>>
    <2>1. Op(t) \in Tellers
        BY <1>1 DEF Tellers
    <2> QED
        BY <1>1, <2>1, GoOn, TaskFacts
<1>2. CASE Op(t) = "claim" /\ wipes(t) /\ Becomes(t, claimed(deal(t))) /\ Go(t, "send")
    <2>1. preimage' \in BOOLEAN
        BY <1>2, TaskFacts DEF wipes
    <2> QED
        BY <1>2, <2>1, ClaimedMoves
<1>3. CASE Op(t) = "refund" /\ Refunding(t) /\ UNCHANGED preimage
    BY <1>3, RefundingMoves, TaskFacts
<1> QED
    BY <1>1, <1>2, <1>3 DEF Settle

\* Such a step, with nothing else changed, keeps the invariant.
LEMMA MovesKeeps ==
    ASSUME IInv, NEW t \in Tasks, \E k \in Task, d \in Deal : Moves(t, k, d),
           preimage' \in BOOLEAN, UNCHANGED <<room, seen, saved, chain, now>>, todo' \subseteq todo
    PROVE  IInv'
<1>1. PICK k \in Task, d \in Deal : Moves(t, k, d)
    OBVIOUS
<1>2. deal(t) # NoDeal
    BY <1>1 DEF Moves, found
<1> QED
    BY <1>1, <1>2, LocalStep DEF Moves

\* The first await of an operation.
LEMMA CheckStep ==
    ASSUME IInv, NEW t \in Tasks, Check(t)
    PROVE  IInv'
<1>0. PICK held \in Answers : \/ CheckLock(t, held) \/ CheckClaim(t, held)
                              \/ CheckRefund(t, held) \/ CheckCancel(t, held)
                              \/ CheckVerify(t, held)
    BY DEF Check
<1>1. held = escrow \/ held = "None"
    BY DEF Answers, Null
<1>2. /\ tasks[t].pc = "check" /\ Op(t) = tasks[t].op
      /\ UNCHANGED <<room, seen, preimage, saved, chain, now>> /\ todo' \subseteq todo
      /\ preimage' \in BOOLEAN
    BY <1>0, TaskFacts DEF CheckLock, CheckClaim, CheckRefund, CheckCancel, CheckVerify,
       Checking, Checked, At, Op
<1>3. CASE CheckLock(t, held)
    <2>1. /\ Op(t) = "lock" /\ Op(t) \in Tellers /\ UNCHANGED deals
          /\ Go(t, "verify") \/ Go(t, "submit")
        BY <1>3 DEF CheckLock, Checking, Tellers
    <2>2. found(deal(t))
        BY <1>2, <2>1, TaskFacts DEF Fine
    <2> QED
        BY <1>2, <2>1, <2>2, GoOn, MovesKeeps
<1>4. CASE CheckClaim(t, held)
    <2>1. Op(t) = "claim" /\ Op(t) \in Tellers
        BY <1>4 DEF CheckClaim, Checking, Tellers
    <2>2. found(deal(t))
        BY <1>2, <2>1, TaskFacts DEF Fine
    <2>3. CASE held = "Claimed"
        <3>1. Becomes(t, claimed(deal(t))) /\ Go(t, "send") /\ Over("claimed", escrow, reverted)
            BY <1>1, <1>4, <2>3 DEF CheckClaim, Over
        <3> QED
            BY <1>2, <2>1, <2>2, <3>1, ClaimedMoves, MovesKeeps
    <2>4. CASE held # "Claimed"
        <3>1. UNCHANGED deals /\ (Go(t, "submit") \/ Go(t, "search"))
            BY <1>4, <2>4 DEF CheckClaim
        <3> QED
            BY <1>2, <2>1, <2>2, <3>1, GoOn, MovesKeeps
    <2> QED
        BY <2>3, <2>4
<1>5. CASE CheckRefund(t, held)
    <2>1. Op(t) = "refund" /\ Op(t) \in Tellers
        BY <1>5 DEF CheckRefund, Checking, Tellers
    <2>2. found(deal(t))
        BY <1>2, <2>1, TaskFacts DEF Fine
    <2>3. CASE held = "Refunded"
        <3>1. Refunding(t) /\ escrow = "Refunded" /\ Over("refunded", escrow, reverted)
            BY <1>1, <1>5, <2>3 DEF CheckRefund, Over
        <3> QED
            BY <1>2, <2>1, <2>2, <3>1, RefundingMoves, MovesKeeps
    <2>4. CASE held # "Refunded"
        <3>1. UNCHANGED deals /\ Go(t, "submit")
            BY <1>5, <2>4 DEF CheckRefund
        <3> QED
            BY <1>2, <2>1, <2>2, <3>1, GoOn, MovesKeeps
    <2> QED
        BY <2>3, <2>4
<1>6. CASE CheckCancel(t, held)
    <2>1. Op(t) = "cancel" /\ Op(t) \in Tellers /\ Happened(Op(t), escrow, reverted)
        BY <1>6 DEF CheckCancel, Checking, Tellers, Happened
    <2>2. found(deal(t))
        BY <1>2, <2>1, TaskFacts DEF Fine
    <2>3. CASE Becomes(t, applyCancel(deal(t))) /\ Go(t, "send")
        <3>1. /\ applyCancel(deal(t)) \in Deal /\ Kept(deal(t), applyCancel(deal(t)))
              /\ Sound(applyCancel(deal(t)), escrow, reverted)
            BY <2>2, TaskFacts, MethodSound
        <3> QED
            BY <1>2, <2>1, <2>2, <2>3, <3>1, GoSend, MovesKeeps DEF Becomes
    <2>4. CASE UNCHANGED deals /\ End(t)
        BY <1>2, <2>2, <2>4, EndKeeps, MovesKeeps
    <2> QED
        BY <1>6, <2>3, <2>4 DEF CheckCancel
<1>7. CASE CheckVerify(t, held)
    <2>1. CASE found(deal(t)) /\ deal(t).status = "LOCKED" /\ Becomes(t, markVerified(deal(t)))
        <3>1. /\ markVerified(deal(t)) \in Deal /\ Kept(deal(t), markVerified(deal(t)))
              /\ Sound(markVerified(deal(t)), escrow, reverted)
            BY <2>1, TaskFacts, MethodSound
        <3>2. Moves(t, Idle, markVerified(deal(t)))
            BY <1>7, <2>1, <3>1, IdleFine DEF CheckVerify, End, Becomes, Moves
        <3> QED
            BY <1>2, <3>1, <3>2, IdleFine, MovesKeeps
    <2>2. CASE UNCHANGED deals
        <3>1. End(t) /\ UNCHANGED memory
            BY <1>2, <1>7, <2>2 DEF CheckVerify, memory
        <3> QED
            BY <1>2, <3>1, EndStep
    <2> QED
        BY <1>7, <2>1, <2>2 DEF CheckVerify
<1> QED
    BY <1>0, <1>3, <1>4, <1>5, <1>6, <1>7

\* The rail sends a transaction, if it does.
LEMMA SubmitStep ==
    ASSUME IInv, NEW t \in Tasks, Submit(t)
    PROVE  IInv'
<1>0. PICK held \in Answers :
          \/ Op(t) # "lock" /\ held = Goal[Op(t)] /\ Settle(t) /\ UNCHANGED pool
          \/ Go(t, "recheck") /\ UNCHANGED <<deals, preimage, pool>>
          \/ /\ Sends(Op(t), held)
             /\ pool' = pool \cup {Op(t)}
             /\ \E pc \in {"wait", "recheck"} : Go(t, pc)
             /\ UNCHANGED <<deals, preimage>>
    BY DEF Submit
<1>1. held = escrow \/ held = "None"
    BY DEF Answers, Null
<1>2. /\ tasks[t].pc = "submit" /\ Op(t) = tasks[t].op
      /\ UNCHANGED <<room, seen, saved, escrow, reverted, now>> /\ todo' \subseteq todo
    BY DEF Submit, At, Op
<1>3. Op(t) \in {"lock", "claim", "refund"} /\ Op(t) \in Tellers /\ found(deal(t))
    BY <1>2, TaskFacts DEF Fine, Tellers
<1>4. CASE Op(t) # "lock" /\ held = Goal[Op(t)] /\ Settle(t) /\ UNCHANGED pool
    <2>1. /\ Op(t) = "claim" => Over("claimed", escrow, reverted)
          /\ Op(t) = "refund" => Over("refunded", escrow, reverted)
        BY <1>1, <1>3, <1>4 DEF Goal, Over
    <2>2. preimage' \in BOOLEAN /\ \E k \in Task, d \in Deal : Moves(t, k, d)
        BY <1>2, <1>3, <1>4, <2>1, SettleMoves
    <2> QED
        BY <1>2, <1>4, <2>2, MovesKeeps DEF chain
<1>5. CASE Go(t, "recheck") /\ UNCHANGED <<deals, preimage, pool>>
    BY <1>2, <1>3, <1>5, GoOn, MovesKeeps, TaskFacts DEF chain
<1>6. ASSUME Sends(Op(t), held), pool' = pool \cup {Op(t)}, UNCHANGED <<deals, preimage>>,
             NEW pc \in {"wait", "recheck"}, Go(t, pc)
      PROVE  IInv'
    <2>1. PICK k \in Task : /\ tasks' = [tasks EXCEPT ![t] = k]
                            /\ k.pc = pc /\ k.op = Op(t) /\ k.says = tasks[t].says
        BY <1>6, GoEffect
    <2>2. /\ deal(t) \in Deal /\ deals' = [deals EXCEPT ![WalletOf[t]] = deal(t)]
          /\ Kept(deal(t), deal(t)) /\ Sound(deal(t), escrow, reverted)
        BY <1>3, <1>6, SameDeal
    <2>3. /\ Op(t) = "claim" => escrow # "None"
          /\ Op(t) = "refund" => now >= Deadline /\ escrow = "Locked"
        BY <1>1, <1>6 DEF Sends
    <2>4. pool \subseteq pool' /\ Asked(pool', escrow, reverted, now)
        BY <1>3, <1>6, <2>3 DEF IInv, Asked
    <2>5. Fine(k, deal(t), room, escrow, pool', reverted)
        BY <1>2, <1>3, <1>6, <2>1, TaskFacts DEF Fine
    <2>6. /\ seen' \in [Wallets -> SUBSET (Nat \X Nat)]
          /\ saved' \in [Wallets -> Outcomes \cup {"none"}]
          /\ room' \in Seq(WRecord)
          /\ \A w \in Wallets : seen[w] \subseteq seen'[w]
        BY <1>2 DEF IInv, Types
    <2>7. /\ Longer(room, room')
          /\ \A n \in DOMAIN room' : True(n, room'[n].frame, escrow, reverted)
        BY <1>2 DEF IInv, Types, RoomFine, Longer
    <2>8. \A w \in Wallets : saved'[w] # "none" => Over(saved'[w], escrow, reverted)
        BY <1>2 DEF IInv, WalletFine
    <2>9. <<1, 1>> \in seen'[WalletOf[t]]
        BY <1>2, <1>3, ContractFacts DEF IInv, WalletFine, deal, found
    <2>10. preimage' \in BOOLEAN
        BY <1>6, TaskFacts
    <2>11. Fine(k, deal(t), room', escrow, pool', reverted)
        BY <1>2, <2>5
    <2> QED
        BY <1>2, <2>1, <2>2, <2>4, <2>6, <2>7, <2>8, <2>9, <2>10, <2>11, TaskStep
<1> QED
    BY <1>0, <1>4, <1>5, <1>6

\* The receipt arrives, or the wait for it fails.
LEMMA WaitStep ==
    ASSUME IInv, NEW t \in Tasks, Wait(t)
    PROVE  IInv'
<1>1. /\ tasks[t].pc = "wait" /\ Op(t) = tasks[t].op
      /\ UNCHANGED <<room, seen, saved, chain, now>> /\ todo' \subseteq todo
    BY DEF Wait, At, Op
<1>2. Op(t) \in {"lock", "claim", "refund"} /\ Op(t) \in Tellers /\ found(deal(t))
    BY <1>1, TaskFacts DEF Fine, Tellers
<1>3. CASE Op(t) \notin pool /\ Settle(t)
    <2>1. /\ Op(t) = "claim" => Over("claimed", escrow, reverted)
          /\ Op(t) = "refund" => Over("refunded", escrow, reverted)
        BY <1>1, <1>3, TaskFacts DEF Fine
    <2>2. preimage' \in BOOLEAN /\ \E k \in Task, d \in Deal : Moves(t, k, d)
        BY <1>1, <1>2, <1>3, <2>1, SettleMoves
    <2> QED
        BY <1>1, <2>2, MovesKeeps
<1>4. CASE Go(t, "recheck") /\ UNCHANGED <<deals, preimage>>
    BY <1>1, <1>2, <1>4, GoOn, MovesKeeps, TaskFacts
<1> QED
    BY <1>3, <1>4 DEF Wait

\* After an error the chain is read once more.
LEMMA RecheckStep ==
    ASSUME IInv, NEW t \in Tasks, Recheck(t)
    PROVE  IInv'
<1>1. /\ tasks[t].pc = "recheck" /\ Op(t) = tasks[t].op
      /\ UNCHANGED <<room, seen, saved, chain, now>> /\ todo' \subseteq todo
    BY DEF Recheck, At, Op
<1>2. Op(t) \in {"lock", "claim", "refund"} /\ Op(t) \in Tellers /\ found(deal(t))
    BY <1>1, TaskFacts DEF Fine, Tellers
<1>3. \/ \E held \in Answers : held = Goal[Op(t)] /\ Settle(t)
      \/ End(t) /\ UNCHANGED <<deals, preimage>>
    BY DEF Recheck
<1>4. CASE \E held \in Answers : held = Goal[Op(t)] /\ Settle(t)
    <2>1. Goal[Op(t)] = escrow /\ Settle(t)
        BY <1>2, <1>4 DEF Answers, Null, Goal
    <2>2. /\ Op(t) = "claim" => Over("claimed", escrow, reverted)
          /\ Op(t) = "refund" => Over("refunded", escrow, reverted)
        BY <2>1 DEF Goal, Over
    <2>3. preimage' \in BOOLEAN /\ \E k \in Task, d \in Deal : Moves(t, k, d)
        BY <1>1, <1>2, <2>1, <2>2, SettleMoves
    <2> QED
        BY <1>1, <2>3, MovesKeeps
<1>5. CASE End(t) /\ UNCHANGED <<deals, preimage>>
    BY <1>1, <1>2, <1>5, EndKeeps, MovesKeeps, TaskFacts
<1> QED
    BY <1>3, <1>4, <1>5

-----------------------------------------------------------------------------
(* Steps that tell the room or listen to it *)

\* What a task has to say is a record and has happened.
LEMMA SaidTrue ==
    ASSUME IInv, NEW t \in Tasks, tasks[t].pc = "send"
    PROVE  /\ Said(t) \in Seq(WRecord) /\ Longer(room, Said(t)) /\ Len(Said(t)) = Len(room) + 1
           /\ \A n \in DOMAIN Said(t) : True(n, Said(t)[n].frame, escrow, reverted)
           /\ Op(t) = "reveal" => Said(t)[Len(room) + 1].frame.type = "reveal"
<1> DEFINE w == WalletOf[t]
           word == Head(tasks[t].says)
           f == Frame(word, w, Op(t))
           r == [frame |-> f, ts |-> now]
<1>1. /\ Op(t) = tasks[t].op /\ Op(t) \in Tellers /\ Happened(Op(t), escrow, reverted)
      /\ tasks[t].says # << >>
      /\ \A i \in 1..Len(tasks[t].says) : tasks[t].says[i] \in Words(Op(t))
    BY TaskFacts DEF Fine, Op
<1>2. word \in Words(Op(t))
    <2>1. tasks[t].says \in Seq(Stages \cup {"cancel"})
        BY TaskFacts DEF Task
    <2>2. 1 \in 1..Len(tasks[t].says) /\ word = tasks[t].says[1]
        BY <1>1, <2>1
    <2> QED
        BY <1>1, <2>2
<1>3. w \in Dids
    BY TaskFacts, ContractFacts DEF Wallets
<1>4. f \in DealFrames /\ f.type = word /\ True(Len(room) + 1, f, escrow, reverted)
    <2>1. CASE word = "lock"
        <3>1. f = [type |-> word, from |-> w, contract |-> Contract, rail |-> EvmRail,
                   ref |-> Contract]
            BY <2>1 DEF Frame
        <3>2. EvmRail \in Rails
            BY ContractFacts, DealAssumption, WalletAssumption DEF Offer
        <3>3. f \in LockFrames
            BY <1>3, <2>1, <3>1, <3>2, ContractFacts DEF LockFrames
        <3>4. Op(t) = "lock"
            BY <1>1, <1>2, <2>1 DEF Words, Tellers
        <3> QED
            BY <1>1, <2>1, <3>1, <3>3, <3>4 DEF DealFrames, True, Happened
    <2>2. CASE word = "reveal"
        <3>1. f = [type |-> word, from |-> w, contract |-> Contract, secret |-> Secret]
            BY <2>2 DEF Frame
        <3>2. f \in RevealFrames
            BY <1>3, <2>2, <3>1, ContractFacts, WalletAssumption DEF RevealFrames
        <3>3. Op(t) = "reveal"
            BY <1>1, <1>2, <2>2 DEF Words, Tellers
        <3> QED
            BY <1>1, <2>2, <3>1, <3>2, <3>3 DEF DealFrames, True, Happened
    <2>3. CASE word = "receipt"
        <3>1. f = [type |-> word, from |-> w, contract |-> Contract,
                   outcome |-> IF Op(t) = "claim" THEN "claimed" ELSE "refunded"]
            BY <2>3 DEF Frame
        <3>2. f \in ReceiptFrames
            BY <1>3, <2>3, <3>1, ContractFacts DEF ReceiptFrames, Outcomes
        <3>3. Op(t) \in {"claim", "refund"}
            BY <1>1, <1>2, <2>3 DEF Words, Tellers
        <3>4. Over(f.outcome, escrow, reverted)
            BY <1>1, <3>1, <3>3 DEF Happened, Over
        <3> QED
            BY <2>3, <3>1, <3>2, <3>4 DEF DealFrames, True
    <2>4. CASE word \in {"refund", "cancel"}
        <3>1. f = [type |-> word, from |-> w, contract |-> Contract]
            BY <2>4 DEF Frame
        <3>2. f \in RefundFrames \cup CancelFrames
            BY <1>3, <2>4, <3>1, ContractFacts DEF RefundFrames, CancelFrames
        <3>3. word = "refund" => Op(t) = "refund"
            BY <1>1, <1>2 DEF Words, Tellers
        <3> QED
            BY <1>1, <2>4, <3>1, <3>2, <3>3 DEF DealFrames, True, Happened
    <2> QED
        BY <1>1, <1>2, <2>1, <2>2, <2>3, <2>4 DEF Words, Tellers
<1> HIDE DEF f, word, w
<1>5. r \in WRecord /\ r.frame = f
    BY <1>4 DEF WRecord, IInv, Types
<1>6. Said(t) = Append(room, r)
    BY DEF Said, f, word, w
<1> HIDE DEF r
<1>7. room \in Seq(WRecord) /\ Len(room) \in Nat
    BY TaskFacts
<1>8. /\ Said(t) \in Seq(WRecord) /\ Len(Said(t)) = Len(room) + 1
      /\ \A n \in 1..Len(room) : Said(t)[n] = room[n]
      /\ Said(t)[Len(room) + 1] = r
    BY <1>5, <1>6, <1>7
<1>9. ASSUME NEW n \in DOMAIN Said(t) PROVE True(n, Said(t)[n].frame, escrow, reverted)
    <2>1. n \in 1..Len(room) \/ n = Len(room) + 1
        BY <1>7, <1>8
    <2>2. CASE n \in 1..Len(room)
        BY <1>7, <1>8, <2>2 DEF IInv, RoomFine
    <2>3. CASE n = Len(room) + 1
        BY <1>4, <1>5, <1>8, <2>3
    <2> QED
        BY <2>1, <2>2, <2>3
<1>10. Op(t) = "reveal" => Said(t)[Len(room) + 1].frame.type = "reveal"
    BY <1>2, <1>4, <1>5, <1>8 DEF Words
<1> QED
    BY <1>7, <1>8, <1>9, <1>10 DEF Longer

\* A step that changes nothing but the task and, if so, says what the task has to say.
LEMMA TellStep ==
    ASSUME IInv, NEW t \in Tasks, NEW k \in Task, tasks[t].pc = "send",
           tasks' = [tasks EXCEPT ![t] = k], room' \in {room, Said(t)},
           Fine(k, deal(t), room', escrow, pool, reverted),
           UNCHANGED <<memory, saved, chain, now>>, todo' \subseteq todo
    PROVE  IInv'
<1>1. /\ seen' = seen /\ saved' = saved /\ pool' = pool /\ preimage' = preimage
      /\ deals' = deals /\ UNCHANGED <<escrow, reverted, now>>
    BY DEF chain, memory
<1>2. deals' = [deals EXCEPT ![WalletOf[t]] = deal(t)] /\ Kept(deal(t), deal(t))
    BY <1>1, TaskFacts DEF IInv, Types, deal, Kept
<1>3. /\ room' \in Seq(WRecord) /\ Longer(room, room')
      /\ \A n \in DOMAIN room' : True(n, room'[n].frame, escrow, reverted)
    <2>1. CASE room' = room
        BY <2>1, TaskFacts DEF IInv, RoomFine, Longer
    <2>2. CASE room' = Said(t)
        BY <2>2, SaidTrue
    <2> QED
        BY <2>1, <2>2
<1>4. /\ seen' \in [Wallets -> SUBSET (Nat \X Nat)]
      /\ saved' \in [Wallets -> Outcomes \cup {"none"}]
      /\ \A w \in Wallets : seen[w] \subseteq seen'[w]
    BY <1>1 DEF IInv, Types
<1>5. /\ \A w \in Wallets : saved'[w] # "none" => Over(saved'[w], escrow, reverted)
      /\ deal(t) # NoDeal => <<1, 1>> \in seen'[WalletOf[t]]
    BY <1>1, ContractFacts DEF IInv, WalletFine, deal
<1>6. /\ pool \subseteq pool' /\ Asked(pool', escrow, reverted, now)
      /\ Fine(k, deal(t), room', escrow, pool', reverted)
      /\ preimage' \in BOOLEAN
    BY <1>1, TaskFacts DEF IInv
<1> QED
    BY <1>1, <1>2, <1>3, <1>4, <1>5, <1>6, TaskFacts, TaskStep

\* A task tells the room, or fails to.
LEMMA SendStep ==
    ASSUME IInv, NEW t \in Tasks, Send(t)
    PROVE  IInv'
<1>1. /\ UNCHANGED <<memory, saved, chain, now>> /\ todo' \subseteq todo /\ tasks[t].pc = "send"
    BY DEF Send, At
<1>2. CASE /\ room' = Said(t)
           /\ tasks' = [tasks EXCEPT ![t].pc = "ingest", ![t].at = Len(room) + 1]
    <2> DEFINE k == [tasks[t] EXCEPT !.pc = "ingest", !.at = Len(room) + 1]
    <2>0. tasks[t] \in Task /\ Len(room) + 1 \in Nat
        BY TaskFacts
    <2>1. /\ k \in Task /\ k.pc = "ingest" /\ k.at = Len(room) + 1
          /\ k.op = tasks[t].op /\ k.says = tasks[t].says
        BY <2>0 DEF Task
    <2>2. tasks' = [tasks EXCEPT ![t] = k]
        BY <1>2
    <2> HIDE DEF k
    <2>3. /\ Len(room') = Len(room) + 1
          /\ tasks[t].op = "reveal" => room'[Len(room) + 1].frame.type = "reveal"
        BY <1>1, <1>2, SaidTrue DEF Op
    <2>4. k.at > 1 /\ k.at <= Len(room')
        BY <2>1, <2>3, TaskFacts
    <2>5. k.op = "reveal" => room'[k.at].frame.type = "reveal"
        BY <2>1, <2>3
    <2>6. /\ k.op \in Tellers /\ Happened(k.op, escrow, reverted) /\ found(deal(t))
          /\ k.says # << >> /\ \A i \in 1..Len(k.says) : k.says[i] \in Words(k.op)
        BY <1>1, <2>1, TaskFacts DEF Fine
    <2>7. Fine(k, deal(t), room', escrow, pool, reverted)
        BY <2>1, <2>4, <2>5, <2>6 DEF Fine
    <2> QED
        BY <1>1, <1>2, <2>1, <2>2, <2>7, TellStep
<1>3. CASE room' \in {room, Said(t)} /\ End(t)
    <2>1. Idle \in Task /\ Fine(Idle, deal(t), room', escrow, pool, reverted)
        BY IdleFine
    <2> QED
        BY <1>1, <1>3, <2>1, TellStep DEF End
<1> QED
    BY <1>2, <1>3 DEF Send

\* A record that a deal takes, other than an offer, leaves a deal that agrees with the chain.
LEMMA TakenSound ==
    ASSUME NEW d \in Deal \cup {NoDeal}, NEW m \in WRecord, m.frame.type # "offer", takes(d, m),
           NEW n, NEW e, NEW r, True(n, m.frame, e, r), Sound(d, e, r)
    PROVE  /\ d # NoDeal /\ after(d, m) \in Deal
           /\ Sound(after(d, m), e, r) /\ Kept(d, after(d, m))
<1> DEFINE f == m.frame
           c == After(d, f)
<1>0. NoDeal \notin Deal
    BY WalletAssumption
<1>1. f \in DealFrames
    BY DEF WRecord, OfferFrames
<1>2. d \in Deal /\ Takes(d, f, m.ts)
    BY DEF takes, found
<1>3. after(d, m) = c /\ c \in Deal /\ c # NoDeal
    BY <1>0, <1>1, <1>2, AfterType DEF after
<1>4. Kept(d, c)
    <2>1. found(d) => c.contractId = Contract
        BY <1>1, <1>2, AfterStatus DEF found, True
    <2>2. isTerminal(d) => isTerminal(c)
        BY <1>1, <1>2, AfterStatus
    <2> QED
        BY <1>3, <2>1, <2>2 DEF Kept, found
<1>5. Sound(c, e, r)
    <2>1. CASE f.type = "accept"
        BY <1>1, <1>2, <2>1, AfterStatus DEF Sound, isTerminal
    <2>2. CASE f.type \in {"lock", "reveal"}
        <3>1. c.status \in {"LOCKED", "REVEALED"} /\ e # "None"
            BY <1>1, <1>2, <2>2, AfterStatus DEF True
        <3> QED
            BY <3>1 DEF Sound, isTerminal
    <2>3. CASE f.type = "refund"
        <3>1. c.status = "REFUNDED" /\ Over("refunded", e, r)
            BY <1>1, <1>2, <2>3, AfterStatus DEF True
        <3> QED
            BY <3>1 DEF Sound, isTerminal, OutcomeOf, Over
    <2>4. CASE f.type = "cancel"
        <3>1. c.status = "CANCELLED"
            BY <1>1, <1>2, <2>4, AfterStatus
        <3> QED
            BY <3>1 DEF Sound, isTerminal, OutcomeOf, Over
    <2>5. CASE f.type = "receipt"
        <3>1. c.status = d.status /\ found(d)
            BY <1>1, <1>2, <2>5, AfterStatus DEF takes
        <3> QED
            BY <3>1 DEF Sound, isTerminal
    <2> QED
        BY <1>1, <2>1, <2>2, <2>3, <2>4, <2>5, FrameKinds DEF Stages
<1> QED
    BY <1>2, <1>3, <1>4, <1>5, <1>0

\* A step of a task that ingests a record.
LEMMA HearStep ==
    ASSUME IInv, NEW t \in Tasks, NEW k \in Task, NEW d \in Deal, NEW key \in Nat \X Nat,
           tasks' = [tasks EXCEPT ![t] = k], Becomes(t, d), Remember(t, key),
           Kept(deal(t), d), Sound(d, escrow, reverted),
           deal(t) # NoDeal \/ key = <<1, 1>>,
           preimage' \in BOOLEAN,
           Fine(k, d, room, escrow, pool, reverted),
           UNCHANGED <<room, saved, chain, now>>, todo' \subseteq todo
    PROVE  IInv'
<1>1. WalletOf[t] \in Wallets
    BY ContractFacts
<1>2. /\ room' = room /\ saved' = saved /\ pool' = pool /\ UNCHANGED <<escrow, reverted, now>>
      /\ deals' = [deals EXCEPT ![WalletOf[t]] = d]
    BY DEF chain, Becomes
<1>3. /\ seen' \in [Wallets -> SUBSET (Nat \X Nat)]
      /\ \A w \in Wallets : seen[w] \subseteq seen'[w]
      /\ key \in seen'[WalletOf[t]]
    BY <1>1 DEF IInv, Types, Remember
<1>4. <<1, 1>> \in seen'[WalletOf[t]]
    BY <1>1, <1>3 DEF IInv, WalletFine, deal
<1>5. /\ \A w \in Wallets : saved'[w] # "none" => Over(saved'[w], escrow, reverted)
      /\ saved' \in [Wallets -> Outcomes \cup {"none"}]
    BY <1>2 DEF IInv, WalletFine, Types
<1>6. /\ room' \in Seq(WRecord) /\ Longer(room, room')
      /\ \A n \in DOMAIN room' : True(n, room'[n].frame, escrow, reverted)
    BY <1>2 DEF Longer, IInv, Types, RoomFine
<1>7. /\ pool \subseteq pool' /\ Asked(pool', escrow, reverted, now)
      /\ Fine(k, d, room', escrow, pool', reverted)
    BY <1>2 DEF IInv
<1> QED
    BY <1>2, <1>3, <1>4, <1>5, <1>6, <1>7, TaskStep

\* What follows a record of one's own: the next one, or the end of the call.
LEMMA FinishEffect ==
    ASSUME IInv, NEW t \in Tasks, Finish(t), tasks[t].pc = "ingest", NEW d, found(d)
    PROVE  /\ preimage' \in BOOLEAN
           /\ \E k \in Task : /\ tasks' = [tasks EXCEPT ![t] = k]
                              /\ Fine(k, d, room, escrow, pool, reverted)
<1>1. /\ tasks[t] \in Task /\ tasks[t].op \in Tellers
      /\ Happened(tasks[t].op, escrow, reverted)
      /\ tasks[t].says # << >>
      /\ \A i \in 1..Len(tasks[t].says) : tasks[t].says[i] \in Words(tasks[t].op)
    BY TaskFacts DEF Fine
<1>2. preimage' \in BOOLEAN
    BY TaskFacts DEF Finish, wipes
<1>3. CASE /\ Tail(tasks[t].says) # << >>
           /\ tasks' = [tasks EXCEPT ![t].pc = "send", ![t].says = Tail(@)]
    <2> DEFINE says == tasks[t].says
               k == [tasks[t] EXCEPT !.pc = "send", !.says = Tail(says)]
    <2>1. says \in Seq(Stages \cup {"cancel"}) /\ says # << >>
        BY <1>1 DEF Task
    <2>2. /\ Tail(says) \in Seq(Stages \cup {"cancel"})
          /\ \A i \in 1..Len(Tail(says)) : i + 1 \in 1..Len(says) /\ Tail(says)[i] = says[i + 1]
        BY <2>1
    <2>3. \A i \in 1..Len(Tail(says)) : Tail(says)[i] \in Words(tasks[t].op)
        BY <1>1, <2>2
    <2>4. k \in Task /\ k.pc = "send" /\ k.op = tasks[t].op /\ k.says = Tail(says)
        BY <1>1, <2>2 DEF Task
    <2>5. tasks' = [tasks EXCEPT ![t] = k]
        BY <1>3
    <2> HIDE DEF k
    <2>6. Fine(k, d, room, escrow, pool, reverted)
        BY <1>1, <1>3, <2>3, <2>4 DEF Fine
    <2> QED
        BY <1>2, <2>4, <2>5, <2>6
<1>4. CASE Join(t, "archive", "contract")
    BY <1>2, <1>4, JoinEffect DEF Ops, Keys
<1>5. CASE End(t)
    BY <1>2, <1>5, IdleFine DEF End
<1> QED
    BY <1>3, <1>4, <1>5 DEF Finish

\* A wallet ingests the record it has just sent.
LEMMA IngestStep ==
    ASSUME IInv, NEW t \in Tasks, Ingest(t)
    PROVE  IInv'
<1> DEFINE n == tasks[t].at
           m == room[n]
<1>1. /\ tasks[t].pc = "ingest" /\ UNCHANGED <<room, saved, chain, now>> /\ todo' \subseteq todo
    BY DEF Ingest, At
<1>2. /\ n \in Nat /\ n > 1 /\ n <= Len(room) /\ found(deal(t)) /\ deal(t) \in Deal
      /\ tasks[t].op \in Tellers
    BY <1>1, TaskFacts DEF Fine, Task
<1>3. n \in DOMAIN room /\ m \in WRecord
    BY <1>2, TaskFacts
<1>4. True(n, m.frame, escrow, reverted) /\ m.frame.type # "offer"
    BY <1>2, <1>3 DEF IInv, RoomFine, True
<1>5. OwnKey(n) \in Nat \X Nat
    BY <1>2 DEF OwnKey
<1>6. CASE Finish(t) /\ UNCHANGED <<deals, seen>>
    <2>1. PICK k \in Task : /\ tasks' = [tasks EXCEPT ![t] = k]
                            /\ Fine(k, deal(t), room, escrow, pool, reverted)
        BY <1>1, <1>2, <1>6, FinishEffect
    <2>2. preimage' \in BOOLEAN
        BY <1>1, <1>2, <1>6, FinishEffect
    <2>3. Moves(t, k, deal(t))
        BY <1>2, <1>6, <2>1, SameDeal DEF Moves
    <2> QED
        BY <1>1, <1>2, <1>6, <2>2, <2>3, MovesKeeps
<1>7. CASE /\ takes(deal(t), m) /\ Becomes(t, after(deal(t), m))
           /\ Remember(t, OwnKey(n)) /\ Finish(t)
    <2>1. /\ after(deal(t), m) \in Deal /\ Sound(after(deal(t), m), escrow, reverted)
          /\ Kept(deal(t), after(deal(t), m))
        BY <1>2, <1>3, <1>4, <1>7, TaskFacts, TakenSound
    <2>2. found(after(deal(t), m))
        BY <1>2, <2>1 DEF Kept
    <2>3. PICK k \in Task : /\ tasks' = [tasks EXCEPT ![t] = k]
                            /\ Fine(k, after(deal(t), m), room, escrow, pool, reverted)
        BY <1>1, <1>7, <2>2, FinishEffect
    <2>4. preimage' \in BOOLEAN
        BY <1>1, <1>2, <1>7, FinishEffect
    <2>5. deal(t) # NoDeal
        BY <1>2 DEF found
    <2> QED
        BY <1>1, <1>5, <1>7, <2>1, <2>3, <2>4, <2>5, HearStep
<1>8. CASE End(t) /\ UNCHANGED memory
    BY <1>1, <1>8, EndStep
<1> QED
    BY <1>6, <1>7, <1>8 DEF Ingest

\* The outcome of a deal that ended is stored, or nothing is.
LEMMA SaveStep ==
    ASSUME IInv, NEW t \in Tasks, Save(t)
    PROVE  IInv'
<1> DEFINE o == OutcomeOf(deal(t).status)
<1>1. /\ tasks[t].pc = "save" /\ End(t) /\ UNCHANGED <<room, memory, chain, now>>
      /\ todo' \subseteq todo
    BY DEF Save, At
<1>2. found(deal(t)) /\ isTerminal(deal(t))
    BY <1>1, TaskFacts DEF Fine
<1>3. o \in Outcomes /\ Over(o, escrow, reverted)
    BY <1>2, TaskFacts DEF Sound, isTerminal, OutcomeOf, Outcomes
<1>4. CASE saved' = [saved EXCEPT ![WalletOf[t]] = o]
    <2>1. /\ saved' \in [Wallets -> Outcomes \cup {"none"}]
          /\ \A w \in Wallets : saved'[w] = saved[w] \/ saved'[w] = o
        BY <1>3, <1>4 DEF IInv, Types
    <2>2. \A w \in Wallets : saved'[w] # "none" => Over(saved'[w], escrow, reverted)
        BY <1>3, <2>1 DEF IInv, WalletFine
    <2>3. /\ room' = room /\ seen' = seen /\ pool' = pool /\ preimage' = preimage
          /\ deals' = deals /\ UNCHANGED <<escrow, reverted, now>>
        BY <1>1 DEF chain, memory
    <2>4. deals' = [deals EXCEPT ![WalletOf[t]] = deal(t)] /\ Kept(deal(t), deal(t))
        BY <2>3, TaskFacts DEF IInv, Types, deal, Kept
    <2>5. /\ room' \in Seq(WRecord) /\ Longer(room, room')
          /\ \A n \in DOMAIN room' : True(n, room'[n].frame, escrow, reverted)
        BY <2>3, TaskFacts DEF IInv, RoomFine, Longer
    <2>6. /\ seen' \in [Wallets -> SUBSET (Nat \X Nat)]
          /\ \A w \in Wallets : seen[w] \subseteq seen'[w]
          /\ deal(t) # NoDeal => <<1, 1>> \in seen'[WalletOf[t]]
        BY <2>3, ContractFacts DEF IInv, Types, WalletFine, deal
    <2>7. /\ pool \subseteq pool' /\ Asked(pool', escrow, reverted, now)
          /\ preimage' \in BOOLEAN
        BY <2>3, TaskFacts DEF IInv
    <2>8. Idle \in Task /\ Fine(Idle, deal(t), room', escrow, pool', reverted)
        BY IdleFine
    <2>9. tasks' = [tasks EXCEPT ![t] = Idle]
        BY <1>1 DEF End
    <2> QED
        BY <1>1, <2>1, <2>2, <2>3, <2>4, <2>5, <2>6, <2>7, <2>8, <2>9, TaskFacts, TaskStep
<1>5. CASE UNCHANGED saved
    BY <1>1, <1>5, EndStep
<1> QED
    BY <1>4, <1>5 DEF Save

\* What sync() makes of a deal before the record is ingested.
LEMMA AheadSound ==
    ASSUME NEW d \in Deal \cup {NoDeal}, NEW f, NEW n, NEW e, NEW r, True(n, f, e, r), Sound(d, e, r)
    PROVE  /\ ahead(d, f) \in Deal \cup {NoDeal} /\ Sound(ahead(d, f), e, r)
           /\ Kept(d, ahead(d, f)) /\ (ahead(d, f) # NoDeal => d # NoDeal)
           /\ f.type = "offer" => ahead(d, f) = d
<1>1. CASE f.type = "receipt" /\ f.outcome = "claimed" /\ found(d)
    <2>1. ahead(d, f) = claimed(d) /\ Over("claimed", e, r) /\ d \in Deal /\ d # NoDeal
        BY <1>1 DEF ahead, True, found
    <2> QED
        BY <1>1, <2>1, MethodSound
<1>2. CASE f.type = "refund" /\ found(d) /\ ~isTerminal(d)
    <2>1. ahead(d, f) = applyRefund(d) /\ Over("refunded", e, r) /\ d \in Deal /\ d # NoDeal
        BY <1>2 DEF ahead, True, found
    <2> QED
        BY <1>2, <2>1, MethodSound
<1>3. CASE /\ ~(f.type = "receipt" /\ f.outcome = "claimed" /\ found(d))
           /\ ~(f.type = "refund" /\ found(d) /\ ~isTerminal(d))
    <2>1. ahead(d, f) = d
        BY <1>3 DEF ahead
    <2> QED
        BY <2>1 DEF Kept
<1> QED
    BY <1>1, <1>2, <1>3

\* sync() goes on to the next record, if any.
LEMMA AdvanceEffect ==
    ASSUME IInv, NEW t \in Tasks, tasks[t].pc = "records", Advance(t), NEW d, Kept(deal(t), d)
    PROVE  \E k \in Task : /\ tasks' = [tasks EXCEPT ![t] = k]
                           /\ Fine(k, d, room, escrow, pool, reverted)
<1> DEFINE n == tasks[t].at
           pc == IF n = tasks[t].upto THEN "reconcile" ELSE "records"
           k == [tasks[t] EXCEPT !.at = n + 1, !.pc = pc]
<1>1. tasks[t] \in Task /\ n \in Nat /\ tasks[t].upto \in Nat /\ n + 1 \in Nat
    BY TaskFacts DEF Task
<1>2. /\ k \in Task /\ k.pc = pc /\ k.at = n + 1 /\ k.upto = tasks[t].upto
      /\ k.op = tasks[t].op /\ k.says = tasks[t].says
    BY <1>1 DEF Task
<1>3. tasks' = [tasks EXCEPT ![t] = k]
    BY DEF Advance
<1>4. n >= 1 /\ n <= tasks[t].upto /\ tasks[t].upto <= Len(room)
    BY TaskFacts DEF Fine
<1>5. k.pc = "records" => k.at >= 1 /\ k.at <= k.upto /\ k.upto <= Len(room)
    BY <1>1, <1>2, <1>4
<1>6. pc \in {"records", "reconcile"}
    OBVIOUS
<1>7. /\ k.op \in Tellers => k.says # << >> /\ \A i \in 1..Len(k.says) : k.says[i] \in Words(k.op)
      /\ k.op \in Tellers => found(d)
    BY <1>2, TaskFacts DEF Fine, Kept
<1> HIDE DEF k, pc
<1>8. Fine(k, d, room, escrow, pool, reverted)
    BY <1>2, <1>5, <1>6, <1>7 DEF Fine
<1> QED
    BY <1>2, <1>3, <1>8

\* sync() takes the next record, or stops.
LEMMA RecordStep ==
    ASSUME IInv, NEW t \in Tasks, Record(t)
    PROVE  IInv'
<1> DEFINE n == tasks[t].at
           m == room[n]
           d == ahead(deal(t), m.frame)
<1>1. /\ tasks[t].pc = "records" /\ UNCHANGED <<room, preimage, saved, chain, now>>
      /\ todo' \subseteq todo /\ preimage' \in BOOLEAN
    BY TaskFacts DEF Record, At
<1>2. n \in Nat /\ n >= 1 /\ n <= Len(room)
    BY <1>1, TaskFacts DEF Fine, Task
<1>3. n \in DOMAIN room /\ m \in WRecord /\ <<n, n>> \in Nat \X Nat
    BY <1>2, TaskFacts
<1>4. True(n, m.frame, escrow, reverted)
    BY <1>3 DEF IInv, RoomFine
<1>5. /\ d \in Deal \cup {NoDeal} /\ Sound(d, escrow, reverted) /\ Kept(deal(t), d)
      /\ d # NoDeal => deal(t) # NoDeal
      /\ m.frame.type = "offer" => d = deal(t)
    BY <1>4, TaskFacts, AheadSound
<1> HIDE DEF d
<1>6. \/ Stop(t) /\ UNCHANGED deals
      \/ Becomes(t, d) /\ Advance(t) /\ UNCHANGED seen
      \/ /\ <<n, n>> \notin seen[WalletOf[t]] /\ takes(d, m)
         /\ Becomes(t, after(d, m)) /\ Remember(t, <<n, n>>) /\ Advance(t)
      \/ Becomes(t, d) /\ Stop(t)
    BY DEF Record, d
<1>7. CASE Stop(t) /\ UNCHANGED deals
    BY <1>1, <1>7, EndStep DEF Stop, memory
<1>8. CASE Becomes(t, d) /\ Advance(t) /\ UNCHANGED seen
    <2>1. PICK k \in Task : /\ tasks' = [tasks EXCEPT ![t] = k]
                            /\ Fine(k, d, room, escrow, pool, reverted)
        BY <1>1, <1>5, <1>8, AdvanceEffect
    <2> QED
        BY <1>1, <1>5, <1>8, <2>1, LocalStep DEF Becomes
<1>9. CASE /\ <<n, n>> \notin seen[WalletOf[t]] /\ takes(d, m)
           /\ Becomes(t, after(d, m)) /\ Remember(t, <<n, n>>) /\ Advance(t)
    <2> DEFINE c == after(d, m)
    <2>1. /\ c \in Deal /\ Sound(c, escrow, reverted) /\ Kept(deal(t), c)
          /\ deal(t) # NoDeal \/ <<n, n>> = <<1, 1>>
        <3>1. CASE m.frame.type = "offer"
            <4>1. n = 1
                BY <1>4, <3>1 DEF True
            <4>2. deal(t) = NoDeal
                BY <1>9, <4>1, ContractFacts DEF IInv, WalletFine, deal
            <4>3. c = NewDeal(Contract.offer) /\ c \in Deal
                BY <3>1, ContractFacts, NewDealType DEF after
            <4>4. c.contractId # Contract
                BY <4>3, ContractFacts DEF NewDeal
            <4> QED
                BY <4>1, <4>2, <4>3, <4>4 DEF Sound, Kept, found
        <3>2. CASE m.frame.type # "offer"
            <4>1. d # NoDeal /\ c \in Deal /\ Sound(c, escrow, reverted) /\ Kept(d, c)
                BY <1>3, <1>4, <1>5, <1>9, <3>2, TakenSound
            <4>2. Kept(deal(t), c)
                BY <1>5, <4>1 DEF Kept
            <4> QED
                BY <1>5, <4>1, <4>2
        <3> QED
            BY <3>1, <3>2
    <2> HIDE DEF c
    <2>2. PICK k \in Task : /\ tasks' = [tasks EXCEPT ![t] = k]
                            /\ Fine(k, c, room, escrow, pool, reverted)
        BY <1>1, <1>9, <2>1, AdvanceEffect
    <2>3. Becomes(t, c)
        BY <1>9 DEF c
    <2> QED
        BY <1>1, <1>3, <1>9, <2>1, <2>2, <2>3, HearStep
<1>10. CASE Becomes(t, d) /\ Stop(t)
    <2>1. Idle \in Task /\ Fine(Idle, d, room, escrow, pool, reverted)
        BY IdleFine
    <2> QED
        BY <1>1, <1>5, <1>10, <2>1, LocalStep DEF Becomes, Stop, End
<1> QED
    BY <1>6, <1>7, <1>8, <1>9, <1>10

\* sync() ends with what the chain holds.
LEMMA ReconcileStep ==
    ASSUME IInv, NEW t \in Tasks, Reconcile(t)
    PROVE  IInv'
<1>1. /\ End(t) /\ UNCHANGED <<room, seen, preimage, saved, chain, now>> /\ todo' \subseteq todo
      /\ preimage' \in BOOLEAN
    BY TaskFacts DEF Reconcile
<1>2. PICK held \in Answers :
          IF found(deal(t)) THEN Becomes(t, reconciled(deal(t), held)) ELSE UNCHANGED deals
    BY DEF Reconcile
<1>3. held = escrow \/ held = "None"
    BY DEF Answers, Null
<1>4. CASE found(deal(t)) /\ Becomes(t, reconciled(deal(t), held))
    <2> DEFINE d == deal(t)
               c == reconciled(d, held)
    <2>1. d \in Deal /\ Sound(d, escrow, reverted) /\ found(d)
        BY <1>4, TaskFacts
    <2>2. c \in Deal /\ Sound(c, escrow, reverted) /\ Kept(d, c)
        <3>1. CASE held = "Locked" /\ d.status = "LOCKED"
            <4>1. c = markVerified(d)
                BY <3>1 DEF reconciled
            <4> QED
                BY <2>1, <3>1, <4>1, MethodSound
        <3>2. CASE held = "Claimed"
            <4>1. c = claimed(d) /\ Over("claimed", escrow, reverted)
                BY <1>3, <3>2 DEF reconciled, Over
            <4> QED
                BY <2>1, <4>1, MethodSound
        <3>3. CASE held = "Refunded" /\ ~isTerminal(d) /\ CanRefund(d, payer, now)
            <4>1. c = applyRefund(d) /\ Over("refunded", escrow, reverted)
                BY <1>3, <3>3 DEF reconciled, Over
            <4> QED
                BY <2>1, <3>3, <4>1, MethodSound
        <3>4. CASE c = d
            BY <2>1, <3>4 DEF Kept
        <3> QED
            BY <3>1, <3>2, <3>3, <3>4 DEF reconciled
    <2> HIDE DEF c
    <2>3. Becomes(t, c)
        BY <1>4 DEF c
    <2>4. Moves(t, Idle, c)
        BY <1>1, <2>1, <2>2, <2>3, IdleFine DEF End, Becomes, Moves
    <2> QED
        BY <1>1, <2>2, <2>4, IdleFine, MovesKeeps
<1>5. CASE UNCHANGED deals
    BY <1>1, <1>5, EndStep DEF memory
<1> QED
    BY <1>2, <1>4, <1>5

-----------------------------------------------------------------------------
(* The chain, the clock and the end of a process *)

\* A step of the chain or of the clock.
LEMMA WorldStep ==
    ASSUME IInv, UNCHANGED <<room, memory, tasks, saved, todo>>,
           Onward(escrow, reverted, escrow', reverted'),
           escrow' \in {"None", "Locked", "Claimed", "Refunded"}, now' \in Nat,
           Asked(pool', escrow', reverted', now'),
           "claim" \in pool => "claim" \in pool' \/ Over("claimed", escrow', reverted'),
           "refund" \in pool => "refund" \in pool' \/ Over("refunded", escrow', reverted')
    PROVE  IInv'
<1>1. /\ room' = room /\ tasks' = tasks /\ deals' = deals /\ seen' = seen /\ saved' = saved
      /\ preimage' = preimage /\ todo' = todo
    BY DEF memory
<1>2. Types'
    BY <1>1 DEF IInv, Types
<1>3. RoomFine'
    BY <1>1, StillTrue DEF IInv, RoomFine
<1>4. ASSUME NEW w \in Wallets PROVE WalletFine(w)'
    BY <1>1, StillTrue DEF IInv, WalletFine
<1>5. ASSUME NEW t \in Tasks
      PROVE  Fine(tasks'[t], deals'[WalletOf[t]], room', escrow', pool', reverted')
    <2>1. Kept(deal(t), deal(t)) /\ Longer(room, room)
        BY TaskFacts DEF Kept, Longer
    <2>2. Fine(tasks[t], deal(t), room, escrow', pool', reverted')
        BY <2>1, TaskFacts, StillFine
    <2> QED
        BY <1>1, <2>2 DEF deal
<1>6. TasksFine'
    BY <1>5 DEF TasksFine, deal
<1> QED
    BY <1>2, <1>3, <1>4, <1>6 DEF IInv

\* A transaction is mined.
LEMMA MineStep ==
    ASSUME IInv, NEW k \in DOMAIN Goal, Mine(k)
    PROVE  IInv'
<1>0. k \in {"lock", "claim", "refund"}
    BY DEF Goal
<1>1. /\ UNCHANGED <<room, memory, tasks, saved, todo>> /\ now' = now /\ now \in Nat
      /\ k \in pool /\ pool' = pool \ {k} /\ k \in {"lock", "claim", "refund"}
      /\ escrow \in {"None", "Locked", "Claimed", "Refunded"} /\ Deadline \in Nat
      /\ Asked(pool, escrow, reverted, now)
    <2>1. UNCHANGED <<room, memory, tasks, saved, todo, now>> /\ k \in pool /\ pool' = pool \ {k}
        BY DEF Mine, control
    <2> QED
        BY <1>0, <2>1, ContractFacts DEF IInv, Types
<1>2. CASE Runs(k) /\ escrow' = Goal[k] /\ UNCHANGED reverted
    <2>1. /\ k = "lock" => escrow = "None" /\ escrow' = "Locked"
          /\ k = "claim" => escrow = "Locked" /\ now < Deadline /\ escrow' = "Claimed"
          /\ k = "refund" => escrow = "Locked" /\ escrow' = "Refunded"
        <3>1. CASE k = "lock"
            BY <1>2, <3>1 DEF Runs, Goal
        <3>2. CASE k = "claim"
            BY <1>2, <3>2 DEF Runs, Goal
        <3>3. CASE k = "refund"
            BY <1>2, <3>3 DEF Runs, Goal
        <3> QED
            BY <1>0, <3>1, <3>2, <3>3
    <2>2. /\ Onward(escrow, reverted, escrow', reverted')
          /\ escrow' \in {"None", "Locked", "Claimed", "Refunded"}
        BY <1>1, <1>2, <2>1 DEF Onward
    <2>3. Asked(pool', escrow', reverted', now')
        BY <1>1, <1>2, <2>1 DEF Asked
    <2>4. /\ "claim" \in pool => "claim" \in pool' \/ Over("claimed", escrow', reverted')
          /\ "refund" \in pool => "refund" \in pool' \/ Over("refunded", escrow', reverted')
        BY <1>1, <2>1 DEF Over
    <2> QED
        BY <1>1, <2>2, <2>3, <2>4, WorldStep
<1>3. CASE reverted' = reverted \cup {k} /\ UNCHANGED escrow
    <2>1. Onward(escrow, reverted, escrow', reverted')
        BY <1>3 DEF Onward
    <2>2. Asked(pool', escrow', reverted', now')
        BY <1>1, <1>3 DEF Asked
    <2>3. /\ "claim" \in pool => "claim" \in pool' \/ Over("claimed", escrow', reverted')
          /\ "refund" \in pool => "refund" \in pool' \/ Over("refunded", escrow', reverted')
        BY <1>1, <1>3 DEF Over
    <2> QED
        BY <1>1, <1>3, <2>1, <2>2, <2>3, WorldStep
<1> QED
    BY <1>2, <1>3 DEF Mine

\* Time goes by.
LEMMA ElapseStep ==
    ASSUME IInv, Elapse
    PROVE  IInv'
<1>1. /\ UNCHANGED <<room, memory, tasks, saved, todo, escrow, pool, reverted>>
      /\ now' = now + 1 /\ now \in Nat /\ Deadline \in Nat
    BY ContractFacts DEF Elapse, control, chain, IInv, Types
<1>2. /\ Onward(escrow, reverted, escrow', reverted') /\ now' \in Nat
      /\ escrow' \in {"None", "Locked", "Claimed", "Refunded"}
    BY <1>1 DEF Onward, IInv, Types
<1>3. Asked(pool', escrow', reverted', now')
    BY <1>1 DEF IInv, Asked
<1> QED
    BY <1>1, <1>2, <1>3, WorldStep

\* A wallet starts again with nothing.
LEMMA RestartStep ==
    ASSUME IInv, NEW c \in todo, Restart(c)
    PROVE  IInv'
<1>1. c \in WCall /\ c.wallet \in Wallets
    BY DEF IInv, Types, WCall
<1>2. /\ room' = room /\ saved' = saved /\ UNCHANGED <<escrow, pool, reverted, now>>
      /\ todo' \subseteq todo
      /\ deals' = [deals EXCEPT ![c.wallet] = NoDeal] /\ seen' = [seen EXCEPT ![c.wallet] = {}]
      /\ tasks' = [t \in Tasks |-> IF WalletOf[t] = c.wallet THEN Idle ELSE tasks[t]]
    BY DEF Restart, chain
<1>3. Types'
    <2>1. tasks' \in [Tasks -> Task]
        BY <1>2, IdleFine DEF IInv, Types
    <2>2. preimage' \in BOOLEAN
        BY DEF IInv, Types, Restart
    <2> QED
        BY <1>1, <1>2, <2>1, <2>2 DEF IInv, Types
<1>4. RoomFine'
    BY <1>2 DEF IInv, RoomFine
<1>5. ASSUME NEW w \in Wallets PROVE WalletFine(w)'
    <2>1. CASE w = c.wallet
        <3>1. deals'[w] = NoDeal
            BY <1>2, <2>1 DEF IInv, Types
        <3> QED
            BY <1>2, <3>1 DEF IInv, WalletFine, Sound, found
    <2>2. CASE w # c.wallet
        <3>1. deals'[w] = deals[w] /\ seen'[w] = seen[w]
            BY <1>2, <2>2 DEF IInv, Types
        <3> QED
            BY <1>2, <3>1 DEF IInv, WalletFine
    <2> QED
        BY <2>1, <2>2
<1>6. Asked(pool, escrow, reverted, now)'
    BY <1>2 DEF IInv
<1>7. ASSUME NEW t \in Tasks
      PROVE  Fine(tasks'[t], deals'[WalletOf[t]], room', escrow', pool', reverted')
    <2>1. CASE WalletOf[t] = c.wallet
        <3>1. tasks'[t] = Idle
            BY <1>2, <2>1
        <3> QED
            BY <3>1, IdleFine
    <2>2. CASE WalletOf[t] # c.wallet
        <3>1. tasks'[t] = tasks[t] /\ deals'[WalletOf[t]] = deal(t)
            BY <1>2, <2>2, ContractFacts DEF IInv, Types, deal
        <3> QED
            BY <1>2, <3>1, TaskFacts
    <2> QED
        BY <2>1, <2>2
<1>8. TasksFine'
    BY <1>7 DEF TasksFine, deal
<1> QED
    BY <1>3, <1>4, <1>5, <1>6, <1>8 DEF IInv

-----------------------------------------------------------------------------
(* The invariant *)

\* Both wallets hold the accepted deal, nothing is on the chain and nothing runs.
LEMMA InitInv == Init => IInv
<1> SUFFICES ASSUME Init PROVE IInv
    OBVIOUS
<1> DEFINE r1 == [frame |-> OfferFrame, ts |-> 0]
           r2 == [frame |-> AcceptFrame, ts |-> 0]
<1>1. OfferFrame \in OfferFrames /\ OfferFrame.type = "offer"
    <2>1. Contract.offer.from \in Dids
        BY ContractFacts, DealAssumption DEF Offer
    <2> QED
        BY <2>1, ContractFacts DEF OfferFrame, OfferFrames
<1>2. AcceptFrame \in AcceptFrames /\ AcceptFrame.type = "accept" /\ AcceptFrame.contract = Contract
    BY ContractFacts DEF AcceptFrame, AcceptFrames
<1>3. r1 \in WRecord /\ r2 \in WRecord /\ r1.frame = OfferFrame /\ r2.frame = AcceptFrame
    BY <1>1, <1>2 DEF WRecord, DealFrames
<1> HIDE DEF r1, r2
<1>4. room = <<r1, r2>>
    BY DEF Init, r1, r2
<1>5. room \in Seq(WRecord) /\ Len(room) = 2 /\ DOMAIN room = 1..2
      /\ room[1] = r1 /\ room[2] = r2
    BY <1>3, <1>4
<1>6. /\ Accepted \in Deal /\ Accepted.status = "ACCEPTED"
    <2>1. NewDeal(Contract.offer) \in Deal
        BY ContractFacts, NewDealType
    <2> QED
        BY <1>2, <2>1, ContractFacts DEF Accepted, applyAccept, Deal, DealStatus
<1>7. Types
    <2>1. /\ preimage \in BOOLEAN /\ now \in Nat /\ escrow \in {"None", "Locked", "Claimed", "Refunded"}
          /\ todo \subseteq WCall
        BY WalletAssumption DEF Init, WCall
    <2>2. /\ deals \in [Wallets -> Deal \cup {NoDeal}]
          /\ saved \in [Wallets -> Outcomes \cup {"none"}]
        BY <1>6 DEF Init
    <2>3. tasks \in [Tasks -> Task]
        BY IdleFine DEF Init
    <2>4. seen \in [Wallets -> SUBSET (Nat \X Nat)]
        <3>1. \A n \in {1, 2} : OwnKey(n) \in Nat \X Nat
            BY DEF OwnKey
        <3> QED
            BY <3>1 DEF Init
    <2> QED
        BY <1>5, <2>1, <2>2, <2>3, <2>4 DEF Types
<1>8. RoomFine
    <2> SUFFICES ASSUME NEW n \in DOMAIN room PROVE True(n, room[n].frame, escrow, reverted)
        BY DEF RoomFine
    <2>1. n = 1 \/ n = 2
        BY <1>5
    <2>2. CASE n = 1
        BY <1>1, <1>3, <1>5, <2>2 DEF True
    <2>3. CASE n = 2
        BY <1>2, <1>3, <1>5, <2>3 DEF True
    <2> QED
        BY <2>1, <2>2, <2>3
<1>9. ASSUME NEW w \in Wallets PROVE WalletFine(w)
    <2>1. deals[w] = Accepted /\ saved[w] = "none" /\ <<1, 1>> \in seen[w]
        BY DEF Init
    <2> QED
        BY <1>6, <2>1 DEF WalletFine, Sound, isTerminal
<1>10. Asked(pool, escrow, reverted, now)
    BY DEF Init, Asked
<1>11. TasksFine
    BY IdleFine DEF Init, TasksFine
<1> QED
    BY <1>7, <1>8, <1>9, <1>10, <1>11 DEF IInv

\* Every step keeps it.
LEMMA NextKeeps == IInv /\ [Next]_vars => IInv'
<1> SUFFICES ASSUME IInv, [Next]_vars PROVE IInv'
    OBVIOUS
<1>1. ASSUME NEW t \in Tasks, NEW c \in todo, Call(t, c) PROVE IInv'
    BY <1>1, CallStep
<1>2. ASSUME NEW t \in Tasks, Step(t) PROVE IInv'
    BY <1>2, EnterStep, CheckStep, SearchStep, SubmitStep, WaitStep, RecheckStep, VerifyLockStep,
       SendStep, IngestStep, SaveStep, FetchStep, RecordStep, ReconcileStep DEF Step
<1>3. ASSUME NEW k \in DOMAIN Goal, Mine(k) PROVE IInv'
    BY <1>3, MineStep
<1>4. CASE Elapse
    BY <1>4, ElapseStep
<1>5. ASSUME NEW c \in todo, Restart(c) PROVE IInv'
    BY <1>5, RestartStep
<1>6. CASE UNCHANGED vars
    BY <1>6 DEF vars, memory, control, chain, IInv, Types, RoomFine, WalletFine, TasksFine, deal
<1> QED
    BY <1>1, <1>2, <1>3, <1>4, <1>5, <1>6 DEF Next

\* It holds always.
THEOREM Invariance == Spec => []IInv
<1> QED
    BY InitInv, NextKeeps, PTL DEF Spec

-----------------------------------------------------------------------------
(* What follows *)

\* What happened as far as a wallet can know, in the words of the properties.
LEMMA OverEnded ==
    ASSUME IInv, NEW o, Over(o, escrow, reverted)
    PROVE  Ended(o)
<1>1. /\ "claim" \in reverted => escrow # "None"
      /\ "refund" \in reverted => now >= Deadline /\ escrow \in {"Locked", "Refunded"}
    BY DEF IInv, Asked
<1> QED
    BY <1>1 DEF Over, Ended

\* Whatever fails, is lost or is called again: what a wallet tells the room of the escrow
\* (claimFunds(), refundDeal(), lockFunds(), revealSecret()) has happened on the chain, or a
\* transaction that should have made it so was mined without effect.
THEOREM RoomTellsChainAlways == Spec => []RoomTellsChain
<1>1. IInv => RoomTellsChain
    <2> SUFFICES ASSUME IInv, NEW n \in DOMAIN room PROVE Backed(room[n].frame)
        BY DEF RoomTellsChain
    <2> DEFINE f == room[n].frame
    <2>1. True(n, f, escrow, reverted)
        BY DEF IInv, RoomFine
    <2>2. CASE f.type \in {"lock", "reveal"}
        BY <2>1, <2>2 DEF True, Backed
    <2>3. CASE f.type = "refund"
        BY <2>1, <2>3, OverEnded DEF True, Backed
    <2>4. CASE f.type = "receipt"
        BY <2>1, <2>4, OverEnded DEF True, Backed
    <2>5. CASE f.type \notin {"lock", "reveal", "refund", "receipt"}
        BY <2>5 DEF Backed
    <2> QED
        BY <2>2, <2>3, <2>4, <2>5
<1> QED
    BY <1>1, Invariance, PTL

\* What a wallet holds or has stored about the deal agrees with the chain in the same sense,
\* after a restart and a replay too (sync(), archiveDeal()).
THEOREM DealsTellChainAlways == Spec => []DealsTellChain
<1>1. IInv => DealsTellChain
    <2> SUFFICES ASSUME IInv, NEW w \in Wallets
                 PROVE  /\ saved[w] # "none" => Ended(saved[w])
                        /\ found(deals[w]) =>
                              /\ deals[w].status \in {"LOCKED", "VERIFIED", "REVEALED"} => escrow # "None"
                              /\ isTerminal(deals[w]) => Ended(OutcomeOf(deals[w].status))
        BY DEF DealsTellChain
    <2>1. WalletFine(w)
        BY DEF IInv
    <2> QED
        BY <2>1, OverEnded DEF WalletFine, Sound
<1> QED
    BY <1>1, Invariance, PTL

\* The rail's method returns without the secret only once the claim is public.
LEMMA SettlePublic ==
    ASSUME NEW t \in Tasks, Settle(t), Op(t) = "claim" => Over("claimed", escrow, reverted),
           UNCHANGED <<escrow, reverted>>
    PROVE  preimage' = preimage \/ Public'
<1>1. CASE UNCHANGED preimage
    BY <1>1
<1>2. CASE Op(t) = "claim"
    BY <1>2 DEF Over, Public
<1> QED
    BY <1>1, <1>2 DEF Settle

\* The payee's only copy of the secret is not wiped before others can read it
\* (revealSecret() and claimFunds() both wipe it; a restart loses it).
THEOREM SecretKeptAlways == Spec => SecretKept
<1>1. IInv /\ [Next]_vars => [preimage /\ ~preimage' => Public' \/ seen'[payee] = {}]_vars
    <2> SUFFICES ASSUME IInv, [Next]_vars, preimage /\ ~preimage'
                 PROVE  Public' \/ seen'[payee] = {}
        OBVIOUS
    <2>0. preimage' # preimage
        OBVIOUS
    <2>1. ASSUME NEW t \in Tasks, NEW c \in todo, Call(t, c) PROVE FALSE
        BY <2>0, <2>1 DEF Call, memory
    <2>2. ASSUME NEW t \in Tasks, Step(t) PROVE Public'
        <3>1. CASE Submit(t)
            <4>1. Settle(t) /\ Op(t) # "lock" /\ Goal[Op(t)] \in Answers
                BY <2>0, <3>1 DEF Submit
            <4>2. Op(t) = "claim" => Over("claimed", escrow, reverted)
                BY <4>1 DEF Goal, Answers, Null, Over
            <4>3. UNCHANGED <<escrow, reverted>>
                BY <3>1 DEF Submit
            <4> QED
                BY <2>0, <4>1, <4>2, <4>3, SettlePublic
        <3>2. CASE Wait(t)
            <4>1. Settle(t) /\ Op(t) \notin pool /\ tasks[t].pc = "wait"
                BY <2>0, <3>2 DEF Wait, At
            <4>2. Op(t) = "claim" => Over("claimed", escrow, reverted)
                BY <4>1, TaskFacts DEF Fine, Op
            <4>3. UNCHANGED <<escrow, reverted>>
                BY <3>2 DEF Wait, chain
            <4> QED
                BY <2>0, <4>1, <4>2, <4>3, SettlePublic
        <3>3. CASE Recheck(t)
            <4>1. Settle(t) /\ Goal[Op(t)] \in Answers
                BY <2>0, <3>3 DEF Recheck
            <4>2. Op(t) = "claim" => Over("claimed", escrow, reverted)
                BY <4>1 DEF Goal, Answers, Null, Over
            <4>3. UNCHANGED <<escrow, reverted>>
                BY <3>3 DEF Recheck, chain
            <4> QED
                BY <2>0, <4>1, <4>2, <4>3, SettlePublic
        <3>4. CASE Ingest(t)
            <4>1. Finish(t) /\ tasks[t].pc = "ingest" /\ room' = room
                BY <2>0, <3>4 DEF Ingest, At, memory
            <4>2. tasks[t].op = "reveal"
                BY <2>0, <4>1 DEF Finish, Op
            <4>3. /\ tasks[t].at \in Nat /\ tasks[t].at > 1 /\ tasks[t].at <= Len(room)
                  /\ room[tasks[t].at].frame.type = "reveal"
                BY <4>1, <4>2, TaskFacts DEF Fine, Task
            <4>4. tasks[t].at \in DOMAIN room
                BY <4>3, TaskFacts
            <4> QED
                BY <4>1, <4>3, <4>4 DEF Public, SaysIn
        <3>5. CASE Check(t)
            BY <2>0, <3>5 DEF Check, CheckLock, CheckClaim, CheckRefund, CheckCancel, CheckVerify,
               Checked
        <3>6. CASE Enter(t) \/ Search(t) \/ VerifyLock(t) \/ Send(t) \/ Save(t) \/ Fetch(t)
            BY <2>0, <3>6 DEF Enter, Search, VerifyLock, Send, Save, Fetch, memory
        <3>7. CASE Record(t) \/ Reconcile(t)
            BY <2>0, <3>7 DEF Record, Reconcile
        <3> QED
            BY <2>2, <3>1, <3>2, <3>3, <3>4, <3>5, <3>6, <3>7 DEF Step
    <2>3. ASSUME NEW k \in DOMAIN Goal, Mine(k) PROVE FALSE
        BY <2>0, <2>3 DEF Mine, memory
    <2>4. CASE Elapse
        BY <2>0, <2>4 DEF Elapse, memory
    <2>5. ASSUME NEW c \in todo, Restart(c) PROVE seen'[payee] = {}
        <3>1. c.wallet = payee
            BY <2>0, <2>5 DEF Restart, IInv, Types
        <3> QED
            BY <2>5, <3>1 DEF Restart, IInv, Types, Wallets
    <2>6. CASE UNCHANGED vars
        BY <2>0, <2>6 DEF vars, memory
    <2> QED
        BY <2>1, <2>2, <2>3, <2>4, <2>5, <2>6 DEF Next
<1> QED
    BY <1>1, Invariance, PTL DEF Spec, SecretKept
-----------------------------------------------------------------------------
(* The mutexes, and what else the types of the state ask for *)

\* A task k, t, in the queues q of its wallet: under a mutex it is in the queue of its
\* key, and at the head of it once it has entered.
InTurn(t, k, q) == k.op \in DOMAIN Says \ DOMAIN Unlocked =>
                       /\ Contains(q[k.key], t)
                       /\ k.pc # "enter" => Head(q[k.key]) = t

Turns == /\ queue \in [Wallets -> [Keys -> Seq(Tasks)]]
         /\ \A t \in Tasks : InTurn(t, tasks[t], queue[WalletOf[t]])

Bounded == /\ pool \cup reverted \subseteq DOMAIN Goal
           /\ now <= Deadline
           /\ \A n \in DOMAIN room : room[n].ts <= Deadline

\* What a queue keeps when somebody joins it, and when its first one leaves.
LEMMA QueueOf ==
    ASSUME NEW q \in Seq(Tasks), NEW t \in Tasks, NEW s \in Tasks, Contains(q, s)
    PROVE  /\ q # << >> /\ Head(q) \in Tasks /\ Tail(q) \in Seq(Tasks)
           /\ Contains(Append(q, t), s) /\ Head(Append(q, t)) = Head(q)
           /\ Head(q) # s => Contains(Tail(q), s)
<1>1. PICK i \in 1..Len(q) : q[i] = s
    BY DEF Contains
<1>2. q # << >> /\ Head(q) = q[1] /\ Head(q) \in Tasks /\ Tail(q) \in Seq(Tasks)
    BY <1>1
<1>3. /\ Append(q, t) \in Seq(Tasks) /\ Len(Append(q, t)) = Len(q) + 1
      /\ \A j \in 1..Len(q) : Append(q, t)[j] = q[j]
    OBVIOUS
<1>4. Head(Append(q, t)) = Head(q)
    BY <1>1, <1>2, <1>3
<1>5. Contains(Append(q, t), s)
    BY <1>1, <1>3 DEF Contains
<1>6. ASSUME Head(q) # s PROVE Contains(Tail(q), s)
    <2>1. i # 1
        BY <1>1, <1>2, <1>6
    <2>2. i - 1 \in 1..Len(Tail(q)) /\ Tail(q)[i - 1] = q[i]
        BY <1>2, <2>1
    <2> QED
        BY <1>1, <2>2 DEF Contains
<1> QED
    BY <1>2, <1>4, <1>5, <1>6

\* A task that goes on where it is keeps its place.
LEMMA StayTurn ==
    ASSUME IInv, Turns, NEW t \in Tasks, NEW k, tasks' = [tasks EXCEPT ![t] = k],
           queue' = queue, InTurn(t, k, queue[WalletOf[t]])
    PROVE  Turns'
<1>1. tasks \in [Tasks -> Task]
    BY DEF IInv, Types
<1>2. ASSUME NEW s \in Tasks PROVE InTurn(s, tasks'[s], queue'[WalletOf[s]])
    BY <1>1 DEF Turns
<1> QED
    BY <1>2 DEF Turns

\* Another record of a task that has entered, of the same operation and key.
Onwards(t) == /\ tasks[t].pc # "enter" /\ queue' = queue
              /\ \E k : /\ tasks' = [tasks EXCEPT ![t] = k]
                        /\ k.op = tasks[t].op /\ k.key = tasks[t].key

LEMMA OnwardsTurn ==
    ASSUME IInv, Turns, NEW t \in Tasks, Onwards(t)
    PROVE  Turns'
<1>1. PICK k : /\ tasks' = [tasks EXCEPT ![t] = k]
               /\ k.op = tasks[t].op /\ k.key = tasks[t].key
    BY DEF Onwards
<1>2. InTurn(t, tasks[t], queue[WalletOf[t]]) /\ tasks[t].pc # "enter" /\ queue' = queue
    BY DEF Turns, Onwards
<1>3. InTurn(t, k, queue[WalletOf[t]])
    BY <1>1, <1>2 DEF InTurn
<1> QED
    BY <1>1, <1>2, <1>3, StayTurn

LEMMA GoOnwards ==
    ASSUME IInv, NEW t \in Tasks, NEW pc, Go(t, pc), tasks[t].pc # "enter"
    PROVE  Onwards(t)
<1> DEFINE k == [tasks[t] EXCEPT !.pc = pc]
<1>1. tasks[t] \in Task
    BY DEF IInv, Types
<1>2. k.op = tasks[t].op /\ k.key = tasks[t].key
    BY <1>1 DEF Task
<1>3. tasks' = [tasks EXCEPT ![t] = k] /\ queue' = queue
    BY DEF Go
<1> QED
    BY <1>2, <1>3 DEF Onwards

\* A call that ends gives back its mutexes, and leaves everybody else in his place.
LEMMA EndTurn ==
    ASSUME IInv, Turns, NEW t \in Tasks, End(t)
    PROVE  Turns'
<1> DEFINE w == WalletOf[t]
           left == [k \in Keys |-> IF queue[w][k] # << >> /\ Head(queue[w][k]) = t
                                   THEN Tail(queue[w][k]) ELSE queue[w][k]]
<1>1. /\ tasks \in [Tasks -> Task] /\ tasks' = [tasks EXCEPT ![t] = Idle]
      /\ queue' = [queue EXCEPT ![w] = left]
      /\ w \in Wallets /\ queue \in [Wallets -> [Keys -> Seq(Tasks)]]
    BY ContractFacts DEF IInv, Types, End, Release, Turns
<1>2. left \in [Keys -> Seq(Tasks)]
    BY <1>1
<1>3. queue' \in [Wallets -> [Keys -> Seq(Tasks)]]
    BY <1>1, <1>2
<1>4. ASSUME NEW s \in Tasks PROVE InTurn(s, tasks'[s], queue'[WalletOf[s]])
    <2>1. CASE s = t
        <3>1. tasks'[s] = Idle
            BY <1>1, <2>1
        <3>2. Idle.op \notin DOMAIN Says
            BY DEF Idle, Says, Ops
        <3> QED
            BY <3>1, <3>2 DEF InTurn
    <2>2. CASE s # t /\ WalletOf[s] # w
        BY <1>1, <2>2 DEF Turns
    <2>3. CASE s # t /\ WalletOf[s] = w
        <3>1. /\ tasks'[s] = tasks[s] /\ queue'[WalletOf[s]] = left
              /\ InTurn(s, tasks[s], queue[w]) /\ tasks[s].key \in Keys
            BY <1>1, <2>3 DEF Turns, Task
        <3>2. PICK q \in Seq(Tasks) : q = queue[w][tasks[s].key]
            BY <1>1, <3>1
        <3>3. left[tasks[s].key] = IF q # << >> /\ Head(q) = t THEN Tail(q) ELSE q
            BY <3>1, <3>2
        <3> HIDE DEF left
        <3>4. ASSUME Contains(q, s)
              PROVE  Contains(left[tasks[s].key], s) /\ (Head(q) = s => Head(left[tasks[s].key]) = s)
            BY <2>3, <3>3, <3>4, QueueOf
        <3> QED
            BY <3>1, <3>2, <3>4 DEF InTurn
    <2> QED
        BY <2>1, <2>2, <2>3
<1> QED
    BY <1>3, <1>4 DEF Turns

\* A task that joins a queue is the last in it.
LEMMA JoinTurn ==
    ASSUME IInv, Turns, NEW t \in Tasks, NEW op \in Ops, NEW key \in Keys, Join(t, op, key)
    PROVE  Turns'
<1> DEFINE w == WalletOf[t]
           k == [tasks[t] EXCEPT !.op = op, !.key = key, !.pc = "enter", !.says = Says[op]]
           longer == [queue[w] EXCEPT ![key] = Append(queue[w][key], t)]
<1>1. /\ tasks \in [Tasks -> Task] /\ tasks' = [tasks EXCEPT ![t] = k]
      /\ queue' = [queue EXCEPT ![w] = longer]
      /\ w \in Wallets /\ queue \in [Wallets -> [Keys -> Seq(Tasks)]]
    BY ContractFacts DEF IInv, Types, Join, Turns
<1>2. k.key = key /\ k.pc = "enter"
    BY <1>1 DEF Task
<1> HIDE DEF k
<1>3. PICK q \in Seq(Tasks) : q = queue[w][key]
    BY <1>1
<1>4. /\ longer \in [Keys -> Seq(Tasks)] /\ longer[key] = Append(q, t)
      /\ \A other \in Keys : other # key => longer[other] = queue[w][other]
    BY <1>1, <1>3
<1> HIDE DEF longer
<1>5. queue' \in [Wallets -> [Keys -> Seq(Tasks)]]
    BY <1>1, <1>4
<1>6. ASSUME NEW s \in Tasks PROVE InTurn(s, tasks'[s], queue'[WalletOf[s]])
    <2>1. CASE s = t
        <3>1. tasks'[s] = k /\ queue'[WalletOf[s]] = longer
            BY <1>1, <2>1
        <3>2. Append(q, t) \in Seq(Tasks) /\ Len(Append(q, t)) = Len(q) + 1 /\ Append(q, t)[Len(q) + 1] = t
            OBVIOUS
        <3>3. Len(q) + 1 \in 1..Len(Append(q, t))
            BY <3>2
        <3>4. Contains(Append(q, t), t)
            BY <3>2, <3>3 DEF Contains
        <3> QED
            BY <1>2, <1>4, <2>1, <3>1, <3>4 DEF InTurn
    <2>2. CASE s # t /\ WalletOf[s] # w
        BY <1>1, <2>2 DEF Turns
    <2>3. CASE s # t /\ WalletOf[s] = w
        <3>1. /\ tasks'[s] = tasks[s] /\ queue'[WalletOf[s]] = longer
              /\ InTurn(s, tasks[s], queue[w]) /\ tasks[s].key \in Keys
            BY <1>1, <2>3 DEF Turns, Task
        <3>2. CASE tasks[s].key = key
            <4>1. Contains(q, s) => Contains(Append(q, t), s) /\ Head(Append(q, t)) = Head(q)
                BY QueueOf
            <4> QED
                BY <1>3, <1>4, <3>1, <3>2, <4>1 DEF InTurn
        <3>3. CASE tasks[s].key # key
            BY <1>4, <3>1, <3>3 DEF InTurn
        <3> QED
            BY <3>2, <3>3
    <2> QED
        BY <2>1, <2>2, <2>3
<1> QED
    BY <1>5, <1>6 DEF Turns

\* A step of a task that is past the mutex, or needs none: it goes on or its call ends.
Works(t) == tasks[t].pc # "enter" /\ (End(t) \/ Onwards(t))

LEMMA WorksTurn ==
    ASSUME IInv, Turns, NEW t \in Tasks, Works(t)
    PROVE  Turns'
BY EndTurn, OnwardsTurn DEF Works

LEMMA GoWorks ==
    ASSUME IInv, NEW t \in Tasks, NEW pc, Go(t, pc), tasks[t].pc # "enter"
    PROVE  Works(t)
BY GoOnwards DEF Works

\* A refund of the deal, after the chain has been read.
LEMMA RefundingWorks ==
    ASSUME IInv, NEW t \in Tasks, Refunding(t), tasks[t].pc # "enter"
    PROVE  Works(t)
BY GoWorks DEF Refunding, Works

LEMMA SettleWorks ==
    ASSUME IInv, NEW t \in Tasks, Settle(t), tasks[t].pc # "enter"
    PROVE  Works(t)
BY GoWorks, RefundingWorks DEF Settle

\* Every step of a task but those that wait for a mutex, begin to or follow a record.
LEMMA StepWorks ==
    ASSUME IInv, NEW t \in Tasks,
           \/ Check(t) \/ Search(t) \/ Submit(t) \/ Wait(t) \/ Recheck(t) \/ VerifyLock(t)
           \/ Send(t) \/ Save(t) \/ Fetch(t) \/ Record(t) \/ Reconcile(t)
    PROVE  Works(t)
<1>0. tasks[t] \in Task
    BY DEF IInv, Types
<1>1. ASSUME NEW held \in Answers, CheckLock(t, held) PROVE Works(t)
    <2>1. tasks[t].pc # "enter"
        BY <1>1 DEF CheckLock, Checking, At
    <2> QED
        BY <1>1, <2>1, GoWorks DEF CheckLock
<1>2. ASSUME NEW held \in Answers, CheckClaim(t, held) PROVE Works(t)
    <2>1. tasks[t].pc # "enter"
        BY <1>2 DEF CheckClaim, Checking, At
    <2> QED
        BY <1>2, <2>1, GoWorks DEF CheckClaim
<1>3. ASSUME NEW held \in Answers, CheckRefund(t, held) PROVE Works(t)
    <2>1. tasks[t].pc # "enter"
        BY <1>3 DEF CheckRefund, Checking, At
    <2> QED
        BY <1>3, <2>1, GoWorks, RefundingWorks DEF CheckRefund
<1>4. ASSUME NEW held \in Answers, CheckCancel(t, held) PROVE Works(t)
    <2>1. tasks[t].pc # "enter"
        BY <1>4 DEF CheckCancel, Checking, At
    <2> QED
        BY <1>4, <2>1, GoWorks DEF CheckCancel, Works
<1>5. ASSUME NEW held \in Answers, CheckVerify(t, held) PROVE Works(t)
    BY <1>5 DEF CheckVerify, Checking, At, Works
<1>6. CASE Search(t)
    <2>1. tasks[t].pc # "enter"
        BY <1>6 DEF Search, At
    <2> QED
        BY <1>6, <2>1, GoWorks DEF Search, Works
<1>7. CASE Submit(t)
    <2>1. tasks[t].pc # "enter"
        BY <1>7 DEF Submit, At
    <2>2. Settle(t) \/ \E pc : Go(t, pc)
        BY <1>7 DEF Submit
    <2> QED
        BY <2>1, <2>2, GoWorks, SettleWorks
<1>8. CASE Wait(t)
    <2>1. tasks[t].pc # "enter"
        BY <1>8 DEF Wait, At
    <2> QED
        BY <1>8, <2>1, GoWorks, SettleWorks DEF Wait
<1>9. CASE Recheck(t)
    <2>1. tasks[t].pc # "enter"
        BY <1>9 DEF Recheck, At
    <2> QED
        BY <1>9, <2>1, SettleWorks DEF Recheck, Works
<1>10. CASE VerifyLock(t)
    <2>1. tasks[t].pc # "enter"
        BY <1>10 DEF VerifyLock, At
    <2> QED
        BY <1>10, <2>1, GoWorks DEF VerifyLock, Works
<1>11. CASE Send(t)
    <2>1. tasks[t].pc # "enter"
        BY <1>11 DEF Send, At
    <2>2. CASE /\ tasks' = [tasks EXCEPT ![t].pc = "ingest", ![t].at = Len(room) + 1]
               /\ UNCHANGED queue
        <3> DEFINE k == [tasks[t] EXCEPT !.pc = "ingest", !.at = Len(room) + 1]
        <3>1. k.op = tasks[t].op /\ k.key = tasks[t].key
            BY <1>0 DEF Task
        <3>2. tasks' = [tasks EXCEPT ![t] = k]
            BY <2>2
        <3> QED
            BY <2>1, <2>2, <3>1, <3>2 DEF Works, Onwards
    <2> QED
        BY <1>11, <2>1, <2>2 DEF Send, Works
<1>12. CASE Save(t)
    BY <1>12 DEF Save, At, Works
<1>13. CASE Fetch(t)
    <2> DEFINE k == [tasks[t] EXCEPT !.pc = "records", !.at = 1, !.upto = Len(room)]
    <2>1. k.op = tasks[t].op /\ k.key = tasks[t].key
        BY <1>0 DEF Task
    <2>2. /\ tasks' = [tasks EXCEPT ![t] = k] /\ queue' = queue
          /\ tasks[t].pc # "enter"
        BY <1>13 DEF Fetch, At
    <2> QED
        BY <2>1, <2>2 DEF Works, Onwards
<1>14. CASE Record(t)
    <2>1. tasks[t].pc # "enter" /\ (End(t) \/ Advance(t))
        BY <1>14 DEF Record, At, Stop
    <2>2. CASE Advance(t)
        <3> DEFINE pc == IF tasks[t].at = tasks[t].upto THEN "reconcile" ELSE tasks[t].pc
                   k == [tasks[t] EXCEPT !.at = tasks[t].at + 1, !.pc = pc]
        <3>1. k.op = tasks[t].op /\ k.key = tasks[t].key
            BY <1>0 DEF Task
        <3>2. tasks' = [tasks EXCEPT ![t] = k] /\ queue' = queue
            BY <1>0, <2>2 DEF Advance, Task
        <3> QED
            BY <2>1, <3>1, <3>2 DEF Works, Onwards
    <2> QED
        BY <2>1, <2>2 DEF Works
<1>15. CASE Reconcile(t)
    BY <1>15 DEF Reconcile, At, Works
<1> QED
    BY <1>1, <1>2, <1>3, <1>4, <1>5, <1>6, <1>7, <1>8, <1>9, <1>10, <1>11, <1>12, <1>13,
       <1>14, <1>15 DEF Check

LEMMA EnterTurn ==
    ASSUME IInv, Turns, NEW t \in Tasks, Enter(t)
    PROVE  Turns'
<1>1. /\ Head(queue[WalletOf[t]][tasks[t].key]) = t
      /\ tasks[t] \in Task /\ InTurn(t, tasks[t], queue[WalletOf[t]])
    BY DEF Enter, IInv, Types, Turns
<1>2. CASE Go(t, First[Op(t)])
    <2> DEFINE k == [tasks[t] EXCEPT !.pc = First[Op(t)]]
    <2>1. k.op = tasks[t].op /\ k.key = tasks[t].key
        BY <1>1 DEF Task
    <2>2. tasks' = [tasks EXCEPT ![t] = k] /\ queue' = queue
        BY <1>2 DEF Go
    <2> HIDE DEF k
    <2>3. InTurn(t, k, queue[WalletOf[t]])
        BY <1>1, <2>1 DEF InTurn
    <2> QED
        BY <2>2, <2>3, StayTurn
<1> QED
    BY <1>2, EndTurn DEF Enter

LEMMA IngestTurn ==
    ASSUME IInv, Turns, NEW t \in Tasks, Ingest(t)
    PROVE  Turns'
<1>1. tasks[t].pc # "enter" /\ (Finish(t) \/ End(t)) /\ tasks[t] \in Task
    BY DEF Ingest, At, IInv, Types
<1>2. CASE tasks' = [tasks EXCEPT ![t].pc = "send", ![t].says = Tail(@)] /\ UNCHANGED queue
    <2> DEFINE k == [tasks[t] EXCEPT !.pc = "send", !.says = Tail(tasks[t].says)]
    <2>1. k.op = tasks[t].op /\ k.key = tasks[t].key
        BY <1>1 DEF Task
    <2>2. tasks' = [tasks EXCEPT ![t] = k]
        BY <1>1, <1>2 DEF Task
    <2> QED
        BY <1>1, <1>2, <2>1, <2>2, OnwardsTurn DEF Onwards
<1>3. CASE Join(t, "archive", "contract")
    BY <1>3, JoinTurn DEF Ops, Keys
<1> QED
    BY <1>1, <1>2, <1>3, EndTurn DEF Finish

LEMMA CallTurn ==
    ASSUME IInv, Turns, NEW t \in Tasks, NEW c \in todo, Call(t, c)
    PROVE  Turns'
<1>1. c.op \in Ops /\ c.key \in Keys /\ tasks[t] \in Task
    BY DEF IInv, Types, WCall, Call
<1>2. CASE c.op \in DOMAIN Unlocked /\ queue' = queue
           /\ tasks' = [tasks EXCEPT ![t] = [@ EXCEPT !.op = c.op, !.pc = Unlocked[c.op]]]
    <2> DEFINE k == [tasks[t] EXCEPT !.op = c.op, !.pc = Unlocked[c.op]]
    <2>1. k.op = c.op
        BY <1>1 DEF Task
    <2>2. tasks' = [tasks EXCEPT ![t] = k]
        BY <1>2
    <2> HIDE DEF k
    <2>3. InTurn(t, k, queue[WalletOf[t]])
        BY <1>2, <2>1 DEF InTurn
    <2> QED
        BY <1>2, <2>2, <2>3, StayTurn
<1>3. CASE Join(t, c.op, c.key)
    BY <1>1, <1>3, JoinTurn
<1> QED
    BY <1>2, <1>3 DEF Call

LEMMA RestartTurn ==
    ASSUME IInv, Turns, NEW c \in todo, Restart(c)
    PROVE  Turns'
<1>1. /\ c.wallet \in Wallets /\ tasks \in [Tasks -> Task]
      /\ queue \in [Wallets -> [Keys -> Seq(Tasks)]]
    BY DEF IInv, Types, WCall, Turns
<1>2. << >> \in Seq(Tasks)
    OBVIOUS
<1>3. /\ queue' = [queue EXCEPT ![c.wallet] = [k \in Keys |-> << >>]]
      /\ tasks' = [t \in Tasks |-> IF WalletOf[t] = c.wallet THEN Idle ELSE tasks[t]]
    BY DEF Restart
<1>4. queue' \in [Wallets -> [Keys -> Seq(Tasks)]]
    BY <1>1, <1>2, <1>3
<1>5. ASSUME NEW t \in Tasks PROVE InTurn(t, tasks'[t], queue'[WalletOf[t]])
    <2>1. CASE WalletOf[t] = c.wallet
        <3>1. tasks'[t] = Idle
            BY <1>3, <2>1
        <3>2. Idle.op \notin DOMAIN Says
            BY DEF Idle, Says, Ops
        <3> QED
            BY <3>1, <3>2 DEF InTurn
    <2>2. CASE WalletOf[t] # c.wallet
        <3>1. tasks'[t] = tasks[t] /\ queue'[WalletOf[t]] = queue[WalletOf[t]]
            BY <1>1, <1>3, <2>2, ContractFacts
        <3> QED
            BY <3>1 DEF Turns
    <2> QED
        BY <2>1, <2>2
<1> QED
    BY <1>4, <1>5 DEF Turns

LEMMA NextTurns == IInv /\ Turns /\ [Next]_vars => Turns'
<1> SUFFICES ASSUME IInv, Turns, [Next]_vars PROVE Turns'
    OBVIOUS
<1>1. ASSUME NEW t \in Tasks, NEW c \in todo, Call(t, c) PROVE Turns'
    BY <1>1, CallTurn
<1>2. ASSUME NEW t \in Tasks, Step(t) PROVE Turns'
    BY <1>2, EnterTurn, IngestTurn, StepWorks, WorksTurn DEF Step
<1>3. ASSUME NEW c \in todo, Restart(c) PROVE Turns'
    BY <1>3, RestartTurn
<1>4. CASE UNCHANGED control
    BY <1>4 DEF control, Turns
<1>5. ASSUME NEW k \in DOMAIN Goal, Mine(k) PROVE Turns'
    BY <1>4, <1>5 DEF Mine
<1>6. CASE Elapse
    BY <1>4, <1>6 DEF Elapse
<1> QED
    BY <1>1, <1>2, <1>3, <1>4, <1>5, <1>6 DEF Next, vars

\* What a step does to the transactions, the clock and the room.
LEMMA StepBounds ==
    ASSUME IInv, Bounded, NEW t \in Tasks, Step(t)
    PROVE  /\ pool' = pool \/ \E k \in DOMAIN Goal : pool' = pool \cup {k}
           /\ reverted' = reverted /\ now' = now
           /\ room' = room \/ \E f : room' = Append(room, [frame |-> f, ts |-> now])
<1>1. CASE Check(t)
    BY <1>1 DEF Check, CheckLock, CheckClaim, CheckRefund, CheckCancel, CheckVerify, Checked, chain
<1>2. CASE Submit(t)
    <2>1. Op(t) \in DOMAIN Goal
        <3>1. tasks[t].op \in {"lock", "claim", "refund"}
            BY <1>2, TaskFacts DEF Fine, Submit, At
        <3> QED
            BY <3>1 DEF Goal, Op
    <2> QED
        BY <1>2, <2>1 DEF Submit
<1>3. CASE Send(t)
    BY <1>3 DEF Send, Said, chain
<1>4. CASE \/ Enter(t) \/ Search(t) \/ Wait(t) \/ Recheck(t) \/ VerifyLock(t)
           \/ Ingest(t) \/ Save(t) \/ Fetch(t) \/ Record(t) \/ Reconcile(t)
    BY <1>4 DEF Enter, Search, Wait, Recheck, VerifyLock, Ingest, Save, Fetch, Record, Reconcile, chain
<1> QED
    BY <1>1, <1>2, <1>3, <1>4 DEF Step

LEMMA NextBounds == IInv /\ Bounded /\ [Next]_vars => Bounded'
<1> SUFFICES ASSUME IInv, Bounded, [Next]_vars PROVE Bounded'
    OBVIOUS
<1>0. room \in Seq(WRecord) /\ now \in Nat /\ Deadline \in Nat
    BY ContractFacts DEF IInv, Types
<1>1. ASSUME NEW t \in Tasks, NEW c \in todo, Call(t, c) PROVE Bounded'
    BY <1>1 DEF Call, chain, Bounded
<1>2. ASSUME NEW t \in Tasks, Step(t) PROVE Bounded'
    <2>1. /\ pool' = pool \/ \E k \in DOMAIN Goal : pool' = pool \cup {k}
          /\ reverted' = reverted /\ now' = now
          /\ room' = room \/ \E f : room' = Append(room, [frame |-> f, ts |-> now])
        BY <1>2, StepBounds
    <2>2. ASSUME NEW n \in DOMAIN room' PROVE room'[n].ts <= Deadline
        <3>1. CASE room' = room
            BY <3>1 DEF Bounded
        <3>2. CASE \E f : room' = Append(room, [frame |-> f, ts |-> now])
            <4>1. PICK f : room' = Append(room, [frame |-> f, ts |-> now])
                BY <3>2
            <4>2. PICK r : r = [frame |-> f, ts |-> now]
                OBVIOUS
            <4>3. r.ts = now
                BY <4>2
            <4>4. /\ Len(room') = Len(room) + 1 /\ DOMAIN room' = 1..(Len(room) + 1)
                  /\ room'[Len(room) + 1] = r /\ \A i \in 1..Len(room) : room'[i] = room[i]
                BY <1>0, <4>1, <4>2
            <4>5. n = Len(room) + 1 \/ n \in 1..Len(room)
                BY <1>0, <4>4
            <4> QED
                BY <1>0, <4>3, <4>4, <4>5 DEF Bounded
        <3> QED
            BY <2>1, <3>1, <3>2
    <2> QED
        BY <2>1, <2>2 DEF Bounded
<1>3. ASSUME NEW k \in DOMAIN Goal, Mine(k) PROVE Bounded'
    BY <1>3 DEF Mine, Bounded
<1>4. CASE Elapse
    BY <1>0, <1>4 DEF Elapse, chain, Bounded
<1>5. ASSUME NEW c \in todo, Restart(c) PROVE Bounded'
    BY <1>5 DEF Restart, chain, Bounded
<1>6. CASE UNCHANGED vars
    BY <1>6 DEF vars, chain, Bounded
<1> QED
    BY <1>1, <1>2, <1>3, <1>4, <1>5, <1>6 DEF Next

LEMMA InitTurns == Init => Turns /\ Bounded
<1> SUFFICES ASSUME Init PROVE Turns /\ Bounded
    OBVIOUS
<1>1. << >> \in Seq(Tasks)
    OBVIOUS
<1>2. queue \in [Wallets -> [Keys -> Seq(Tasks)]]
    BY <1>1 DEF Init
<1>3. ASSUME NEW t \in Tasks PROVE InTurn(t, tasks[t], queue[WalletOf[t]])
    <2>1. tasks[t] = Idle
        BY DEF Init
    <2>2. Idle.op \notin DOMAIN Says
        BY DEF Idle, Says, Ops
    <2> QED
        BY <2>1, <2>2 DEF InTurn
<1>4. Bounded
    <2>1. now = 0 /\ pool = {} /\ reverted = {} /\ \A n \in DOMAIN room : room[n].ts = 0
        BY DEF Init
    <2> QED
        BY <2>1, ContractFacts DEF Bounded
<1> QED
    BY <1>2, <1>3, <1>4 DEF Turns

\* For any number of tasks, calls and restarts: a call under a mutex is in the queue of its
\* key and at the head of it once it has entered, so that no two calls are under the same
\* mutex (AsyncLock.runExclusive, withContractLock), and the state is of its types.
THEOREM WalletTypeCorrect == Spec => []TypeOK
<1>1. IInv /\ Turns /\ Bounded => TypeOK
    <2> SUFFICES ASSUME IInv, Turns, Bounded PROVE TypeOK
        OBVIOUS
    <2>1. room \in Seq([frame : OfferFrames \cup DealFrames, ts : 0..Deadline])
        <3> DEFINE Row == [frame : OfferFrames \cup DealFrames, ts : 0..Deadline]
        <3>1. PICK len \in Nat : len = Len(room) /\ DOMAIN room = 1..len /\ room \in Seq(WRecord)
            BY DEF IInv, Types
        <3>2. ASSUME NEW n \in 1..len
              PROVE  room[n] \in Row
            <4>1. room[n] \in WRecord /\ room[n].ts <= Deadline
                BY <3>1 DEF Bounded
            <4> QED
                BY <4>1, ContractFacts DEF WRecord
        <3> HIDE DEF Row
        <3>3. room \in [1..len -> Row]
            BY <3>1, <3>2
        <3>4. room \in Seq(Row)
            BY <3>3
        <3> QED
            BY <3>4 DEF Row
    <2>2. ASSUME NEW t \in Tasks, Op(t) \in DOMAIN Says \ DOMAIN Unlocked
          PROVE  /\ Waits(t, tasks[t].key)
                 /\ ~At(t, "enter") => Head(queue[WalletOf[t]][tasks[t].key]) = t
        BY <2>2 DEF Turns, InTurn, Op, Waits, At
    <2>3. queue \in [Wallets -> [Keys -> Seq(Tasks)]]
        BY DEF Turns
    <2> QED
        BY <2>1, <2>2, <2>3 DEF TypeOK, IInv, Types, Bounded
<1>2. Init => Turns /\ Bounded
    BY InitTurns
<1>3. IInv /\ Turns /\ Bounded /\ [Next]_vars => (Turns /\ Bounded)'
    BY NextTurns, NextBounds
<1> QED
    BY <1>1, <1>2, <1>3, Invariance, PTL DEF Spec

===============================================================================
