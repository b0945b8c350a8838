------------------------------ MODULE MCDealRoom ------------------------------
(* Small instances of DealRoom for TLC: one offer, by alice. *)
EXTENDS DealRoom, TLC

CONSTANTS alice, bob, carol, s1, s2, d1, d2, htlc, paper, role

MCSha256 == s1 :> d1 @@ s2 :> d2

MCOffer == [from |-> alice, role |-> role, rails |-> {htlc},
            claimByMs |-> 1, refundAfterMs |-> 2, expiresMs |-> 2]

MCOffers == {MCOffer}

MCContract(p) == [offer |-> MCOffer, from |-> p, statement |-> d1]

c1 == MCContract(bob)
c2 == MCContract(carol)

Say(p, frame) == [from |-> p, nonce |-> 1, frame |-> frame @@ ("from" :> p)]

MCOffering == Say(alice, [type |-> "offer", offer |-> MCOffer, id |-> MCOffer])
MCAccept(p) == Say(p, [type |-> "accept", ref |-> MCOffer, statement |-> d1,
                       contract |-> MCContract(p)])
MCLock(p, rail) == Say(p, [type |-> "lock", contract |-> c1, rail |-> rail, ref |-> c1])
MCReveal(p, s) == Say(p, [type |-> "reveal", contract |-> c1, secret |-> s])
MCRefund(p) == Say(p, [type |-> "refund", contract |-> c1])
MCCancel(p, id) == Say(p, [type |-> "cancel", contract |-> id])
MCReceipt(p, outcome) == Say(p, [type |-> "receipt", contract |-> c1, outcome |-> outcome])

\* The frames of one deal, some of them wrong, by the wrong party, or twice.
Story == {MCOffering, MCAccept(bob), MCLock(alice, htlc), MCLock(bob, htlc), MCReveal(bob, s1),
          MCReveal(bob, s2), MCRefund(alice), MCReceipt(bob, "claimed"),
          MCLock(alice, paper)}

\* What can go wrong between two who want the same offer.
Contest == {MCOffering, MCAccept(bob), MCAccept(carol), [MCAccept(bob) EXCEPT !.nonce = 2],
            MCCancel(alice, MCOffer), MCCancel(bob, c1), Say(carol, [type |-> "malformed"])}

\* An offer said twice, and who answers it in time.
Again == {MCOffering, [MCOffering EXCEPT !.nonce = 2], MCAccept(bob), MCAccept(carol)}

\* A behaviour has one cast of records; only in the first do records come too late.
MCPosts == Story \cup Contest \cup Again
Posted == {[from |-> room[n].from, nonce |-> room[n].nonce, frame |-> room[n].frame]
              : n \in DOMAIN room}
OneCast == \/ Posted \subseteq Story
           \/ Posted \subseteq Contest /\ now <= 1
           \/ Posted \subseteq Again /\ now = 0
=============================================================================
