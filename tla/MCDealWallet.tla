----------------------------- MODULE MCDealWallet -----------------------------
(* One contract, two tasks of the payer's wallet and one of the payee's. *)
EXTENDS DealWallet, TLC

CONSTANTS alice, bob, s1, h1, p1, p2, q1

offer1 == [from |-> alice, role |-> "payer", rails |-> {EvmRail},
           claimByMs |-> 0, refundAfterMs |-> 1, expiresMs |-> 1]

MCOffers == {offer1}
MCContract == [offer |-> offer1, from |-> bob, statement |-> h1]
MCSha256 == s1 :> h1
MCWalletOf == (p1 :> alice) @@ (p2 :> alice) @@ (q1 :> bob)

By(w, op, key, time) == [wallet |-> w, op |-> op, key |-> key, time |-> time]
Once(w, ops) == {By(w, op, "contract", 1) : op \in ops}
Again(w, op) == {By(w, op, "contract", 2)}

claims == Once(alice, {"lock"}) \cup Once(bob, {"sync", "reveal", "claim", "restart"})
refunds == Once(alice, {"lock", "refund", "sync", "archive", "restart"}) \cup Once(bob, {"sync"})
races == Once(alice, {"lock", "refund"}) \cup Once(bob, {"sync", "reveal", "claim"})
cancels == Once(alice, {"lock", "refund"}) \cup {By(alice, "cancel", "offer", 1)} \cup Once(bob, {"cancel"})
repeats == Once(alice, {"lock"}) \cup Again(alice, "lock") \cup Once(bob, {"sync", "verify"}) \cup Again(bob, "sync")
Refunded == {refunds}
Repeated == {repeats}
MCPlans == {claims, refunds, races, cancels, repeats}
=============================================================================
