--------------------------- MODULE MCEvmVerifier ---------------------------
(***************************************************************************)
(* A chain with two deployments of the contract.  Two escrows have the     *)
(* same id on both, one batch locks and claims two escrows of one          *)
(* deployment through a relay, and one token logs no Transfer.             *)
(***************************************************************************)
EXTENDS EvmVerifier, TLC

CONSTANTS htlc1, htlc2, relay, id1, id2, token, silent, s1, s2, h1, h2

TermsOf(t, h, refund) == [payer |-> "payer", payee |-> "payee", token |-> t, amount |-> 1,
                          hashlock |-> h, refund |-> refund]
coins == TermsOf(Native, h1, 3)
tokens == TermsOf(token, h2, 5)
quiet == TermsOf(silent, h1, 5)

MCTerms == {coins, tokens, quiet}
MCSha256 == (s1 :> h1) @@ (s2 :> h2)

lock(at, id, t) == [do |-> "lock", at |-> at, id |-> id, terms |-> t]
claim(at, id, s) == [do |-> "claim", at |-> at, id |-> id, secret |-> s]
refund(at, id) == [do |-> "refund", at |-> at, id |-> id]
Direct(call) == [to |-> call.at, calls |-> <<call>>]

lock1 == Direct(lock(htlc1, id1, coins))
lock2 == Direct(lock(htlc2, id1, tokens))
lock3 == Direct(lock(htlc1, id2, quiet))
claim1 == Direct(claim(htlc1, id1, s1))
claim2 == Direct(claim(htlc2, id1, s2))
refund1 == Direct(refund(htlc1, id1))
lockBoth == [to |-> relay, calls |-> <<lock(htlc1, id1, coins), lock(htlc1, id2, tokens)>>]
claimBoth == [to |-> relay, calls |-> <<claim(htlc1, id2, s2), claim(htlc2, id1, s2)>>]

MCTxs == {lock1, lock2, lock3, claim1, claim2, refund1, lockBoth, claimBoth}

\* The escrow is named or not; the hash of the lock or the id of the chain may be missing.
MCRequests ==
    [lock_tx : {lock1, lock2, lock3, lockBoth}, claim_tx : {None, claim1, claim2},
     refund_tx : {None, refund1}, htlc : {None}, id : {None}, chain_id : {"here"}]
    \cup [lock_tx : {lock2, lockBoth}, claim_tx : {claimBoth},
          refund_tx : {None}, htlc : {None, htlc1}, id : {None, id2}, chain_id : {"here"}]
    \cup [lock_tx : {None, lock1}, claim_tx : {claim1}, refund_tx : {None}, htlc : {htlc1},
          id : {id1}, chain_id : {"here", "there", None}]
=============================================================================
