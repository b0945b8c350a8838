----------------------------- MODULE MCHtlcRail -----------------------------
(* Small instances of HtlcRail for TLC: one contract, two clients. *)
EXTENDS HtlcRail, TLC

CONSTANTS alice, bob, s1, s2, d1, d2, tok

MCSha256 == s1 :> d1 @@ s2 :> d2

MCTerms == [payer |-> alice, payee |-> bob, token |-> tok, amount |-> 1,
            statement |-> d1, claimByMs |-> 2, refundAfterMs |-> 3]

\* The same id locked by the payee, to itself, for a secret of its own.
MCAlien == [payer |-> bob, payee |-> bob, token |-> tok, amount |-> 1,
            statement |-> d2, claimByMs |-> 2, refundAfterMs |-> 4]

MCAccount == alice :> alice @@ bob :> bob

\* The payer's clock is a millisecond ahead of the chain's.
MCSkew == alice :> 1 @@ bob :> 0
=============================================================================
