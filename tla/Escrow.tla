------------------------------- MODULE Escrow -------------------------------
(***************************************************************************)
(* The escrow record of tclk-rail-evm/contracts/Htlc.sol and the values    *)
(* its fields range over.  Shared by the contract (Htlc), by what the      *)
(* contract promises (Settlement) and by the client of the contract        *)
(* (HtlcRail).                                                             *)
(*                                                                         *)
(* Addresses, tokens, contract ids and digests are opaque values; amounts  *)
(* and timestamps (seconds) are naturals.  Sha256 is any function: nothing *)
(* below needs it to be injective.                                         *)
(***************************************************************************)
EXTENDS Naturals, FiniteSets

CONSTANTS
    Ids,          \* contract ids, all the values of a bytes32
    Addresses,    \* accounts that can send and receive
    ZeroAddress,  \* address(0) as a payee
    Native,       \* address(0) as a token: native ETH
    ExactTokens,  \* ERC-20 tokens that move exactly the amount asked for
    SkimTokens,   \* ERC-20 tokens that keep one unit of every transfer
    Amounts,      \* the amounts a caller may name, 0 included
    Timestamps,   \* the refund timestamps a caller may name
    Secrets,
    NoSecret,     \* the absent argument of an event without a secret
    Digests,
    ZeroDigest,
    Sha256

ASSUME EscrowAssumption ==
    /\ IsFiniteSet(Ids)
    /\ Amounts \subseteq Nat
    /\ Timestamps \subseteq Nat
    /\ ZeroAddress \notin Addresses
    /\ NoSecret \notin Secrets
    /\ Native \notin ExactTokens \cup SkimTokens
    /\ ExactTokens \cap SkimTokens = {}
    /\ Sha256 \in [Secrets -> Digests]

Tokens == {Native} \cup ExactTokens \cup SkimTokens

EscrowStatus == {"None", "Locked", "Claimed", "Refunded"}

Terminal == {"Claimed", "Refunded"}

Escrow == [payer           : Addresses \cup {ZeroAddress},
           payee           : Addresses \cup {ZeroAddress},
           token           : Tokens,
           amount          : Nat,
           hashlock        : Digests \cup {ZeroDigest},
           refundTimestamp : Nat,
           status          : EscrowStatus]

\* A mapping entry nobody has written yet: every field is zero.
NoEscrow == [payer           |-> ZeroAddress,
             payee           |-> ZeroAddress,
             token           |-> Native,
             amount          |-> 0,
             hashlock        |-> ZeroDigest,
             refundTimestamp |-> 0,
             status          |-> "None"]

\* A transfer out of the contract.
Payout == [to     : Addresses \cup {ZeroAddress},
           token  : Tokens,
           amount : Nat]

\* What the contract logs under an id.
Event == [name : {"Locked", "Claimed", "Refunded"}, secret : Secrets \cup {NoSecret}]

LockedEvent == [name |-> "Locked", secret |-> NoSecret]
ClaimedEvent(s) == [name |-> "Claimed", secret |-> s]
RefundedEvent == [name |-> "Refunded", secret |-> NoSecret]

Opens(s, hashlock) == Sha256[s] = hashlock

\* Who an escrow with this status has been paid out to.
Recipient(e) == IF e.status = "Claimed" THEN e.payee ELSE e.payer

PayoutOf(e) == [to |-> Recipient(e), token |-> e.token, amount |-> e.amount]
=============================================================================
