----------------------------- MODULE Settlement -----------------------------
(***************************************************************************)
(* What the hash time-locked contract promises, without its calls: per     *)
(* contract id, one lock, then at most one of                              *)
(*   - a claim with the secret strictly before the refund timestamp,       *)
(*     paying the payee and publishing the secret, or                      *)
(*   - a refund at or after it, paying the payer,                          *)
(* and nothing after that.  One transaction may advance several ids, and   *)
(* may open an escrow and claim it; it cannot open one and refund it,      *)
(* since the block timestamp is the same throughout.                       *)
(***************************************************************************)
EXTENDS Escrow, Sequences

VARIABLES
    escrow,   \* [Ids -> Escrow]
    paid,     \* [Ids -> Seq(Payout)]: the payouts made under each id
    log,      \* [Ids -> Seq(Event)]: the events logged under each id
    now       \* block.timestamp

sVars == <<escrow, paid, log, now>>

SInit == /\ escrow = [c \in Ids |-> NoEscrow]
         /\ paid = [c \in Ids |-> << >>]
         /\ log = [c \in Ids |-> << >>]
         /\ now \in Nat

Unmoved(c) == /\ escrow'[c] = escrow[c]
              /\ paid'[c] = paid[c]
              /\ log'[c] = log[c]

\* An escrow written for the first time, with a deadline still ahead.
Opened(c) == /\ escrow[c].status = "None"
             /\ escrow'[c].refundTimestamp > now
             /\ escrow'[c].amount > 0
             /\ escrow'[c].payee # ZeroAddress

SLock(c) == /\ Opened(c)
            /\ escrow'[c].status = "Locked"
            /\ paid'[c] = << >>
            /\ log'[c] = <<LockedEvent>>

Paid(c) == paid'[c] = <<PayoutOf(escrow'[c])>>

Revealed(c) == \E s \in Secrets : /\ Opens(s, escrow'[c].hashlock)
                                 /\ log'[c] = <<LockedEvent, ClaimedEvent(s)>>

SFlashClaim(c) == /\ Opened(c)
                  /\ escrow'[c].status = "Claimed"
                  /\ Paid(c)
                  /\ Revealed(c)

SClaim(c) == /\ escrow[c].status = "Locked"
             /\ now < escrow[c].refundTimestamp
             /\ escrow'[c] = [escrow[c] EXCEPT !.status = "Claimed"]
             /\ Paid(c)
             /\ Revealed(c)

SRefund(c) == /\ escrow[c].status = "Locked"
              /\ now >= escrow[c].refundTimestamp
              /\ escrow'[c] = [escrow[c] EXCEPT !.status = "Refunded"]
              /\ Paid(c)
              /\ log'[c] = <<LockedEvent, RefundedEvent>>

Transact == /\ \A c \in Ids : \/ Unmoved(c)
                              \/ SLock(c)
                              \/ SFlashClaim(c)
                              \/ SClaim(c)
                              \/ SRefund(c)
            /\ UNCHANGED now

Elapse == /\ now' \in Nat
          /\ now' > now
          /\ UNCHANGED <<escrow, paid, log>>

SNext == Transact \/ Elapse

SSpec == SInit /\ [][SNext]_sVars
=============================================================================
