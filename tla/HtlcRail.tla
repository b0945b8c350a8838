------------------------------ MODULE HtlcRail ------------------------------
(***************************************************************************)
(* EvmHtlcRail (tclk-rail-evm/src/rail.ts): the client of the settlement   *)
(* contract.  Several clients call lock(), verifyLock(), claim() and       *)
(* refund() on one contract id, each a sequence of awaits: read the        *)
(* escrow, submit a transaction, wait for its receipt, and on an error     *)
(* read again.  Between any two of them the chain moves on: other          *)
(* accounts' transactions, other clients' calls, time.                     *)
(*                                                                         *)
(* The contract is Settlement, which Htlc implements.  A transaction takes *)
(* effect when it is mined, or is mined as a reverted one, although its    *)
(* simulation succeeded: its guard no longer holds, or the transfer of the *)
(* funds it takes or pays out fails.  The node and viem are external:      *)
(* writeContract first simulates the call and throws if it would revert    *)
(* now; waitForTransactionReceipt returns the receipt of a reverted        *)
(* transaction like any other, and may time out, after which the           *)
(* transaction is still in the pool.                                       *)
(*                                                                         *)
(* Time is in milliseconds; block timestamps are in whole seconds of       *)
(* MsPerSecond.  Every machine has a clock of its own, off by its skew.    *)
(***************************************************************************)
EXTENDS Settlement, Integers

CONSTANTS
    Clients,       \* processes that own an EvmHtlcRail
    Account,       \* [Clients -> Addresses]: the account each sends from
    Terms,         \* the LockTerms the clients agreed on
    Alien,         \* the same contract id under terms nobody agreed on
    c,             \* terms.contract
    Skew,          \* [Clients -> Int]: Date.now minus the chain's clock
    MinLockWindow, \* minLockWindowMs, 0 by default
    MsPerSecond,   \* 1000
    MaxMs,         \* bound: the last instant
    MaxCalls       \* bound: calls per client

LockTerms == [payer : Addresses, payee : Addresses, token : Tokens, amount : Nat,
              statement : Digests, claimByMs : Nat, refundAfterMs : Nat]

ASSUME RailAssumption ==
    /\ c \in Ids
    /\ Terms \in LockTerms /\ Terms.amount > 0
    /\ Alien \in LockTerms /\ Alien.amount > 0
    /\ Account \in [Clients -> Addresses]
    /\ Skew \in [Clients -> Int]
    /\ MsPerSecond \in Nat \ {0}
    /\ MinLockWindow \in Nat
    /\ MaxMs \in Nat /\ MaxCalls \in Nat

VARIABLES
    ms,      \* the instant
    call,    \* [Clients -> Call]: the call in progress
    last,    \* [Clients -> Outcome]: how the last call ended
    calls,   \* [Clients -> Nat]: calls made
    pool     \* transactions sent and not mined yet

railVars == <<ms, call, last, calls, pool>>
chainVars == <<escrow, paid, log, now>>
vars == <<escrow, paid, log, now, ms, call, last, calls, pool>>

Ops == {"lock", "verify", "claim", "refund"}

Receipts == {"none", "success", "reverted"}

\* pc names what is being awaited; receipt is that of the transaction sent.
Call == [op      : Ops \cup {"none"},
         secret  : Secrets \cup {NoSecret},
         pc      : {"idle", "read", "submit", "receipt", "recheck"},
         receipt : Receipts]

\* A transaction: whose, of which of its calls, and what it asks for.
Tx == [by : Clients, nr : 1..MaxCalls, op : Ops, secret : Secrets \cup {NoSecret}]

Idle == [op |-> "none", secret |-> NoSecret, pc |-> "idle", receipt |-> "none"]

Outcome == [op      : Ops \cup {"none"},
            secret  : Secrets \cup {NoSecret},
            receipt : Receipts,
            result  : {"none", "resolved", "true", "false", "threw"}]

NoOutcome == [op |-> "none", secret |-> NoSecret, receipt |-> "none", result |-> "none"]

\* Mutant: the second the instant falls in.
floorTimestamp(t) == t \div MsPerSecond

\* utils.ts toEvmTimestamp: the second that starts at or after the instant.
toEvmTimestamp(t) == (t + MsPerSecond - 1) \div MsPerSecond

\* The block timestamp of an instant.
Block(t) == t \div MsPerSecond

Clock(p) == ms + Skew[p]

EscrowOf(terms) == [payer           |-> terms.payer,
                    payee           |-> terms.payee,
                    token           |-> terms.token,
                    amount          |-> terms.amount,
                    hashlock        |-> terms.statement,
                    refundTimestamp |-> toEvmTimestamp(terms.refundAfterMs),
                    status          |-> "Locked"]

RailInit == /\ ms = 0 /\ now = 0
            /\ SInit
            /\ call = [p \in Clients |-> Idle]
            /\ last = [p \in Clients |-> NoOutcome]
            /\ calls = [p \in Clients |-> 0]
            /\ pool = {}

-----------------------------------------------------------------------------
(* The chain *)

LockRuns(terms) == escrow[c].status = "None" /\ now < toEvmTimestamp(terms.refundAfterMs)
ClaimRuns(s) == /\ escrow[c].status = "Locked"
                /\ now < escrow[c].refundTimestamp
                /\ Opens(s, escrow[c].hashlock)
RefundRuns == escrow[c].status = "Locked" /\ now >= escrow[c].refundTimestamp

\* The payer of an escrow is the sender of the transaction, whoever terms names.
LockRun(sender, terms) ==
    /\ escrow' = [escrow EXCEPT ![c] = [EscrowOf(terms) EXCEPT !.payer = sender]]
    /\ log' = [log EXCEPT ![c] = Append(@, LockedEvent)]
    /\ UNCHANGED <<paid, now>>

SettleRun(status, event) ==
    /\ escrow' = [escrow EXCEPT ![c].status = status]
    /\ paid' = [paid EXCEPT ![c] = Append(@, PayoutOf(escrow'[c]))]
    /\ log' = [log EXCEPT ![c] = Append(@, event)]
    /\ UNCHANGED now

\* Whether the guards of a call's transaction hold now, and what it does if they do
\* and the transfer succeeds.
Runs(k) == \/ k.op = "lock" /\ LockRuns(Terms)
           \/ k.op = "claim" /\ ClaimRuns(k.secret)
           \/ k.op = "refund" /\ RefundRuns

Run(tx) == \/ tx.op = "lock" /\ LockRun(Account[tx.by], Terms)
           \/ tx.op = "claim" /\ SettleRun("Claimed", ClaimedEvent(tx.secret))
           \/ tx.op = "refund" /\ SettleRun("Refunded", RefundedEvent)

\* Transactions of accounts that do not use this rail.
AlienLock == /\ LockRuns(Alien) /\ LockRun(Alien.payer, Alien)
             /\ UNCHANGED railVars
AlienClaim(s) == /\ ClaimRuns(s) /\ SettleRun("Claimed", ClaimedEvent(s))
                 /\ UNCHANGED railVars
AlienRefund == /\ RefundRuns /\ SettleRun("Refunded", RefundedEvent)
               /\ UNCHANGED railVars

\* Time passes.  A block's timestamp is never ahead of the chain's clock.
Pass == /\ ms < MaxMs
        /\ ms' = ms + 1
        /\ now' = Block(ms')
        /\ UNCHANGED <<escrow, paid, log, call, last, calls, pool>>

-----------------------------------------------------------------------------
(* The calls *)

Await(p, pc) == /\ call' = [call EXCEPT ![p].pc = pc]
                /\ UNCHANGED last

End(p, result) ==
    /\ last' = [last EXCEPT ![p] = [op |-> call[p].op, secret |-> call[p].secret,
                                    receipt |-> call[p].receipt, result |-> result]]
    /\ call' = [call EXCEPT ![p] = Idle]

\* A call starts; lock() looks at the clock before anything is awaited.
Start(p, op, s) ==
    /\ call[p].pc = "idle" /\ calls[p] < MaxCalls
    /\ op = "lock" => /\ Terms.claimByMs < Terms.refundAfterMs
                      /\ Clock(p) < Terms.refundAfterMs
                      /\ MinLockWindow > 0 => Terms.refundAfterMs - Clock(p) >= MinLockWindow
    /\ call' = [call EXCEPT ![p] = [op |-> op, secret |-> s, pc |-> "read", receipt |-> "none"]]
    /\ calls' = [calls EXCEPT ![p] = @ + 1]
    /\ UNCHANGED <<last, ms, pool, chainVars>>

\* read(): null when the escrow was never written, and when the RPC fails.
Readable == {escrow[c], NoEscrow}

Matches(held, terms) == held = EscrowOf(terms)

LockRead(p, held) ==
    /\ call[p].op = "lock" /\ call[p].pc = "read"
    /\ IF held.status = "None" THEN Await(p, "submit") ELSE End(p, "threw")

\* verifyLock() has no other await whose answer changes: it ends here.
VerifyRead(p, held) ==
    /\ call[p].op = "verify" /\ call[p].pc = "read"
    /\ End(p, IF /\ Terms.claimByMs < Terms.refundAfterMs
                 /\ Matches(held, Terms) THEN "true" ELSE "false")

\* Mutant: a Claimed escrow is taken to have been claimed with this secret.
ClaimReadTrusting(p, held) == LET s == call[p].secret IN
    /\ call[p].op = "claim" /\ call[p].pc = "read"
    /\ IF held.status = "Locked"
       THEN IF /\ Clock(p) < held.refundTimestamp * MsPerSecond
               /\ Opens(s, held.hashlock)
            THEN Await(p, "submit")
            ELSE End(p, "threw")
       ELSE End(p, IF held.status = "Claimed" THEN "resolved" ELSE "threw")

\* What read() finds and the local clock decide before submitting.
ClaimRead(p, held) == LET s == call[p].secret IN
    /\ call[p].op = "claim" /\ call[p].pc = "read"
    /\ IF held.status = "Locked"
       THEN IF /\ Clock(p) < held.refundTimestamp * MsPerSecond
               /\ Opens(s, held.hashlock)
            THEN Await(p, "submit")
            ELSE End(p, "threw")
       ELSE End(p, IF held.status = "Claimed" /\ Opens(s, held.hashlock)
                   THEN "resolved" ELSE "threw")

RefundRead(p, held) ==
    /\ call[p].op = "refund" /\ call[p].pc = "read"
    /\ IF held.status = "Locked"
       THEN IF Clock(p) >= held.refundTimestamp * MsPerSecond
            THEN Await(p, "submit")
            ELSE End(p, "threw")
       ELSE End(p, IF held.status = "Refunded" THEN "resolved" ELSE "threw")

Read(p) == /\ \E held \in Readable :
                 \/ LockRead(p, held) \/ VerifyRead(p, held)
                 \/ ClaimRead(p, held) \/ RefundRead(p, held)
           /\ UNCHANGED <<ms, calls, pool, chainVars>>

\* An await inside the try block throws; lock() has none around it.
Throw(p) == IF call[p].op = "lock" THEN End(p, "threw") ELSE Await(p, "recheck")

TxOf(p) == [by |-> p, nr |-> calls[p], op |-> call[p].op, secret |-> call[p].secret]

\* The transaction reaches the chain: its simulation succeeded.
Send(p) == /\ Runs(call[p])
           /\ pool' = pool \cup {TxOf(p)}
           /\ UNCHANGED chainVars

\* writeContract returns the hash of the transaction it sent.
Submit(p) ==
    /\ call[p].pc = "submit"
    /\ Send(p)
    /\ call' = [call EXCEPT ![p].pc = "receipt"]
    /\ UNCHANGED <<ms, last, calls>>

\* It throws: the simulation reverts, the node does not answer, or its answer
\* is lost after the transaction was sent.
SubmitFails(p) ==
    /\ call[p].pc = "submit"
    /\ Throw(p)
    /\ Send(p) \/ UNCHANGED <<pool, chainVars>>
    /\ UNCHANGED <<ms, calls>>

\* Who waits for a transaction learns how it was mined.
Tell(tx, receipt) ==
    call' = IF call[tx.by].pc = "receipt" /\ calls[tx.by] = tx.nr
            THEN [call EXCEPT ![tx.by].receipt = receipt]
            ELSE call

\* A transaction is mined as what it has become by then.  One whose guards no longer hold,
\* or whose transfer of the funds fails, is mined as a reverted one, and gets a receipt too.
Mine(tx) ==
    /\ tx \in pool
    /\ pool' = pool \ {tx}
    /\ \/ Runs(tx) /\ Run(tx) /\ Tell(tx, "success")
       \/ UNCHANGED chainVars /\ Tell(tx, "reverted")
    /\ UNCHANGED <<ms, last, calls>>

\* The receipt arrives.  Its status is not looked at.
Receipt(p) == /\ call[p].pc = "receipt" /\ call[p].receipt # "none"
              /\ End(p, "resolved")
              /\ UNCHANGED <<ms, calls, pool, chainVars>>

\* waitForTransactionReceipt throws.
ReceiptFails(p) == /\ call[p].pc = "receipt"
                   /\ Throw(p)
                   /\ UNCHANGED <<ms, calls, pool, chainVars>>

\* The catch block reads the escrow again; a failed read re-throws.
Recheck(p) ==
    /\ call[p].pc = "recheck"
    /\ \E held \in Readable :
          End(p, IF \/ /\ call[p].op = "claim" /\ held.status = "Claimed"
                       /\ Opens(call[p].secret, held.hashlock)
                    \/ call[p].op = "refund" /\ held.status = "Refunded"
                 THEN "resolved" ELSE "threw")
    /\ UNCHANGED <<ms, calls, pool, chainVars>>

ClientStep(p) == \/ Read(p) \/ Submit(p) \/ SubmitFails(p)
                 \/ Receipt(p) \/ ReceiptFails(p) \/ Recheck(p)

RailNext == \/ \E p \in Clients : Start(p, "lock", NoSecret) \/ Start(p, "verify", NoSecret)
                                  \/ Start(p, "refund", NoSecret)
            \/ \E p \in Clients, s \in Secrets : Start(p, "claim", s)
            \/ \E p \in Clients : ClientStep(p)
            \/ \E tx \in pool : Mine(tx)
            \/ AlienLock
            \/ \E s \in Secrets : AlienClaim(s)
            \/ AlienRefund
            \/ Pass

RailSpec == RailInit /\ [][RailNext]_vars

-----------------------------------------------------------------------------
(* Properties *)

Ended(p, op, result) == last[p].op = op /\ last[p].result = result

\* A claim() that resolves means the payee has been paid: the escrow is
\* Claimed, under a hashlock the caller's secret opens.
ClaimResolves == \A p \in Clients : Ended(p, "claim", "resolved") =>
                    /\ escrow[c].status = "Claimed"
                    /\ Opens(last[p].secret, escrow[c].hashlock)

\* The one way it can mislead is a transaction of its own that was mined as a
\* reverted one: after any other claim() that resolved, the payee has been paid.
ClaimResolvesUnlessReverted ==
    \A p \in Clients : Ended(p, "claim", "resolved") /\ last[p].receipt # "reverted" =>
        /\ escrow[c].status = "Claimed"
        /\ Opens(last[p].secret, escrow[c].hashlock)

\* After refund() resolved, nothing but a refund can happen to the escrow any more; it has
\* happened, unless the receipt was that of a reverted transaction.
RefundResolves == \A p \in Clients : Ended(p, "refund", "resolved") =>
                    /\ escrow[c].status \in {"Locked", "Refunded"}
                    /\ now >= escrow[c].refundTimestamp
                    /\ last[p].receipt # "reverted" => escrow[c].status = "Refunded"

\* After lock() resolved, but for the same exception, the escrow has the agreed terms,
\* payable back to the account lock() was sent from.
LockResolves == \A p \in Clients :
    Ended(p, "lock", "resolved") /\ last[p].receipt # "reverted" =>
        [escrow[c] EXCEPT !.status = "Locked"] = [EscrowOf(Terms) EXCEPT !.payer = Account[p]]

\* What a call resolves to has happened, whatever other accounts, the pool and the
\* clocks did between its awaits, unless its own transaction was mined as a reverted one.
ResolvesUnlessReverted == ClaimResolvesUnlessReverted /\ RefundResolves /\ LockResolves

\* Seconds and milliseconds agree on the deadline: up to the agreed instant the
\* contract still takes a claim, and a second after it at the latest a refund.
WindowsMeet ==
    escrow[c] = EscrowOf(Terms) =>
        /\ ms < Terms.refundAfterMs => now < escrow[c].refundTimestamp
        /\ ms >= Terms.refundAfterMs + MsPerSecond - 1 => now >= escrow[c].refundTimestamp

\* The secret that opens the hashlock is in the log.
SecretLogged == \E s \in Secrets : /\ Opens(s, escrow[c].hashlock)
                                   /\ log[c] = <<LockedEvent, ClaimedEvent(s)>>

\* What verifyLock() vouched for stays vouched for: the escrow keeps every
\* agreed term, leaves Locked only by a claim with the secret or by a refund
\* at or after the agreed instant, and its windows are the agreed ones.
VerifiedStays == \A p \in Clients : Ended(p, "verify", "true") =>
                    /\ WindowsMeet
                    /\ escrow[c].status # "None"
                    /\ [escrow[c] EXCEPT !.status = "Locked"] = EscrowOf(Terms)
                    /\ escrow[c].status = "Claimed" => SecretLogged
                    /\ escrow[c].status = "Refunded" => ms >= Terms.refundAfterMs
=============================================================================
