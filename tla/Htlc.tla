-------------------------------- MODULE Htlc --------------------------------
(***************************************************************************)
(* The settlement contract, tclk-rail-evm/contracts/Htlc.sol.              *)
(*                                                                         *)
(* A call runs its checks and effects in one step and then hands control   *)
(* to somebody else: the token it moves or the account it pays.  While     *)
(* that interaction is pending the outsider may call the contract again,   *)
(* so the state has a stack of pending interactions, each with the storage *)
(* and balances as they were when its call began: a revert puts them back. *)
(* A call whose checks fail changes nothing and has no step of its own.    *)
(*                                                                         *)
(* The block timestamp stands still during a transaction, that is, while   *)
(* the stack is not empty.  What other transactions and every reader of    *)
(* the chain see is the state as it was before the pending transaction,    *)
(* the "committed" one.                                                    *)
(***************************************************************************)
EXTENDS Escrow, Sequences, Functions

CONSTANTS
    MaxDepth,     \* bound: nested calls (the EVM's own limit is 1024)
    MaxTime,      \* bound: the last block timestamp
    MaxBalance    \* bound: tokens sent to the contract outside lock()

ASSUME HtlcAssumption == MaxDepth \in Nat /\ MaxTime \in Nat /\ MaxBalance \in Nat

VARIABLES
    escrows,   \* the mapping escrows
    balance,   \* what the contract owns of each token
    payouts,   \* the transfers made out of it under each id
    logs,      \* the events emitted under each id
    stack,     \* pending interactions, innermost last
    now        \* block.timestamp

vars == <<escrows, balance, payouts, logs, stack, now>>

World == [escrows : [Ids -> Escrow],
          balance : [Tokens -> Nat],
          payouts : [Ids -> Seq(Payout)],
          logs    : [Ids -> Seq(Event)]]

world == [escrows |-> escrows, balance |-> balance, payouts |-> payouts, logs |-> logs]

\* A pending interaction: the call it belongs to, whether the outsider has
\* moved the funds yet, balanceBefore of lock(), and the state to revert to.
Frame == [op     : {"lock", "claim", "refund"},
          id     : Ids,
          moved  : BOOLEAN,
          before : Nat,
          saved  : World]

Top == stack[Len(stack)]

Pop == SubSeq(stack, 1, Len(stack) - 1)

\* What the rest of the chain sees.
committed == IF stack = << >> THEN world ELSE stack[1].saved

Init == /\ escrows = [c \in Ids |-> NoEscrow]
        /\ balance = [t \in Tokens |-> 0]
        /\ payouts = [c \in Ids |-> << >>]
        /\ logs = [c \in Ids |-> << >>]
        /\ stack = << >>
        /\ now = 0

-----------------------------------------------------------------------------
\* A call is made by an account in a transaction of its own, or from within
\* the pending interaction of another call.  The tokens that keep part of a
\* transfer are taken not to call back.
MayCall == /\ Len(stack) < MaxDepth
           /\ stack # << >> => escrows[Top.id].token \notin SkimTokens

Push(op, c, moved, before) ==
    stack' = Append(stack, [op |-> op, id |-> c, moved |-> moved,
                            before |-> before, saved |-> world])

LockChecks(c, payee, amount, refundTimestamp) ==
    /\ escrows[c].status = "None"
    /\ now < refundTimestamp
    /\ amount # 0
    /\ payee # ZeroAddress

\* Mutant: two address arguments in each other's place.
LockEffectsSwapped(c, sender, payee, token, amount, hashlock, refundTimestamp) ==
    escrows' = [escrows EXCEPT ![c] =
                  [payer           |-> sender,
                   payee           |-> token,
                   token           |-> payee,
                   amount          |-> amount,
                   hashlock        |-> hashlock,
                   refundTimestamp |-> refundTimestamp,
                   status          |-> "Locked"]]

LockEffects(c, sender, payee, token, amount, hashlock, refundTimestamp) ==
    escrows' = [escrows EXCEPT ![c] =
                  [payer           |-> sender,
                   payee           |-> payee,
                   token           |-> token,
                   amount          |-> amount,
                   hashlock        |-> hashlock,
                   refundTimestamp |-> refundTimestamp,
                   status          |-> "Locked"]]

Emit(c, event) == logs' = [logs EXCEPT ![c] = Append(@, event)]

\* msg.value carried by the call must be the amount in ETH, zero for a token.
ValueMatches(token, amount, value) ==
    IF token = Native THEN value = amount ELSE value = 0

\* lock(): ETH is already in the contract's balance when the call runs, and
\* there is no interaction; a token is asked to transferFrom the sender.
Lock(c, sender, payee, token, amount, hashlock, refundTimestamp, value) ==
    /\ MayCall
    /\ LockChecks(c, payee, amount, refundTimestamp)
    /\ LockEffects(c, sender, payee, token, amount, hashlock, refundTimestamp)
    /\ Emit(c, LockedEvent)
    /\ ValueMatches(token, amount, value)
    /\ balance' = [balance EXCEPT ![Native] = @ + value]
    /\ IF token = Native
       THEN UNCHANGED stack
       ELSE Push("lock", c, FALSE, balance[token])
    /\ UNCHANGED <<payouts, now>>

\* The last statement of claim() and refund(): ETH leaves with the call, before
\* the recipient's code runs; a token moves when its contract gets to it.
PayOut(op, c) ==
    IF escrows[c].token = Native
    THEN /\ balance[Native] >= escrows[c].amount
         /\ balance' = [balance EXCEPT ![Native] = @ - escrows[c].amount]
         /\ payouts' = [payouts EXCEPT ![c] = Append(@, PayoutOf(escrows'[c]))]
         /\ Push(op, c, TRUE, 0)
    ELSE /\ Push(op, c, FALSE, 0)
         /\ UNCHANGED <<balance, payouts>>

\* Mutants: no check of the status, of the secret, an off-by-one deadline.
ClaimTwice(c, secret) == /\ escrows[c].status # "None"
                         /\ now < escrows[c].refundTimestamp
                         /\ Opens(secret, escrows[c].hashlock)

ClaimWithoutSecret(c, secret) == /\ escrows[c].status = "Locked"
                                 /\ now < escrows[c].refundTimestamp

ClaimTooLate(c, secret) == /\ escrows[c].status = "Locked"
                           /\ now <= escrows[c].refundTimestamp
                           /\ Opens(secret, escrows[c].hashlock)

ClaimChecks(c, secret) == /\ escrows[c].status = "Locked"
                          /\ now < escrows[c].refundTimestamp
                          /\ Opens(secret, escrows[c].hashlock)

Claim(c, secret) ==
    /\ MayCall
    /\ ClaimChecks(c, secret)
    /\ escrows' = [escrows EXCEPT ![c].status = "Claimed"]
    /\ Emit(c, ClaimedEvent(secret))
    /\ PayOut("claim", c)
    /\ UNCHANGED now

\* Mutant: a claimed escrow can be refunded.
RefundAnything(c) == /\ escrows[c].status # "None"
                     /\ now >= escrows[c].refundTimestamp

RefundChecks(c) == /\ escrows[c].status = "Locked"
                   /\ now >= escrows[c].refundTimestamp

Refund(c) ==
    /\ MayCall
    /\ RefundChecks(c)
    /\ escrows' = [escrows EXCEPT ![c].status = "Refunded"]
    /\ Emit(c, RefundedEvent)
    /\ PayOut("refund", c)
    /\ UNCHANGED now

-----------------------------------------------------------------------------
\* The outsider's side of the innermost pending interaction.

Settle == stack' = [stack EXCEPT ![Len(stack)].moved = TRUE]

\* The token credits the contract; a skimming one keeps a unit.
MoveIn == LET e == escrows[Top.id] IN
    /\ stack # << >>
    /\ Top.op = "lock" /\ ~Top.moved
    /\ balance' = [balance EXCEPT ![e.token] =
                     @ + (IF e.token \in SkimTokens THEN e.amount - 1 ELSE e.amount)]
    /\ Settle
    /\ UNCHANGED <<escrows, payouts, logs, now>>

\* The token debits the contract.
MoveOut == LET e == escrows[Top.id] IN
    /\ stack # << >>
    /\ Top.op # "lock" /\ ~Top.moved
    /\ balance[e.token] >= e.amount
    /\ balance' = [balance EXCEPT ![e.token] = @ - e.amount]
    /\ payouts' = [payouts EXCEPT ![Top.id] = Append(@, PayoutOf(e))]
    /\ Settle
    /\ UNCHANGED <<escrows, logs, now>>

\* Mutant: the token is trusted to have moved the amount.
ReceivedAnything == TRUE

\* balanceAfter - balanceBefore, checked by lock() when the token returns.
ReceivedAll == LET e == escrows[Top.id] IN
               balance[e.token] = Top.before + e.amount

\* The interaction succeeds and the call returns.
Return == /\ stack # << >>
          /\ Top.moved
          /\ Top.op = "lock" => ReceivedAll
          /\ stack' = Pop
          /\ UNCHANGED <<escrows, balance, payouts, logs, now>>

\* The interaction fails (the recipient or the token reverts, the token
\* returns false) or the balance check does: the call reverts.
Revert == /\ stack # << >>
          /\ escrows' = Top.saved.escrows
          /\ balance' = Top.saved.balance
          /\ payouts' = Top.saved.payouts
          /\ logs' = Top.saved.logs
          /\ stack' = Pop
          /\ UNCHANGED now

\* Somebody transfers a token to the contract's address, in a transaction of
\* its own or from within a callback.
Donate(t) == /\ t # Native
             /\ stack # << >> => escrows[Top.id].token \notin SkimTokens
             /\ balance[t] < MaxBalance
             /\ balance' = [balance EXCEPT ![t] = @ + 1]
             /\ UNCHANGED <<escrows, payouts, logs, stack, now>>

\* A later block.
Tick == /\ stack = << >>
        /\ now < MaxTime
        /\ now' = now + 1
        /\ UNCHANGED <<escrows, balance, payouts, logs, stack>>

LockAny == \E c \in Ids, sender \in Addresses,
              payee \in Addresses \cup {ZeroAddress}, token \in Tokens,
              amount \in Amounts, value \in Amounts \cup {0}, hashlock \in Digests, t \in Timestamps :
              Lock(c, sender, payee, token, amount, hashlock, t, value)

Next == \/ LockAny
        \/ \E c \in Ids, s \in Secrets : Claim(c, s)
        \/ \E c \in Ids : Refund(c)
        \/ MoveIn
        \/ MoveOut
        \/ Return
        \/ Revert
        \/ \E t \in Tokens : Donate(t)
        \/ Tick

Spec == Init /\ [][Next]_vars

-----------------------------------------------------------------------------
(* Properties *)

\* Types of the state; the stack is never deeper than the bound.
TypeOK == /\ world \in World
          /\ stack \in Seq(Frame)
          /\ Len(stack) <= MaxDepth
          /\ now \in Nat

\* An escrow is paid out exactly when it is settled, exactly once, in full,
\* to the payee if claimed and to the payer if refunded, whatever calls came
\* in while the payment was under way and whichever of them reverted.
PaidExactly(w) ==
    \A c \in Ids :
        w.payouts[c] = IF w.escrows[c].status \in Terminal
                       THEN <<PayoutOf(w.escrows[c])>>
                       ELSE << >>

PaidOnce == PaidExactly(committed)

\* The log of an id tells its whole story to whoever reads only the log: one
\* Locked, then at most one outcome, which agrees with the stored status, and
\* a Claimed event carries a secret that opens the hashlock.
LogTells(w) ==
    \A c \in Ids : LET e == w.escrows[c] IN
        \/ e.status = "None" /\ w.logs[c] = << >>
        \/ e.status = "Locked" /\ w.logs[c] = <<LockedEvent>>
        \/ e.status = "Refunded" /\ w.logs[c] = <<LockedEvent, RefundedEvent>>
        \/ /\ e.status = "Claimed"
           /\ \E s \in Secrets : /\ Opens(s, e.hashlock)
                                 /\ w.logs[c] = <<LockedEvent, ClaimedEvent(s)>>

LogTellsStatus == LogTells(committed)

\* What the contract still owes of token t under the escrow e.
Held(e, t) == IF e.status = "Locked" /\ e.token = t THEN e.amount ELSE 0

\* The contract can always pay everybody: of each token it holds at least the
\* sum of the amounts still locked in it, so no escrow is ever paid with the
\* funds of another, however calls nest and whatever the tokens keep.
Solvent ==
    \A t \in Tokens :
        committed.balance[t] >= SumFunction([c \in Ids |-> Held(committed.escrows[c], t)])

\* Once a settlement is on the chain no later call, nested or not, changes
\* any field of the escrow: a claim cannot become a refund or be repeated.
SettledForever ==
    [][\A c \in Ids : committed.escrows[c].status \in Terminal
           => committed'.escrows[c] = committed.escrows[c]]_vars

\* Every committed transaction is one the two parties were promised: claims
\* before the deadline, refunds at or after it, the payment with the status.
Promised == INSTANCE Settlement
            WITH escrow <- committed.escrows, paid <- committed.payouts,
                 log <- committed.logs

Promise == Promised!SSpec
=============================================================================
