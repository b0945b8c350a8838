----------------------------- MODULE HtlcRailProofs -----------------------------
(***************************************************************************)
(* Proofs about HtlcRail: whatever other accounts, other clients, the pool *)
(* and the clocks do between the awaits of a call, what it resolves to has *)
(* happened unless its transaction was mined as a reverted one, and what   *)
(* verifyLock() vouched for stays.                                         *)
(***************************************************************************)
EXTENDS HtlcRail, SequenceTheorems, TLAPS

-----------------------------------------------------------------------------
(* Milliseconds and seconds *)

\* What a quotient of naturals is.
LEMMA Quotient ==
    ASSUME NEW a \in Nat, NEW k \in Nat \ {0}
    PROVE  a \div k \in Nat /\ k * (a \div k) <= a /\ a < k * (a \div k) + k
OBVIOUS

\* A later instant is in the same second or in a later one.
LEMMA QuotientGrows ==
    ASSUME NEW a \in Nat, NEW b \in Nat, a <= b, NEW k \in Nat \ {0}
    PROVE  a \div k <= b \div k
<1>1. ASSUME NEW p \in Nat, NEW q \in Nat, k * p <= a, b < k * q + k, p > q
      PROVE  FALSE
    <2>1. k * p >= k * (q + 1)
        BY <1>1
    <2> QED
        BY <1>1, <2>1
<1> QED
    BY <1>1, Quotient

\* A whole second later it is one second later.
LEMMA QuotientSteps ==
    ASSUME NEW a \in Nat, NEW k \in Nat \ {0}
    PROVE  (a + k) \div k = a \div k + 1
<1> DEFINE p == a \div k
           q == (a + k) \div k
<1>1. /\ p \in Nat /\ k * p <= a /\ a < k * p + k
      /\ q \in Nat /\ k * q <= a + k /\ a + k < k * q + k
    BY Quotient
<1> HIDE DEF p, q
<1>2. ASSUME q > p + 1 PROVE FALSE
    <2>1. k * q >= k * (p + 2)
        BY <1>1, <1>2
    <2> QED
        BY <1>1, <2>1
<1>3. ASSUME q < p + 1 PROVE FALSE
    <2>1. k * p >= k * q
        BY <1>1, <1>3
    <2> QED
        BY <1>1, <2>1
<1> QED
    BY <1>1, <1>2, <1>3 DEF p, q

\* Before an instant the chain is before its second; a second later it has reached it.
LEMMA SecondsMeet ==
    ASSUME NEW t \in Nat, NEW deadline \in Nat
    PROVE  /\ Block(t) \in Nat /\ toEvmTimestamp(deadline) \in Nat
           /\ t < deadline => Block(t) < toEvmTimestamp(deadline)
           /\ t >= deadline + MsPerSecond - 1 => Block(t) >= toEvmTimestamp(deadline)
<1>1. MsPerSecond \in Nat \ {0} /\ deadline + MsPerSecond - 1 \in Nat /\ t + MsPerSecond \in Nat
    BY RailAssumption
<1>2. Block(t) \in Nat /\ toEvmTimestamp(deadline) \in Nat
    BY <1>1, Quotient DEF Block, toEvmTimestamp
<1>3. ASSUME t < deadline PROVE Block(t) < toEvmTimestamp(deadline)
    <2>1. t + MsPerSecond <= deadline + MsPerSecond - 1
        BY <1>1, <1>3
    <2>2. (t + MsPerSecond) \div MsPerSecond <= (deadline + MsPerSecond - 1) \div MsPerSecond
        BY <1>1, <2>1, QuotientGrows
    <2>3. (t + MsPerSecond) \div MsPerSecond = t \div MsPerSecond + 1
        BY <1>1, QuotientSteps
    <2> QED
        BY <1>2, <2>2, <2>3 DEF Block, toEvmTimestamp
<1>4. ASSUME t >= deadline + MsPerSecond - 1 PROVE Block(t) >= toEvmTimestamp(deadline)
    <2>1. (deadline + MsPerSecond - 1) \div MsPerSecond <= t \div MsPerSecond
        BY <1>1, <1>4, QuotientGrows
    <2> QED
        BY <1>2, <2>1 DEF Block, toEvmTimestamp
<1> QED
    BY <1>2, <1>3, <1>4

-----------------------------------------------------------------------------
(* The inductive invariant, with e for the escrow and n for the block's      *)
(* timestamp.                                                                *)

RailTx == [by : Clients, nr : Nat, op : Ops, secret : Secrets \cup {NoSecret}]

RailTypes == /\ escrow = [i \in Ids |-> escrow[i]] /\ escrow[c] \in Escrow
             /\ paid = [i \in Ids |-> paid[i]] /\ log = [i \in Ids |-> log[i]]
             /\ ms \in Nat /\ now = Block(ms)
             /\ call \in [Clients -> Call]
             /\ last \in [Clients -> Outcome]
             /\ calls \in [Clients -> Nat]
             /\ pool \subseteq RailTx

\* The escrow of the agreed terms under a payer is there, whatever became of it.
Standing(payer, e) == /\ e.status # "None"
                      /\ [e EXCEPT !.status = "Locked"] = [EscrowOf(Terms) EXCEPT !.payer = payer]

\* What a transaction of a call of p does when it runs.
Effect(p, op, s, e) == /\ op = "lock" => Standing(Account[p], e)
                       /\ op = "claim" => e.status = "Claimed" /\ Opens(s, e.hashlock)
                       /\ op = "refund" => e.status = "Refunded"

\* Nothing but a refund can happen to the escrow any more, if it has not yet.
Late(e, n) == e.status \in {"Locked", "Refunded"} /\ n >= e.refundTimestamp

\* The escrow with its payouts and events.
ChainFine(e, payouts, events, n) ==
    /\ e.status \in {"None", "Locked"} => payouts = << >>
    /\ e.status = "None" => events = << >>
    /\ e.status = "Locked" => events = <<LockedEvent>>
    /\ e.status = "Claimed" => \E s \in Secrets : /\ Opens(s, e.hashlock)
                                                  /\ events = <<LockedEvent, ClaimedEvent(s)>>
    /\ e.status = "Refunded" => n >= e.refundTimestamp

CallFine(p, k, e, n) == /\ k.op = "claim" => k.secret \in Secrets
                        /\ k.receipt = "success" => Effect(p, k.op, k.secret, e)
                        /\ k.receipt # "none" /\ k.op = "refund" => Late(e, n)

OutcomeFine(p, l, e, n) ==
    /\ l.result = "resolved" /\ l.receipt # "reverted" => Effect(p, l.op, l.secret, e)
    /\ l.result = "resolved" /\ l.op = "refund" => Late(e, n)
    /\ l.op = "verify" /\ l.result = "true" => Standing(Terms.payer, e)

\* A transaction tx of a client whose nr-th call is k.
TxFine(tx, k, nr, e, n) ==
    /\ tx.op = "claim" => tx.secret \in Secrets
    /\ tx.op = "refund" => Late(e, n)
    /\ tx.nr <= nr
    /\ tx.nr = nr /\ k.pc # "idle" => tx.op = k.op /\ tx.secret = k.secret

RailInv == /\ RailTypes
           /\ ChainFine(escrow[c], paid[c], log[c], now)
           /\ \A p \in Clients : /\ CallFine(p, call[p], escrow[c], now)
                                 /\ OutcomeFine(p, last[p], escrow[c], now)
           /\ \A tx \in pool : TxFine(tx, call[tx.by], calls[tx.by], escrow[c], now)

-----------------------------------------------------------------------------
(* Steps of the chain *)

\* The steps the escrow may take.
Moved(e, f, n) ==
    \/ f = e
    \/ e.status = "None"
    \/ e.status = "Locked" /\ n < e.refundTimestamp /\ f = [e EXCEPT !.status = "Claimed"]
    \/ e.status = "Locked" /\ n >= e.refundTimestamp /\ f = [e EXCEPT !.status = "Refunded"]

\* What has happened has happened.
LEMMA StillSo ==
    ASSUME NEW e \in Escrow, NEW f \in Escrow, NEW n \in Nat, NEW m \in Nat, n <= m, Moved(e, f, n)
    PROVE  /\ \A payer : Standing(payer, e) => Standing(payer, f)
           /\ \A p, op, s : Effect(p, op, s, e) => Effect(p, op, s, f)
           /\ e.status = "Refunded" => f.status = "Refunded"
           /\ Late(e, n) => Late(f, m)
<1>1. f = e \/ e.status = "None" \/ /\ e.status = "Locked" /\ f.status \in {"Claimed", "Refunded"}
                                    /\ f = [e EXCEPT !.status = f.status]
    BY DEF Moved, Escrow
<1>2. \A payer : Standing(payer, e) => Standing(payer, f)
    <2>1. CASE f = e \/ e.status = "None"
        BY <2>1 DEF Standing
    <2>2. CASE /\ e.status = "Locked" /\ f.status \in {"Claimed", "Refunded"}
               /\ f = [e EXCEPT !.status = f.status]
        <3>1. [f EXCEPT !.status = "Locked"] = [e EXCEPT !.status = "Locked"]
            BY <2>2 DEF Escrow
        <3> QED
            BY <2>2, <3>1 DEF Standing
    <2> QED
        BY <1>1, <2>1, <2>2
<1>3. e.status = "Refunded" => f.status = "Refunded"
    BY <1>1
<1>4. \A s : e.status = "Claimed" /\ Opens(s, e.hashlock) => f.status = "Claimed" /\ Opens(s, f.hashlock)
    BY <1>1
<1>5. Late(e, n) => Late(f, m)
    BY DEF Moved, Late, Escrow
<1> QED
    BY <1>2, <1>3, <1>4, <1>5 DEF Effect

\* The constants and the chain.
LEMMA ChainFacts ==
    ASSUME RailInv
    PROVE  /\ c \in Ids /\ escrow[c] \in Escrow /\ now \in Nat /\ ms \in Nat
           /\ Terms \in LockTerms /\ Alien \in LockTerms /\ Terms.amount > 0 /\ Alien.amount > 0
           /\ ChainFine(escrow[c], paid[c], log[c], now)
<1>1. ms \in Nat /\ now = Block(ms)
    BY DEF RailInv, RailTypes
<1>2. now \in Nat
    BY <1>1, RailAssumption, Quotient DEF Block
<1> QED
    BY <1>1, <1>2, RailAssumption DEF RailInv, RailTypes


\* A transaction that ran.
Ran == /\ escrow'[c] \in Escrow /\ Moved(escrow[c], escrow'[c], now)
       /\ ChainFine(escrow'[c], paid'[c], log'[c], now')
       /\ escrow' = [i \in Ids |-> escrow'[i]] /\ paid' = [i \in Ids |-> paid'[i]]
       /\ log' = [i \in Ids |-> log'[i]] /\ now' = now
       /\ Transact

\* A lock that runs.
LEMMA LockEffect ==
    ASSUME RailInv, NEW sender \in Addresses, NEW terms \in LockTerms, terms.amount > 0,
           LockRuns(terms), LockRun(sender, terms)
    PROVE  Ran /\ escrow'[c] = [EscrowOf(terms) EXCEPT !.payer = sender]
<1> DEFINE f == [EscrowOf(terms) EXCEPT !.payer = sender]
<1>1. /\ c \in Ids /\ now' = now /\ paid' = paid /\ escrow[c].status = "None"
      /\ now < toEvmTimestamp(terms.refundAfterMs)
      /\ escrow = [i \in Ids |-> escrow[i]] /\ log = [i \in Ids |-> log[i]]
      /\ paid = [i \in Ids |-> paid[i]]
      /\ log[c] = << >> /\ paid[c] = << >>
    BY ChainFacts DEF LockRuns, LockRun, RailInv, RailTypes, ChainFine
<1>2. /\ escrow' = [escrow EXCEPT ![c] = f] /\ log' = [log EXCEPT ![c] = Append(@, LockedEvent)]
    BY DEF LockRun
<1>3. /\ escrow'[c] = f /\ escrow' = [i \in Ids |-> escrow'[i]]
      /\ \A i \in Ids \ {c} : escrow'[i] = escrow[i]
    BY <1>1, <1>2
<1>4. /\ log'[c] = <<LockedEvent>> /\ log' = [i \in Ids |-> log'[i]]
      /\ \A i \in Ids \ {c} : log'[i] = log[i]
    BY <1>1, <1>2
<1>5. toEvmTimestamp(terms.refundAfterMs) \in Nat
    BY SecondsMeet, ChainFacts DEF LockTerms
<1>6. /\ f \in Escrow /\ f.status = "Locked" /\ f.amount > 0 /\ f.payee # ZeroAddress
      /\ f.refundTimestamp = toEvmTimestamp(terms.refundAfterMs)
    BY <1>5, EscrowAssumption DEF EscrowOf, LockTerms, Escrow, EscrowStatus
<1> HIDE DEF f
<1>7. ChainFine(f, paid'[c], log'[c], now')
    BY <1>1, <1>4, <1>6 DEF ChainFine
<1>8. SLock(c)
    BY <1>1, <1>3, <1>4, <1>6 DEF SLock, Opened
<1>9. \A i \in Ids \ {c} : Unmoved(i)
    BY <1>1, <1>3, <1>4 DEF Unmoved
<1>10. Transact
    BY <1>1, <1>8, <1>9 DEF Transact
<1>11. Moved(escrow[c], f, now)
    BY <1>1 DEF Moved
<1> QED
    BY <1>1, <1>3, <1>4, <1>6, <1>7, <1>10, <1>11 DEF Ran, f

\* Two events, one after the other.
LEMMA AppendPair ==
    ASSUME NEW a, NEW b
    PROVE  Append(<<a>>, b) = <<a, b>>
<1> DEFINE S == {a, b}
           x == Append(<<a>>, b)
           y == <<a, b>>
<1>1. <<a>> \in Seq(S) /\ Len(<<a>>) = 1 /\ <<a>>[1] = a /\ b \in S
    OBVIOUS
<1>2. x \in Seq(S) /\ Len(x) = 2 /\ x[1] = a /\ x[2] = b
    BY <1>1, AppendProperties
<1>3. y \in Seq(S) /\ Len(y) = 2 /\ y[1] = a /\ y[2] = b
    OBVIOUS
<1> HIDE DEF x, y, S
<1>4. x = y
    BY <1>2, <1>3, SeqEqual
<1> QED
    BY <1>4 DEF x, y

\* A claim or a refund that runs.
LEMMA SettleEffect ==
    ASSUME RailInv, NEW status, NEW event, SettleRun(status, event), escrow[c].status = "Locked",
           \/ /\ status = "Claimed" /\ now < escrow[c].refundTimestamp
              /\ \E s \in Secrets : event = ClaimedEvent(s) /\ Opens(s, escrow[c].hashlock)
           \/ status = "Refunded" /\ event = RefundedEvent /\ now >= escrow[c].refundTimestamp
    PROVE  Ran /\ escrow'[c] = [escrow[c] EXCEPT !.status = status]
<1> DEFINE e == escrow[c]
           f == [e EXCEPT !.status = status]
<1>1. /\ c \in Ids /\ now' = now /\ e \in Escrow
      /\ escrow = [i \in Ids |-> escrow[i]] /\ log = [i \in Ids |-> log[i]]
      /\ paid = [i \in Ids |-> paid[i]]
      /\ log[c] = <<LockedEvent>> /\ paid[c] = << >>
    BY ChainFacts DEF SettleRun, RailInv, RailTypes, ChainFine
<1>2. /\ escrow' = [escrow EXCEPT ![c].status = status]
      /\ paid' = [paid EXCEPT ![c] = Append(@, PayoutOf(escrow'[c]))]
      /\ log' = [log EXCEPT ![c] = Append(@, event)]
    BY DEF SettleRun
<1>3. /\ escrow'[c] = f /\ escrow' = [i \in Ids |-> escrow'[i]]
      /\ \A i \in Ids \ {c} : escrow'[i] = escrow[i]
    BY <1>1, <1>2
<1>4. /\ log'[c] = <<LockedEvent, event>> /\ log' = [i \in Ids |-> log'[i]]
      /\ \A i \in Ids \ {c} : log'[i] = log[i]
    <2>1. /\ log'[c] = Append(log[c], event) /\ log' = [i \in Ids |-> log'[i]]
          /\ \A i \in Ids \ {c} : log'[i] = log[i]
        BY <1>1, <1>2
    <2>2. Append(<<LockedEvent>>, event) = <<LockedEvent, event>>
        BY AppendPair
    <2> QED
        BY <1>1, <2>1, <2>2
<1>5. /\ paid'[c] = <<PayoutOf(escrow'[c])>> /\ paid' = [i \in Ids |-> paid'[i]]
      /\ \A i \in Ids \ {c} : paid'[i] = paid[i]
    <2> DEFINE payout == PayoutOf(escrow'[c])
    <2> HIDE DEF payout
    <2>1. paid' = [paid EXCEPT ![c] = Append(@, payout)]
        BY <1>2 DEF payout
    <2>2. /\ paid'[c] = Append(paid[c], payout) /\ paid' = [i \in Ids |-> paid'[i]]
          /\ \A i \in Ids \ {c} : paid'[i] = paid[i]
        BY <1>1, <2>1
    <2>3. Append(<< >>, payout) = <<payout>>
        OBVIOUS
    <2> QED
        BY <1>1, <2>2, <2>3 DEF payout
<1>6. /\ f \in Escrow /\ f.status = status /\ f.hashlock = e.hashlock
      /\ f.refundTimestamp = e.refundTimestamp
    BY <1>1 DEF Escrow, EscrowStatus
<1>7. ChainFine(f, paid'[c], log'[c], now')
    BY <1>1, <1>4, <1>6 DEF ChainFine
<1>8. SClaim(c) \/ SRefund(c)
    BY <1>3, <1>4, <1>5, <1>6 DEF SClaim, SRefund, Paid, Revealed
<1>9. \A i \in Ids \ {c} : Unmoved(i)
    BY <1>3, <1>4, <1>5 DEF Unmoved
<1>10. Transact
    BY <1>1, <1>8, <1>9 DEF Transact
<1>11. Moved(e, f, now)
    BY DEF Moved
<1> QED
    BY <1>1, <1>3, <1>4, <1>5, <1>6, <1>7, <1>10, <1>11 DEF Ran

\* A transaction of a call that runs has the effect of that call.
LEMMA RunEffect ==
    ASSUME RailInv, NEW tx \in RailTx, tx.op = "claim" => tx.secret \in Secrets, Runs(tx), Run(tx)
    PROVE  Ran /\ Effect(tx.by, tx.op, tx.secret, escrow'[c])
<1>1. CASE tx.op = "lock"
    <2> DEFINE f == [EscrowOf(Terms) EXCEPT !.payer = Account[tx.by]]
    <2>0. Account[tx.by] \in Addresses
        BY RailAssumption DEF RailTx
    <2>1. Ran /\ escrow'[c] = f
        BY <1>1, <2>0, ChainFacts, LockEffect DEF Runs, Run
    <2>2. f \in Escrow /\ f.status = "Locked"
        BY <2>1 DEF Ran, EscrowOf
    <2>3. Standing(Account[tx.by], f)
        <3> HIDE DEF f
        <3>1. [f EXCEPT !.status = "Locked"] = f
            BY <2>2 DEF Escrow
        <3> QED
            BY <2>2, <3>1 DEF Standing, f
    <2> HIDE DEF f
    <2> QED
        BY <1>1, <2>1, <2>3 DEF Effect
<1>2. CASE tx.op = "claim"
    <2>1. ClaimRuns(tx.secret) /\ SettleRun("Claimed", ClaimedEvent(tx.secret))
        BY <1>2 DEF Runs, Run
    <2>2. Ran /\ escrow'[c] = [escrow[c] EXCEPT !.status = "Claimed"]
        BY <1>2, <2>1, SettleEffect DEF ClaimRuns
    <2> QED
        BY <1>2, <2>1, <2>2, ChainFacts DEF Effect, ClaimRuns, Escrow
<1>3. CASE tx.op = "refund"
    <2>1. RefundRuns /\ SettleRun("Refunded", RefundedEvent)
        BY <1>3 DEF Runs, Run
    <2>2. Ran /\ escrow'[c] = [escrow[c] EXCEPT !.status = "Refunded"]
        BY <2>1, SettleEffect DEF RefundRuns
    <2> QED
        BY <1>3, <2>2, ChainFacts DEF Effect, Escrow
<1> QED
    BY <1>1, <1>2, <1>3 DEF Runs

\* A step of the chain or of the clock: no call gets further, but one may learn of its receipt.
LEMMA ChainStep ==
    ASSUME RailInv, escrow'[c] \in Escrow, Moved(escrow[c], escrow'[c], now),
           ChainFine(escrow'[c], paid'[c], log'[c], now'),
           escrow' = [i \in Ids |-> escrow'[i]], paid' = [i \in Ids |-> paid'[i]],
           log' = [i \in Ids |-> log'[i]],
           ms' \in Nat, now' = Block(ms'), now <= now', last' = last, calls' = calls,
           pool' \subseteq pool, call' \in [Clients -> Call],
           \A p \in Clients : \/ call'[p] = call[p]
                              \/ /\ call'[p].op = call[p].op /\ call'[p].secret = call[p].secret
                                 /\ call'[p].pc = call[p].pc
                                 /\ CallFine(p, call'[p], escrow'[c], now')
    PROVE  RailInv'
<1> DEFINE e == escrow[c]
           f == escrow'[c]
<1>1. e \in Escrow /\ now \in Nat /\ now' \in Nat
    BY ChainFacts, SecondsMeet, RailAssumption DEF LockTerms
<1>2. /\ \A payer : Standing(payer, e) => Standing(payer, f)
      /\ \A p, op, s : Effect(p, op, s, e) => Effect(p, op, s, f)
      /\ e.status = "Refunded" => f.status = "Refunded"
      /\ Late(e, now) => Late(f, now')
    BY <1>1, StillSo
<1> HIDE DEF e, f
<1>3. RailTypes'
    BY DEF RailInv, RailTypes
<1>4. ASSUME NEW p \in Clients PROVE CallFine(p, call'[p], f, now') /\ OutcomeFine(p, last'[p], f, now')
    <2>1. CallFine(p, call[p], e, now) /\ OutcomeFine(p, last[p], e, now)
        BY DEF RailInv, e
    <2>2. CallFine(p, call[p], f, now')
        BY <1>2, <2>1 DEF CallFine
    <2>3. OutcomeFine(p, last[p], f, now')
        BY <1>2, <2>1 DEF OutcomeFine
    <2> QED
        BY <2>2, <2>3 DEF f
<1>5. ASSUME NEW tx \in pool' PROVE TxFine(tx, call'[tx.by], calls'[tx.by], f, now')
    <2>1. tx.by \in Clients /\ TxFine(tx, call[tx.by], calls[tx.by], e, now)
        BY DEF RailInv, RailTypes, RailTx, e
    <2>2. /\ call'[tx.by].op = call[tx.by].op /\ call'[tx.by].secret = call[tx.by].secret
          /\ call'[tx.by].pc = call[tx.by].pc
        BY <2>1
    <2> QED
        BY <1>2, <2>1, <2>2 DEF TxFine
<1> QED
    BY <1>3, <1>4, <1>5 DEF RailInv, f

\* Transactions of other accounts.
LEMMA AlienStep ==
    ASSUME RailInv, Ran, UNCHANGED railVars
    PROVE  RailInv'
<1>1. now \in Nat /\ now = Block(ms) /\ ms \in Nat /\ call \in [Clients -> Call]
    BY ChainFacts DEF RailInv, RailTypes
<1> QED
    BY <1>1, ChainStep DEF Ran, railVars

\* Time passes.
LEMMA PassStep ==
    ASSUME RailInv, Pass
    PROVE  RailInv' /\ now \in Nat /\ now' \in Nat /\ now <= now'
<1>1. /\ ms \in Nat /\ now = Block(ms) /\ ms' = ms + 1 /\ ms' \in Nat /\ now' = Block(ms')
      /\ UNCHANGED <<escrow, paid, log, call, last, calls, pool>>
    BY DEF RailInv, RailTypes, Pass
<1>2. now <= now' /\ now \in Nat /\ now' \in Nat
    BY <1>1, RailAssumption, Quotient, QuotientGrows DEF Block
<1>3. escrow[c] \in Escrow /\ ChainFine(escrow[c], paid[c], log[c], now)
    BY ChainFacts
<1>4. ChainFine(escrow'[c], paid'[c], log'[c], now')
    BY <1>1, <1>2, <1>3 DEF ChainFine, Escrow
<1>5. Moved(escrow[c], escrow'[c], now)
    BY <1>1 DEF Moved
<1>6. /\ escrow' = [i \in Ids |-> escrow'[i]] /\ paid' = [i \in Ids |-> paid'[i]]
      /\ log' = [i \in Ids |-> log'[i]] /\ call' \in [Clients -> Call]
    BY <1>1 DEF RailInv, RailTypes
<1>7. RailInv'
    BY <1>1, <1>2, <1>3, <1>4, <1>5, <1>6, ChainStep
<1> QED
    BY <1>2, <1>7

\* A transaction of a call is mined.
LEMMA MineStep ==
    ASSUME RailInv, NEW tx \in pool, Mine(tx)
    PROVE  RailInv' /\ (Ran \/ UNCHANGED sVars)
<1> DEFINE p == tx.by
           told(receipt) == [call[p] EXCEPT !.receipt = receipt]
<1>1. /\ tx \in RailTx /\ p \in Clients /\ call[p] \in Call /\ call \in [Clients -> Call]
      /\ TxFine(tx, call[p], calls[p], escrow[c], now)
      /\ ms' = ms /\ last' = last /\ calls' = calls /\ pool' \subseteq pool
      /\ now = Block(ms) /\ ms \in Nat /\ now \in Nat
    BY ChainFacts DEF RailInv, RailTypes, RailTx, Mine
<1>2. ASSUME NEW receipt \in {"success", "reverted"}, Tell(tx, receipt),
             escrow'[c] \in Escrow, Moved(escrow[c], escrow'[c], now), now' = now,
             ChainFine(escrow'[c], paid'[c], log'[c], now'),
             escrow' = [i \in Ids |-> escrow'[i]], paid' = [i \in Ids |-> paid'[i]],
             log' = [i \in Ids |-> log'[i]],
             receipt = "success" => Effect(p, tx.op, tx.secret, escrow'[c])
      PROVE  RailInv'
    <2> DEFINE k == told(receipt)
    <2>1. /\ k \in Call /\ k.op = call[p].op /\ k.secret = call[p].secret /\ k.pc = call[p].pc
          /\ k.receipt = receipt
        BY <1>1 DEF Call, Receipts
    <2>2. \/ call' = call
          \/ call[p].pc = "receipt" /\ calls[p] = tx.nr /\ call' = [call EXCEPT ![p] = k]
        BY <1>2 DEF Tell
    <2> HIDE DEF k
    <2>3. ASSUME call[p].pc = "receipt", calls[p] = tx.nr PROVE CallFine(p, k, escrow'[c], now')
        <3>1. k.op = tx.op /\ k.secret = tx.secret
            BY <1>1, <2>1, <2>3 DEF TxFine
        <3>2. k.op = "claim" => k.secret \in Secrets
            BY <1>1, <2>1 DEF RailInv, CallFine
        <3>3. k.op = "refund" => Late(escrow'[c], now')
            <4>1. k.op = "refund" => Late(escrow[c], now)
                BY <1>1, <3>1 DEF TxFine
            <4>2. escrow[c] \in Escrow /\ now <= now'
                BY <1>1, <1>2, ChainFacts
            <4> QED
                BY <1>1, <1>2, <4>1, <4>2, StillSo
        <3> QED
            BY <1>2, <2>1, <3>1, <3>2, <3>3 DEF CallFine
    <2>4. call' \in [Clients -> Call]
        BY <1>1, <2>1, <2>2
    <2>5. \A q \in Clients : \/ call'[q] = call[q]
                             \/ /\ call'[q].op = call[q].op /\ call'[q].secret = call[q].secret
                                /\ call'[q].pc = call[q].pc
                                /\ CallFine(q, call'[q], escrow'[c], now')
        <3> TAKE q \in Clients
        <3>1. CASE call'[q] = call[q]
            BY <3>1
        <3>2. CASE call'[q] # call[q]
            <4>1. q = p /\ call'[q] = k /\ CallFine(p, k, escrow'[c], now')
                BY <1>1, <2>2, <2>3, <3>2
            <4> QED
                BY <2>1, <4>1
        <3> QED
            BY <3>1, <3>2
    <2> QED
        BY <1>1, <1>2, <2>4, <2>5, ChainStep
<1> HIDE DEF told
<1>3. CASE Runs(tx) /\ Run(tx) /\ Tell(tx, "success")
    <2>1. Ran /\ Effect(p, tx.op, tx.secret, escrow'[c])
        BY <1>1, <1>3, RunEffect DEF TxFine
    <2> QED
        BY <1>2, <1>3, <2>1 DEF Ran
<1>4. CASE UNCHANGED chainVars /\ Tell(tx, "reverted")
    <2>1. UNCHANGED <<escrow, paid, log, now>>
        BY <1>4 DEF chainVars
    <2>2. /\ escrow'[c] \in Escrow /\ Moved(escrow[c], escrow'[c], now) /\ now' = now
          /\ ChainFine(escrow'[c], paid'[c], log'[c], now')
          /\ escrow' = [i \in Ids |-> escrow'[i]] /\ paid' = [i \in Ids |-> paid'[i]]
          /\ log' = [i \in Ids |-> log'[i]]
        BY <2>1, ChainFacts DEF Moved, RailInv, RailTypes
    <2>3. RailInv'
        BY <1>2, <1>4, <2>2
    <2> QED
        BY <2>1, <2>3 DEF sVars
<1> QED
    BY <1>3, <1>4 DEF Mine

-----------------------------------------------------------------------------
(* Steps of a call *)

\* A step of a call sends its transaction or nothing.
Pooled(p) == \/ pool' = pool
             \/ pool' = pool \cup {TxOf(p)} /\ Runs(call[p])

\* A call in progress gets further, or ends.
LEMMA CallerStep ==
    ASSUME RailInv, NEW p \in Clients, call[p].pc # "idle", NEW k \in Call, NEW l \in Outcome,
           call' = [call EXCEPT ![p] = k], last' = [last EXCEPT ![p] = l],
           UNCHANGED <<escrow, paid, log, now, ms, calls>>, Pooled(p),
           k.pc # "idle" => k.op = call[p].op /\ k.secret = call[p].secret,
           CallFine(p, k, escrow[c], now), OutcomeFine(p, l, escrow[c], now)
    PROVE  RailInv'
<1>1. /\ call[p] \in Call /\ calls[p] \in Nat /\ pool \subseteq RailTx
      /\ call \in [Clients -> Call] /\ last \in [Clients -> Outcome]
      /\ CallFine(p, call[p], escrow[c], now)
    BY DEF RailInv, RailTypes
<1>2. /\ TxOf(p) = [by |-> p, nr |-> calls[p], op |-> call[p].op, secret |-> call[p].secret]
      /\ TxOf(p).by = p /\ TxOf(p).nr = calls[p] /\ TxOf(p).op = call[p].op
      /\ TxOf(p).secret = call[p].secret
    BY DEF TxOf
<1>3. ASSUME Runs(call[p])
      PROVE  TxOf(p) \in RailTx /\ TxFine(TxOf(p), k, calls[p], escrow[c], now)
    <2>1. call[p].op \in {"lock", "claim", "refund"}
        BY <1>3 DEF Runs
    <2>2. TxOf(p) \in RailTx
        BY <1>1, <1>2, <2>1 DEF RailTx, Call, Ops
    <2>3. call[p].op = "refund" => Late(escrow[c], now)
        BY <1>3 DEF Runs, RefundRuns, Late
    <2>4. call[p].op = "claim" => call[p].secret \in Secrets
        BY <1>1 DEF CallFine
    <2> QED
        BY <1>1, <1>2, <2>2, <2>3, <2>4 DEF TxFine
<1>4. RailTypes'
    <2>1. pool' \subseteq RailTx
        BY <1>1, <1>3 DEF Pooled
    <2>2. call' \in [Clients -> Call] /\ last' \in [Clients -> Outcome]
        BY <1>1
    <2> QED
        BY <2>1, <2>2 DEF RailInv, RailTypes
<1>5. ASSUME NEW q \in Clients
      PROVE  CallFine(q, call'[q], escrow'[c], now') /\ OutcomeFine(q, last'[q], escrow'[c], now')
    <2>1. \/ call'[q] = call[q] /\ last'[q] = last[q]
          \/ call'[q] = k /\ last'[q] = l
        BY <1>1
    <2> QED
        BY <2>1 DEF RailInv
<1>6. ASSUME NEW tx \in pool'
      PROVE  TxFine(tx, call'[tx.by], calls'[tx.by], escrow'[c], now')
    <2>1. CASE tx \in pool
        <3>1. tx.by \in Clients /\ TxFine(tx, call[tx.by], calls[tx.by], escrow[c], now)
            BY <1>1, <2>1 DEF RailInv, RailTx
        <3>2. CASE tx.by = p
            <4>1. call'[tx.by] = k
                BY <1>1, <3>2
            <4>2. TxFine(tx, k, calls[p], escrow[c], now)
                BY <3>1, <3>2 DEF TxFine
            <4> QED
                BY <3>2, <4>1, <4>2
        <3>3. CASE tx.by # p
            <4>1. call'[tx.by] = call[tx.by]
                BY <1>1, <3>1, <3>3
            <4> QED
                BY <3>1, <4>1
        <3> QED
            BY <3>2, <3>3
    <2>2. CASE tx \notin pool
        <3>1. tx = TxOf(p) /\ Runs(call[p])
            BY <2>2 DEF Pooled
        <3>2. tx.by = p /\ call'[tx.by] = k
            BY <1>1, <1>2, <3>1
        <3> QED
            BY <1>3, <3>1, <3>2
    <2> QED
        BY <2>1, <2>2
<1>7. ChainFine(escrow'[c], paid'[c], log'[c], now')
    BY DEF RailInv
<1> QED
    BY <1>4, <1>5, <1>6, <1>7 DEF RailInv

\* A call that awaits something else.
LEMMA AwaitStep ==
    ASSUME RailInv, NEW p \in Clients, call[p].pc # "idle",
           NEW pc \in {"submit", "receipt", "recheck"}, Await(p, pc),
           UNCHANGED <<escrow, paid, log, now, ms, calls>>, Pooled(p)
    PROVE  RailInv'
<1> DEFINE k == [call[p] EXCEPT !.pc = pc]
<1>1. /\ call[p] \in Call /\ last[p] \in Outcome /\ last \in [Clients -> Outcome]
      /\ CallFine(p, call[p], escrow[c], now) /\ OutcomeFine(p, last[p], escrow[c], now)
    BY DEF RailInv, RailTypes
<1>2. /\ k \in Call /\ k.op = call[p].op /\ k.secret = call[p].secret
      /\ k.receipt = call[p].receipt
    BY <1>1 DEF Call
<1>3. call' = [call EXCEPT ![p] = k] /\ last' = [last EXCEPT ![p] = last[p]]
    BY <1>1 DEF Await
<1> HIDE DEF k
<1>4. CallFine(p, k, escrow[c], now)
    BY <1>1, <1>2 DEF CallFine
<1> QED
    BY <1>1, <1>2, <1>3, <1>4, CallerStep

\* How a call ended.
Ending(p, result) == [op |-> call[p].op, secret |-> call[p].secret,
                      receipt |-> call[p].receipt, result |-> result]

\* A call that ends.
LEMMA EndStep ==
    ASSUME RailInv, NEW p \in Clients, call[p].pc # "idle",
           NEW result \in {"resolved", "true", "false", "threw"}, End(p, result),
           OutcomeFine(p, Ending(p, result), escrow[c], now),
           UNCHANGED <<escrow, paid, log, now, ms, calls>>, Pooled(p)
    PROVE  RailInv'
<1>1. call[p] \in Call
    BY DEF RailInv, RailTypes
<1>2. Ending(p, result) \in Outcome
    BY <1>1 DEF Ending, Outcome, Call
<1>3. Idle \in Call /\ Idle.pc = "idle" /\ Idle.op = "none" /\ Idle.receipt = "none"
    BY DEF Idle, Call, Receipts
<1>4. CallFine(p, Idle, escrow[c], now)
    BY <1>3 DEF CallFine
<1>5. call' = [call EXCEPT ![p] = Idle] /\ last' = [last EXCEPT ![p] = Ending(p, result)]
    BY DEF End, Ending
<1> QED
    BY <1>2, <1>3, <1>4, <1>5, CallerStep

\* What a call that fails says has not happened, nor anything else.
LEMMA FailureFine ==
    ASSUME NEW p \in Clients, NEW result \in {"false", "threw"}
    PROVE  OutcomeFine(p, Ending(p, result), escrow[c], now)
BY DEF Ending, OutcomeFine

\* What a call that resolves without a receipt says has happened.
LEMMA SuccessFine ==
    ASSUME RailInv, NEW p \in Clients, Effect(p, call[p].op, call[p].secret, escrow[c])
    PROVE  OutcomeFine(p, Ending(p, "resolved"), escrow[c], now)
<1>1. call[p].op = "refund" => Late(escrow[c], now)
    BY ChainFacts DEF Effect, ChainFine, Late
<1> QED
    BY <1>1 DEF Ending, OutcomeFine

\* A client starts a call.
LEMMA StartStep ==
    ASSUME RailInv, NEW p \in Clients, NEW op \in Ops, NEW s \in Secrets \cup {NoSecret},
           op = "claim" => s \in Secrets, Start(p, op, s)
    PROVE  RailInv' /\ UNCHANGED sVars
<1> DEFINE k == [op |-> op, secret |-> s, pc |-> "read", receipt |-> "none"]
<1>1. /\ call' = [call EXCEPT ![p] = k] /\ calls' = [calls EXCEPT ![p] = @ + 1]
      /\ UNCHANGED <<last, ms, pool, escrow, paid, log, now>>
    BY DEF Start, chainVars
<1>2. /\ call \in [Clients -> Call] /\ calls \in [Clients -> Nat] /\ pool \subseteq RailTx
    BY DEF RailInv, RailTypes
<1>3. k \in Call /\ CallFine(p, k, escrow[c], now)
    BY DEF Call, CallFine, Receipts
<1> HIDE DEF k
<1>4. RailTypes'
    <2>1. call' \in [Clients -> Call] /\ calls' \in [Clients -> Nat]
        BY <1>1, <1>2, <1>3
    <2> QED
        BY <1>1, <2>1 DEF RailInv, RailTypes
<1>5. ASSUME NEW q \in Clients
      PROVE  CallFine(q, call'[q], escrow'[c], now') /\ OutcomeFine(q, last'[q], escrow'[c], now')
    <2>1. call'[q] = call[q] \/ call'[q] = k
        BY <1>1, <1>2
    <2> QED
        BY <1>1, <1>3, <2>1 DEF RailInv
<1>6. ASSUME NEW tx \in pool'
      PROVE  TxFine(tx, call'[tx.by], calls'[tx.by], escrow'[c], now')
    <2>1. /\ tx.by \in Clients /\ tx.nr \in Nat /\ calls[tx.by] \in Nat
          /\ TxFine(tx, call[tx.by], calls[tx.by], escrow[c], now)
        BY <1>1, <1>2 DEF RailInv, RailTx
    <2>2. CASE tx.by = p
        <3>1. calls'[tx.by] = calls[tx.by] + 1
            BY <1>1, <1>2, <2>2
        <3>2. tx.nr <= calls'[tx.by] /\ tx.nr # calls'[tx.by]
            BY <2>1, <3>1 DEF TxFine
        <3> QED
            BY <1>1, <2>1, <3>2 DEF TxFine
    <2>3. CASE tx.by # p
        <3>1. call'[tx.by] = call[tx.by] /\ calls'[tx.by] = calls[tx.by]
            BY <1>1, <1>2, <2>1, <2>3
        <3> QED
            BY <1>1, <2>1, <3>1
    <2> QED
        BY <2>2, <2>3
<1>7. ChainFine(escrow'[c], paid'[c], log'[c], now')
    BY <1>1 DEF RailInv
<1> QED
    BY <1>1, <1>4, <1>5, <1>6, <1>7 DEF RailInv, sVars

\* A call reads the escrow and decides.
LEMMA ReadStep ==
    ASSUME RailInv, NEW p \in Clients, Read(p)
    PROVE  RailInv' /\ UNCHANGED sVars
<1>0. PICK held \in Readable : \/ LockRead(p, held) \/ VerifyRead(p, held)
                               \/ ClaimRead(p, held) \/ RefundRead(p, held)
    BY DEF Read
<1>1. held = escrow[c] \/ held.status = "None"
    BY DEF Readable, NoEscrow
<1>2. /\ call[p].pc # "idle" /\ UNCHANGED <<escrow, paid, log, now, ms, calls>> /\ Pooled(p)
    BY <1>0 DEF LockRead, VerifyRead, ClaimRead, RefundRead, Read, chainVars, Pooled
<1>3. CASE Await(p, "submit")
    BY <1>2, <1>3, AwaitStep DEF sVars
<1>4. CASE End(p, "threw") \/ End(p, "false")
    BY <1>2, <1>4, EndStep, FailureFine DEF sVars
<1>5. CASE End(p, "resolved") /\ Effect(p, call[p].op, call[p].secret, escrow[c])
    BY <1>2, <1>5, EndStep, SuccessFine DEF sVars
<1>6. CASE LockRead(p, held)
    BY <1>3, <1>4, <1>6 DEF LockRead
<1>7. CASE VerifyRead(p, held)
    <2>1. CASE Matches(held, Terms)
        <3>1. /\ held.status = "Locked" /\ [held EXCEPT !.status = "Locked"] = held
              /\ [EscrowOf(Terms) EXCEPT !.payer = Terms.payer] = EscrowOf(Terms)
            BY <2>1 DEF Matches, EscrowOf
        <3>2. Standing(Terms.payer, escrow[c])
            BY <1>1, <2>1, <3>1 DEF Standing, Matches
        <3>3. OutcomeFine(p, Ending(p, "true"), escrow[c], now)
            BY <3>2 DEF OutcomeFine, Ending
        <3>4. End(p, "true") \/ End(p, "false")
            BY <1>7 DEF VerifyRead
        <3> QED
            BY <1>2, <1>4, <3>3, <3>4, EndStep DEF sVars
    <2>2. CASE ~Matches(held, Terms)
        BY <1>4, <1>7, <2>2 DEF VerifyRead
    <2> QED
        BY <2>1, <2>2
<1>8. CASE ClaimRead(p, held)
    <2>1. \/ Await(p, "submit") \/ End(p, "threw")
          \/ End(p, "resolved") /\ held.status = "Claimed" /\ Opens(call[p].secret, held.hashlock)
        BY <1>8 DEF ClaimRead
    <2>2. held.status = "Claimed" /\ Opens(call[p].secret, held.hashlock) =>
              Effect(p, call[p].op, call[p].secret, escrow[c])
        BY <1>1, <1>8 DEF Effect, ClaimRead
    <2> QED
        BY <1>3, <1>4, <1>5, <2>1, <2>2
<1>9. CASE RefundRead(p, held)
    <2>1. \/ Await(p, "submit") \/ End(p, "threw")
          \/ End(p, "resolved") /\ held.status = "Refunded"
        BY <1>9 DEF RefundRead
    <2>2. held.status = "Refunded" => Effect(p, call[p].op, call[p].secret, escrow[c])
        BY <1>1, <1>9 DEF Effect, RefundRead
    <2> QED
        BY <1>3, <1>4, <1>5, <2>1, <2>2
<1> QED
    BY <1>0, <1>6, <1>7, <1>8, <1>9

\* An await inside the call throws.
LEMMA ThrowStep ==
    ASSUME RailInv, NEW p \in Clients, call[p].pc # "idle", Throw(p),
           UNCHANGED <<escrow, paid, log, now, ms, calls>>, Pooled(p)
    PROVE  RailInv'
<1>1. CASE End(p, "threw")
    BY <1>1, EndStep, FailureFine
<1>2. CASE Await(p, "recheck")
    BY <1>2, AwaitStep
<1> QED
    BY <1>1, <1>2 DEF Throw

\* A call sends its transaction.
LEMMA SubmitStep ==
    ASSUME RailInv, NEW p \in Clients, Submit(p)
    PROVE  RailInv' /\ UNCHANGED sVars
<1>1. /\ call[p].pc # "idle" /\ Pooled(p) /\ Await(p, "receipt")
      /\ UNCHANGED <<escrow, paid, log, now, ms, calls>>
    BY DEF Submit, Send, Pooled, Await, chainVars
<1> QED
    BY <1>1, AwaitStep DEF sVars

\* It fails to, or believes so.
LEMMA SubmitFailsStep ==
    ASSUME RailInv, NEW p \in Clients, SubmitFails(p)
    PROVE  RailInv' /\ UNCHANGED sVars
<1>1. /\ call[p].pc # "idle" /\ Pooled(p) /\ Throw(p)
      /\ UNCHANGED <<escrow, paid, log, now, ms, calls>>
    BY DEF SubmitFails, Send, Pooled, chainVars
<1> QED
    BY <1>1, ThrowStep DEF sVars

\* The receipt arrives.
LEMMA ReceiptStep ==
    ASSUME RailInv, NEW p \in Clients, Receipt(p)
    PROVE  RailInv' /\ UNCHANGED sVars
<1>1. /\ call[p].pc # "idle" /\ Pooled(p) /\ End(p, "resolved") /\ call[p].receipt # "none"
      /\ UNCHANGED <<escrow, paid, log, now, ms, calls>>
    BY DEF Receipt, Pooled, chainVars
<1>2. CallFine(p, call[p], escrow[c], now) /\ call[p].receipt \in {"success", "reverted"}
    BY <1>1 DEF RailInv, RailTypes, Call, Receipts
<1>3. OutcomeFine(p, Ending(p, "resolved"), escrow[c], now)
    BY <1>2 DEF CallFine, OutcomeFine, Ending
<1> QED
    BY <1>1, <1>3, EndStep DEF sVars

\* The wait for the receipt fails.
LEMMA ReceiptFailsStep ==
    ASSUME RailInv, NEW p \in Clients, ReceiptFails(p)
    PROVE  RailInv' /\ UNCHANGED sVars
<1>1. /\ call[p].pc # "idle" /\ Pooled(p) /\ Throw(p)
      /\ UNCHANGED <<escrow, paid, log, now, ms, calls>>
    BY DEF ReceiptFails, Pooled, chainVars
<1> QED
    BY <1>1, ThrowStep DEF sVars

\* After an error the escrow is read again.
LEMMA RecheckStep ==
    ASSUME RailInv, NEW p \in Clients, Recheck(p)
    PROVE  RailInv' /\ UNCHANGED sVars
<1>1. /\ call[p].pc # "idle" /\ Pooled(p) /\ UNCHANGED <<escrow, paid, log, now, ms, calls>>
    BY DEF Recheck, Pooled, chainVars
<1>2. PICK held \in Readable :
          End(p, IF \/ /\ call[p].op = "claim" /\ held.status = "Claimed"
                       /\ Opens(call[p].secret, held.hashlock)
                    \/ call[p].op = "refund" /\ held.status = "Refunded"
                 THEN "resolved" ELSE "threw")
    BY DEF Recheck
<1>3. held = escrow[c] \/ held.status = "None"
    BY DEF Readable, NoEscrow
<1>4. CASE End(p, "threw")
    BY <1>1, <1>4, EndStep, FailureFine DEF sVars
<1>5. CASE /\ End(p, "resolved")
           /\ \/ /\ call[p].op = "claim" /\ held.status = "Claimed"
                 /\ Opens(call[p].secret, held.hashlock)
              \/ call[p].op = "refund" /\ held.status = "Refunded"
    <2>1. Effect(p, call[p].op, call[p].secret, escrow[c])
        BY <1>3, <1>5 DEF Effect
    <2> QED
        BY <1>1, <1>5, <2>1, EndStep, SuccessFine DEF sVars
<1> QED
    BY <1>2, <1>4, <1>5

-----------------------------------------------------------------------------
(* The invariant and what follows *)

\* Nothing is on the chain and nobody calls.
LEMMA InitInv == RailInit => RailInv
<1> SUFFICES ASSUME RailInit PROVE RailInv
    OBVIOUS
<1>1. /\ c \in Ids /\ escrow = [i \in Ids |-> NoEscrow] /\ paid = [i \in Ids |-> << >>]
      /\ log = [i \in Ids |-> << >>] /\ escrow[c] = NoEscrow /\ paid[c] = << >> /\ log[c] = << >>
    BY RailAssumption DEF RailInit, SInit
<1>2. NoEscrow \in Escrow /\ NoEscrow.status = "None"
    BY DEF NoEscrow, Escrow, EscrowStatus, Tokens
<1>3. ms \in Nat /\ now = Block(ms)
    <2>1. 0 \div MsPerSecond = 0
        BY RailAssumption
    <2> QED
        BY <2>1 DEF RailInit, Block
<1>4. Idle \in Call /\ NoOutcome \in Outcome
    BY DEF Idle, Call, NoOutcome, Outcome, Receipts
<1>5. RailTypes
    BY <1>1, <1>2, <1>3, <1>4 DEF RailInit, RailTypes
<1>6. ChainFine(escrow[c], paid[c], log[c], now)
    BY <1>1, <1>2 DEF ChainFine
<1>7. \A p \in Clients : /\ CallFine(p, Idle, escrow[c], now)
                          /\ OutcomeFine(p, NoOutcome, escrow[c], now)
    BY DEF CallFine, Idle, OutcomeFine, NoOutcome
<1> QED
    BY <1>5, <1>6, <1>7 DEF RailInit, RailInv

\* Every step keeps the invariant, and the chain of this module moves as Settlement allows.
LEMMA NextKeeps ==
    ASSUME RailInv, [RailNext]_vars
    PROVE  RailInv' /\ [SNext]_sVars
<1>1. ASSUME NEW p \in Clients, Start(p, "lock", NoSecret) \/ Start(p, "verify", NoSecret)
                                \/ Start(p, "refund", NoSecret)
      PROVE  RailInv' /\ UNCHANGED sVars
    BY <1>1, StartStep DEF Ops
<1>2. ASSUME NEW p \in Clients, NEW s \in Secrets, Start(p, "claim", s)
      PROVE  RailInv' /\ UNCHANGED sVars
    BY <1>2, StartStep DEF Ops
<1>3. ASSUME NEW p \in Clients, ClientStep(p) PROVE RailInv' /\ UNCHANGED sVars
    BY <1>3, ReadStep, SubmitStep, SubmitFailsStep, ReceiptStep, ReceiptFailsStep, RecheckStep
       DEF ClientStep
<1>4. ASSUME NEW tx \in pool, Mine(tx) PROVE RailInv' /\ (Ran \/ UNCHANGED sVars)
    BY <1>4, MineStep
<1>5. CASE AlienLock
    <2>1. Ran
        BY <1>5, ChainFacts, LockEffect DEF AlienLock, LockTerms
    <2> QED
        BY <1>5, <2>1, AlienStep DEF AlienLock, Ran, SNext
<1>6. ASSUME NEW s \in Secrets, AlienClaim(s) PROVE RailInv' /\ Ran
    <2>1. Ran
        BY <1>6, SettleEffect DEF AlienClaim, ClaimRuns
    <2> QED
        BY <1>6, <2>1, AlienStep DEF AlienClaim
<1>7. CASE AlienRefund
    <2>1. Ran
        BY <1>7, SettleEffect DEF AlienRefund, RefundRuns
    <2> QED
        BY <1>7, <2>1, AlienStep DEF AlienRefund, Ran, SNext
<1>8. CASE Pass
    <2>1. RailInv' /\ now \in Nat /\ now' \in Nat /\ now <= now'
        BY <1>8, PassStep
    <2>2. UNCHANGED <<escrow, paid, log>>
        BY <1>8 DEF Pass
    <2>3. now' = now \/ now' > now
        BY <2>1
    <2> QED
        BY <2>1, <2>2, <2>3 DEF SNext, Elapse, sVars
<1>9. CASE UNCHANGED vars
    BY <1>9 DEF vars, sVars, RailInv, RailTypes
<1> QED
    BY <1>1, <1>2, <1>3, <1>4, <1>5, <1>6, <1>7, <1>8, <1>9 DEF RailNext, Ran, SNext

\* It holds always.
THEOREM Invariance == RailSpec => []RailInv
<1>1. RailInv /\ [RailNext]_vars => RailInv'
    BY NextKeeps
<1> QED
    BY <1>1, InitInv, PTL DEF RailSpec

\* Whatever other accounts, other clients, the pool and the clocks do between the awaits of
\* lock(), claim() and refund(): what they resolve to has happened, unless their transaction was
\* mined as a reverted one; and after a refund that resolved nothing but a refund can happen.
THEOREM ResolvesAlways == RailSpec => []ResolvesUnlessReverted
<1>1. RailInv => ResolvesUnlessReverted
    <2> SUFFICES ASSUME RailInv PROVE ResolvesUnlessReverted
        OBVIOUS
    <2>1. \A p \in Clients : OutcomeFine(p, last[p], escrow[c], now)
        BY DEF RailInv
    <2>2. ClaimResolvesUnlessReverted
        BY <2>1 DEF ClaimResolvesUnlessReverted, Ended, OutcomeFine, Effect
    <2>3. RefundResolves
        BY <2>1 DEF RefundResolves, Ended, OutcomeFine, Effect, Late
    <2>4. LockResolves
        BY <2>1 DEF LockResolves, Ended, OutcomeFine, Effect, Standing
    <2> QED
        BY <2>2, <2>3, <2>4 DEF ResolvesUnlessReverted
<1> QED
    BY <1>1, Invariance, PTL

\* What verifyLock() vouched for stays vouched for, whatever the resolution of the clocks.
THEOREM VerifiedStaysAlways == RailSpec => []VerifiedStays
<1>1. RailInv => VerifiedStays
    <2> SUFFICES ASSUME RailInv, NEW p \in Clients, Ended(p, "verify", "true")
                 PROVE  /\ WindowsMeet
                        /\ escrow[c].status # "None"
                        /\ [escrow[c] EXCEPT !.status = "Locked"] = EscrowOf(Terms)
                        /\ escrow[c].status = "Claimed" => SecretLogged
                        /\ escrow[c].status = "Refunded" => ms >= Terms.refundAfterMs
        BY DEF VerifiedStays
    <2> DEFINE deadline == toEvmTimestamp(Terms.refundAfterMs)
    <2>1. escrow[c].status # "None" /\ [escrow[c] EXCEPT !.status = "Locked"] = EscrowOf(Terms)
        <3>1. Standing(Terms.payer, escrow[c])
            BY DEF RailInv, OutcomeFine, Ended
        <3>2. [EscrowOf(Terms) EXCEPT !.payer = Terms.payer] = EscrowOf(Terms)
            BY DEF EscrowOf
        <3> QED
            BY <3>1, <3>2 DEF Standing
    <2>2. /\ ms \in Nat /\ now = Block(ms) /\ Terms.refundAfterMs \in Nat /\ escrow[c] \in Escrow
          /\ escrow[c].status = "Refunded" => now >= escrow[c].refundTimestamp
        BY ChainFacts DEF RailInv, RailTypes, LockTerms, ChainFine
    <2>3. escrow[c].refundTimestamp = deadline
        <3>1. [escrow[c] EXCEPT !.status = "Locked"].refundTimestamp = escrow[c].refundTimestamp
            BY <2>2 DEF Escrow
        <3>2. EscrowOf(Terms).refundTimestamp = deadline
            BY DEF EscrowOf
        <3> QED
            BY <2>1, <3>1, <3>2
    <2>4. /\ now \in Nat /\ deadline \in Nat
          /\ ms < Terms.refundAfterMs => now < deadline
          /\ ms >= Terms.refundAfterMs + MsPerSecond - 1 => now >= deadline
        BY <2>2, SecondsMeet
    <2> HIDE DEF deadline
    <2>5. WindowsMeet
        BY <2>3, <2>4 DEF WindowsMeet
    <2>6. escrow[c].status = "Refunded" => ms >= Terms.refundAfterMs
        BY <2>2, <2>3, <2>4
    <2>7. escrow[c].status = "Claimed" => SecretLogged
        BY ChainFacts DEF ChainFine, SecretLogged
    <2> QED
        BY <2>1, <2>5, <2>6, <2>7
<1> QED
    BY <1>1, Invariance, PTL
===============================================================================
