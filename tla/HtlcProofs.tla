----------------------------- MODULE HtlcProofs -----------------------------
(***************************************************************************)
(* What Htlc does for every set of ids, accounts, tokens and amounts and   *)
(* every call depth.  The invariant follows a pending transaction: every   *)
(* state it may still be reverted to is as sound as the one it has         *)
(* reached, and each is reached from the committed one by legal changes.   *)
(***************************************************************************)
EXTENDS Htlc, SequenceTheorems, FiniteSetTheorems, WellFoundedInduction, TLAPS

\* Among the first n frames of s one still owes the payment under c.
Owing(s, n, c) == \E j \in 1..n : s[j].id = c /\ s[j].op # "lock" /\ ~s[j].moved

\* The state w, reached with the first n frames of s pending.
PaidOrOwing(s, n, w) ==
    \A c \in Ids :
        /\ Owing(s, n, c) => w.escrows[c].status \in Terminal
        /\ w.payouts[c] = IF w.escrows[c].status \in Terminal /\ ~Owing(s, n, c)
                          THEN <<PayoutOf(w.escrows[c])>>
                          ELSE << >>

\* Escrows are never empty, and the one a pending call is about exists.
Funded(s, n, w) == /\ \A c \in Ids : w.escrows[c].status # "None" => w.escrows[c].amount > 0
                   /\ \A j \in 1..n : w.escrows[s[j].id].status # "None"

Sound(s, n, w) == PaidOrOwing(s, n, w) /\ Funded(s, n, w) /\ LogTells(w)

\* A transaction at time t may take the escrow of c from w to v.
Evolves(t, w, v, c) ==
    \/ v.escrows[c] = w.escrows[c] /\ v.logs[c] = w.logs[c]
    \/ /\ w.escrows[c].status = "None"
       /\ v.escrows[c].status \in {"Locked", "Claimed"}
       /\ t < v.escrows[c].refundTimestamp
       /\ v.escrows[c].amount > 0
       /\ v.escrows[c].payee # ZeroAddress
    \/ /\ w.escrows[c].status = "Locked"
       /\ t < w.escrows[c].refundTimestamp
       /\ v.escrows[c] = [w.escrows[c] EXCEPT !.status = "Claimed"]
    \/ /\ w.escrows[c].status = "Locked"
       /\ t >= w.escrows[c].refundTimestamp
       /\ v.escrows[c] = [w.escrows[c] EXCEPT !.status = "Refunded"]

\* Every state the transaction can be reverted to is sound.
SavedSound == \A i \in 1..Len(stack) : Sound(stack, i - 1, stack[i].saved)

WorldSound == Sound(stack, Len(stack), world)

\* No two pending frames owe the same payment.
OwedOnce == \A i, j \in 1..Len(stack) :
               (/\ i < j /\ stack[i].op # "lock" /\ ~stack[i].moved
                /\ stack[j].op # "lock")
                  => stack[i].id # stack[j].id

\* Everything since the committed state is a legal change of it.
Legal == stack # << >> =>
            \A c \in Ids :
               /\ Evolves(now, stack[1].saved, world, c)
               /\ \A i \in 1..Len(stack) :
                     Evolves(now, stack[1].saved, stack[i].saved, c)

IInv == TypeOK /\ SavedSound /\ WorldSound /\ OwedOnce /\ Legal

-----------------------------------------------------------------------------
(* Types *)

\* A state of the chain is its four parts.
LEMMA WorldParts ==
    ASSUME world \in World
    PROVE  /\ escrows \in [Ids -> Escrow]
           /\ balance \in [Tokens -> Nat]
           /\ payouts \in [Ids -> Seq(Payout)]
           /\ logs \in [Ids -> Seq(Event)]
BY DEF World, world

LEMMA WorldPartsNext ==
    ASSUME escrows' \in [Ids -> Escrow],
           balance' \in [Tokens -> Nat],
           payouts' \in [Ids -> Seq(Payout)],
           logs' \in [Ids -> Seq(Event)]
    PROVE  world' \in World
BY DEF World, world

\* The last frame, and the stack without it.
LEMMA TopFrame ==
    ASSUME stack \in Seq(Frame), stack # << >>
    PROVE  /\ Len(stack) \in 1..Len(stack)
           /\ Len(stack) \in Nat \ {0}
           /\ Top = stack[Len(stack)]
           /\ Top \in Frame
           /\ Top.id \in Ids
           /\ Pop \in Seq(Frame)
           /\ Len(Pop) = Len(stack) - 1
           /\ \A i \in 1..(Len(stack) - 1) : Pop[i] = stack[i]
<1>1. Len(stack) \in Nat \ {0} /\ Len(stack) \in 1..Len(stack)
  BY EmptySeq, LenProperties
<1>2. \A i \in 1..Len(stack) : stack[i] \in Frame
  BY ElementOfSeq
<1>3. Top = stack[Len(stack)] /\ Top \in Frame
  BY <1>1, <1>2 DEF Top
<1>4. Top.id \in Ids
  BY <1>3 DEF Frame
<1>5. \A i \in 1..(Len(stack) - 1) : stack[i] \in Frame
  BY <1>1, <1>2
<1>6. PICK n \in Nat : n = Len(stack) - 1
  BY <1>1
<1>7. /\ SubSeq(stack, 1, n) \in Seq(Frame)
      /\ Len(SubSeq(stack, 1, n)) = IF 1 <= n THEN n - 1 + 1 ELSE 0
      /\ \A i \in 1..(n - 1 + 1) : SubSeq(stack, 1, n)[i] = stack[1 + i - 1]
  BY <1>5, <1>6, SubSeqProperties
<1>8. /\ Pop = SubSeq(stack, 1, n)
      /\ Len(Pop) = n
      /\ \A i \in 1..n : Pop[i] = stack[i]
  BY <1>6, <1>7 DEF Pop
<1>9. QED
  BY <1>1, <1>3, <1>4, <1>6, <1>7, <1>8

\* Every frame reverts to a state of the chain.
LEMMA SavedTypes ==
    ASSUME TypeOK
    PROVE  \A i \in 1..Len(stack) : stack[i] \in Frame /\ stack[i].saved \in World
<1>1. \A i \in 1..Len(stack) : stack[i] \in Frame
  BY ElementOfSeq DEF TypeOK
<1>2. QED
  BY <1>1 DEF Frame

\* A call adds a frame that reverts to the current state.
LEMMA PushFrame ==
    ASSUME NEW op \in {"lock", "claim", "refund"}, NEW c \in Ids,
           NEW moved \in BOOLEAN, NEW before \in Nat,
           TypeOK, MayCall, Push(op, c, moved, before)
    PROVE  /\ stack' \in Seq(Frame)
           /\ Len(stack') = Len(stack) + 1
           /\ Len(stack') <= MaxDepth
           /\ \A i \in 1..Len(stack) : stack'[i] = stack[i]
           /\ stack'[Len(stack) + 1].op = op
           /\ stack'[Len(stack) + 1].id = c
           /\ stack'[Len(stack) + 1].moved = moved
           /\ stack'[Len(stack) + 1].before = before
           /\ stack'[Len(stack) + 1].saved = world
<1>1. [op |-> op, id |-> c, moved |-> moved, before |-> before, saved |-> world] \in Frame
  BY DEF TypeOK, Frame
<1>2. stack \in Seq(Frame) /\ Len(stack) < MaxDepth /\ MaxDepth \in Nat
  BY HtlcAssumption DEF TypeOK, MayCall
<1>3. stack'[Len(stack) + 1] =
        [op |-> op, id |-> c, moved |-> moved, before |-> before, saved |-> world]
  BY <1>1, <1>2 DEF Push
<1>4. QED
  BY <1>1, <1>2, <1>3 DEF Push

\* An event of the right kind keeps the log one.
LEMMA EmitType ==
    ASSUME logs \in [Ids -> Seq(Event)], NEW c \in Ids, NEW e \in Event, Emit(c, e)
    PROVE  logs' \in [Ids -> Seq(Event)]
<1>1. Append(logs[c], e) \in Seq(Event)
  OBVIOUS
<1>2. QED
  BY <1>1 DEF Emit

\* The outsider moving the funds marks the last frame and no other.
LEMMA SettleFrame ==
    ASSUME stack \in Seq(Frame), stack # << >>, Settle
    PROVE  /\ stack' \in Seq(Frame)
           /\ Len(stack') = Len(stack)
           /\ \A i \in 1..(Len(stack) - 1) : stack'[i] = stack[i]
           /\ stack'[Len(stack)] = [Top EXCEPT !.moved = TRUE]
<1>1. [Top EXCEPT !.moved = TRUE] \in Frame
  BY TopFrame DEF Frame
<1>2. stack' = [stack EXCEPT ![Len(stack)] = [Top EXCEPT !.moved = TRUE]]
  BY DEF Settle, Top
<1>3. QED
  BY <1>1, <1>2, TopFrame

LEMMA LockType ==
    ASSUME TypeOK, LockAny
    PROVE  TypeOK'
<1> PICK c \in Ids, sender \in Addresses, payee \in Addresses \cup {ZeroAddress},
         token \in Tokens, amount \in Amounts, value \in Amounts \cup {0},
         hashlock \in Digests, t \in Timestamps :
         Lock(c, sender, payee, token, amount, hashlock, t, value)
  BY DEF LockAny
<1>1. escrows \in [Ids -> Escrow] /\ balance \in [Tokens -> Nat]
      /\ payouts \in [Ids -> Seq(Payout)] /\ logs \in [Ids -> Seq(Event)]
  BY WorldParts DEF TypeOK
<1>2. escrows' \in [Ids -> Escrow]
  BY <1>1, EscrowAssumption DEF Lock, LockEffects, Escrow, EscrowStatus
<1>3. logs' \in [Ids -> Seq(Event)]
  <2>1. LockedEvent \in Event
    BY DEF LockedEvent, Event
  <2>2. QED
    BY <1>1, <2>1, EmitType DEF Lock
<1>4. value \in Nat /\ Native \in Tokens
  BY EscrowAssumption DEF Tokens
<1>5. balance' \in [Tokens -> Nat]
  BY <1>1, <1>4 DEF Lock
<1>6. payouts' \in [Ids -> Seq(Payout)] /\ now' \in Nat
  BY <1>1 DEF Lock, TypeOK
<1>7. world' \in World
  BY <1>2, <1>3, <1>5, <1>6, WorldPartsNext
<1>8. stack' \in Seq(Frame) /\ Len(stack') <= MaxDepth
  <2>1. CASE token = Native
    BY <2>1 DEF Lock, TypeOK
  <2>2. CASE token # Native
    <3>1. Push("lock", c, FALSE, balance[token]) /\ MayCall
      BY <2>2 DEF Lock
    <3>2. balance[token] \in Nat
      BY <1>1
    <3>3. QED
      BY <3>1, <3>2, PushFrame
  <2>3. QED
    BY <2>1, <2>2
<1>9. QED
  BY <1>6, <1>7, <1>8 DEF TypeOK

\* Both ways of paying out keep the types, given the new status is one.
LEMMA PayOutType ==
    ASSUME TypeOK, MayCall, NEW c \in Ids, NEW op \in {"claim", "refund"},
           escrows' \in [Ids -> Escrow], logs' \in [Ids -> Seq(Event)],
           now' = now, PayOut(op, c)
    PROVE  TypeOK'
<1>1. escrows \in [Ids -> Escrow] /\ balance \in [Tokens -> Nat]
      /\ payouts \in [Ids -> Seq(Payout)]
  BY WorldParts DEF TypeOK
<1>2. /\ escrows[c].amount \in Nat /\ escrows'[c] \in Escrow /\ Native \in Tokens
      /\ balance[Native] \in Nat
  BY <1>1 DEF Escrow, Tokens
<1>3. PayoutOf(escrows'[c]) \in Payout
  BY <1>2 DEF PayoutOf, Recipient, Payout, Escrow
<1>4. balance' \in [Tokens -> Nat]
  <2>1. CASE escrows[c].token = Native
    <3>1. /\ balance' = [balance EXCEPT ![Native] = @ - escrows[c].amount]
          /\ balance[Native] >= escrows[c].amount
      BY <2>1 DEF PayOut
    <3>2. balance[Native] - escrows[c].amount \in Nat
      BY <1>2, <3>1
    <3>3. QED
      BY <1>1, <3>1, <3>2
  <2>2. CASE escrows[c].token # Native
    BY <1>1, <2>2 DEF PayOut
  <2>3. QED
    BY <2>1, <2>2
<1>8. payouts' \in [Ids -> Seq(Payout)]
  <2>1. Append(payouts[c], PayoutOf(escrows'[c])) \in Seq(Payout)
    BY <1>1, <1>3
  <2>2. QED
    BY <1>1, <2>1 DEF PayOut
<1>5. \E moved \in BOOLEAN : Push(op, c, moved, 0)
  BY DEF PayOut
<1>6. stack' \in Seq(Frame) /\ Len(stack') <= MaxDepth
  BY <1>5, PushFrame
<1>7. QED
  BY <1>4, <1>6, <1>8, WorldPartsNext DEF TypeOK

LEMMA ClaimType ==
    ASSUME TypeOK, NEW c \in Ids, NEW s \in Secrets, Claim(c, s)
    PROVE  TypeOK'
<1>1. escrows' \in [Ids -> Escrow]
  <2>1. escrows \in [Ids -> Escrow]
    BY WorldParts DEF TypeOK
  <2>2. [escrows[c] EXCEPT !.status = "Claimed"] \in Escrow
    BY <2>1 DEF Escrow, EscrowStatus
  <2>3. escrows' = [escrows EXCEPT ![c] = [escrows[c] EXCEPT !.status = "Claimed"]]
    BY DEF Claim
  <2>4. QED
    BY <2>1, <2>2, <2>3
<1>2. logs' \in [Ids -> Seq(Event)]
  <2>1. ClaimedEvent(s) \in Event
    BY DEF ClaimedEvent, Event
  <2>2. QED
    BY <2>1, WorldParts, EmitType DEF TypeOK, Claim
<1>3. QED
  BY <1>1, <1>2, PayOutType DEF Claim

LEMMA RefundType ==
    ASSUME TypeOK, NEW c \in Ids, Refund(c)
    PROVE  TypeOK'
<1>1. escrows' \in [Ids -> Escrow]
  <2>1. escrows \in [Ids -> Escrow]
    BY WorldParts DEF TypeOK
  <2>2. [escrows[c] EXCEPT !.status = "Refunded"] \in Escrow
    BY <2>1 DEF Escrow, EscrowStatus
  <2>3. escrows' = [escrows EXCEPT ![c] = [escrows[c] EXCEPT !.status = "Refunded"]]
    BY DEF Refund
  <2>4. QED
    BY <2>1, <2>2, <2>3
<1>2. logs' \in [Ids -> Seq(Event)]
  <2>1. RefundedEvent \in Event
    BY DEF RefundedEvent, Event
  <2>2. QED
    BY <2>1, WorldParts, EmitType DEF TypeOK, Refund
<1>3. QED
  BY <1>1, <1>2, PayOutType DEF Refund

LEMMA MoveInType ==
    ASSUME TypeOK, Funded(stack, Len(stack), world), MoveIn
    PROVE  TypeOK'
<1> DEFINE e == escrows[Top.id]
           got == IF e.token \in SkimTokens THEN e.amount - 1 ELSE e.amount
<1>1. stack \in Seq(Frame) /\ stack # << >> /\ Settle
  BY DEF TypeOK, MoveIn
<1>2. e \in Escrow /\ e.token \in Tokens /\ e.amount \in Nat
  BY <1>1, TopFrame, WorldParts DEF TypeOK, Escrow
<1>3. e.amount > 0
  BY <1>1, TopFrame DEF Funded, world
<1>4. got \in Nat
  BY <1>2, <1>3
<1>5. balance' = [balance EXCEPT ![e.token] = @ + got]
  BY DEF MoveIn
<1>6. balance \in [Tokens -> Nat]
  BY WorldParts DEF TypeOK
<1>7. balance' \in [Tokens -> Nat]
  <2> HIDE DEF got, e
  <2>1. balance[e.token] + got \in Nat
    BY <1>2, <1>4, <1>6
  <2>2. QED
    BY <1>2, <1>5, <1>6, <2>1
<1>8. world' \in World
  BY <1>7, WorldParts, WorldPartsNext DEF TypeOK, MoveIn
<1>9. stack' \in Seq(Frame) /\ Len(stack') <= MaxDepth /\ now' \in Nat
  BY <1>1, SettleFrame DEF TypeOK, MoveIn
<1>10. QED
  BY <1>8, <1>9 DEF TypeOK

LEMMA MoveOutType ==
    ASSUME TypeOK, MoveOut
    PROVE  TypeOK'
<1> DEFINE e == escrows[Top.id]
<1>1. stack \in Seq(Frame) /\ stack # << >> /\ Settle
  BY DEF TypeOK, MoveOut
<1>2. /\ Top.id \in Ids /\ e \in Escrow /\ e.token \in Tokens /\ e.amount \in Nat
      /\ balance \in [Tokens -> Nat] /\ payouts \in [Ids -> Seq(Payout)]
  BY <1>1, TopFrame, WorldParts DEF TypeOK, Escrow
<1>3. PayoutOf(e) \in Payout
  BY <1>2 DEF PayoutOf, Recipient, Payout, Escrow
<1>4. balance' \in [Tokens -> Nat]
  <2>1. balance' = [balance EXCEPT ![e.token] = @ - e.amount] /\ balance[e.token] >= e.amount
    BY DEF MoveOut
  <2> HIDE DEF e
  <2>2. balance[e.token] - e.amount \in Nat
    BY <1>2, <2>1
  <2>3. QED
    BY <1>2, <2>1, <2>2
<1>5. payouts' \in [Ids -> Seq(Payout)]
  <2>1. payouts' = [payouts EXCEPT ![Top.id] = Append(@, PayoutOf(e))]
    BY DEF MoveOut
  <2>2. Append(payouts[Top.id], PayoutOf(e)) \in Seq(Payout)
    BY <1>2, <1>3
  <2>3. QED
    BY <1>2, <2>1, <2>2
<1>6. world' \in World
  BY <1>4, <1>5, WorldParts, WorldPartsNext DEF TypeOK, MoveOut
<1>7. stack' \in Seq(Frame) /\ Len(stack') <= MaxDepth /\ now' \in Nat
  BY <1>1, SettleFrame DEF TypeOK, MoveOut
<1>8. QED
  BY <1>6, <1>7 DEF TypeOK

LEMMA ReturnType ==
    ASSUME TypeOK, Return
    PROVE  TypeOK'
<1>1. stack \in Seq(Frame) /\ stack # << >> /\ Len(stack) <= MaxDepth /\ MaxDepth \in Nat
  BY HtlcAssumption DEF TypeOK, Return
<1>2. stack' \in Seq(Frame) /\ Len(stack') <= MaxDepth
  BY <1>1, TopFrame DEF Return
<1>3. QED
  BY <1>2, WorldParts, WorldPartsNext DEF TypeOK, Return

LEMMA RevertType ==
    ASSUME TypeOK, Revert
    PROVE  TypeOK'
<1>1. stack \in Seq(Frame) /\ stack # << >> /\ Len(stack) <= MaxDepth /\ MaxDepth \in Nat
  BY HtlcAssumption DEF TypeOK, Revert
<1>2. stack' \in Seq(Frame) /\ Len(stack') <= MaxDepth
  BY <1>1, TopFrame DEF Revert
<1>3. Top.saved \in World
  BY <1>1, TopFrame DEF Frame
<1>4. world' \in World
  BY <1>3, WorldPartsNext DEF Revert, World
<1>5. QED
  BY <1>2, <1>4 DEF TypeOK, Revert

LEMMA DonateType ==
    ASSUME TypeOK, NEW t \in Tokens, Donate(t)
    PROVE  TypeOK'
BY WorldParts, WorldPartsNext DEF TypeOK, Donate

-----------------------------------------------------------------------------
(* The invariant: facts about states and stacks *)

\* Only the first n frames matter.
LEMMA SamePrefix ==
    ASSUME NEW s, NEW r, NEW n \in Nat, \A i \in 1..n : s[i] = r[i], NEW w
    PROVE  /\ \A c : Owing(s, n, c) <=> Owing(r, n, c)
           /\ Sound(s, n, w) => Sound(r, n, w)
<1>1. \A c : Owing(s, n, c) <=> Owing(r, n, c)
  BY DEF Owing
<1>2. PaidOrOwing(s, n, w) => PaidOrOwing(r, n, w)
  BY <1>1 DEF PaidOrOwing
<1>3. Funded(s, n, w) => Funded(r, n, w)
  BY DEF Funded
<1>4. QED
  BY <1>1, <1>2, <1>3 DEF Sound

\* Legal changes at one time compose.
LEMMA EvolvesTwice ==
    ASSUME NEW t \in Nat, NEW w \in World, NEW v \in World, NEW u \in World, NEW c \in Ids,
           Evolves(t, w, v, c), Evolves(t, v, u, c)
    PROVE  Evolves(t, w, u, c)
<1>1. /\ w.escrows[c] \in Escrow
      /\ v.escrows[c] \in Escrow
      /\ u.escrows[c] \in Escrow
  BY DEF World
<1>2. CASE v.escrows[c] = w.escrows[c] /\ v.logs[c] = w.logs[c]
  BY <1>2 DEF Evolves
<1>3. CASE u.escrows[c] = v.escrows[c] /\ u.logs[c] = v.logs[c]
  BY <1>3 DEF Evolves
<1>4. CASE w.escrows[c].status = "None" /\ v.escrows[c].status = "Locked"
  <2>1. /\ t < v.escrows[c].refundTimestamp
        /\ v.escrows[c].amount > 0
        /\ v.escrows[c].payee # ZeroAddress
    BY <1>2, <1>4 DEF Evolves
  <2>2. CASE u.escrows[c] = [v.escrows[c] EXCEPT !.status = "Claimed"]
    <3>1. /\ u.escrows[c].status = "Claimed"
          /\ u.escrows[c].refundTimestamp = v.escrows[c].refundTimestamp
          /\ u.escrows[c].amount = v.escrows[c].amount
          /\ u.escrows[c].payee = v.escrows[c].payee
      BY <1>1, <2>2 DEF Escrow
    <3>2. QED
      BY <1>4, <2>1, <3>1 DEF Evolves
  <2>3. CASE t >= v.escrows[c].refundTimestamp
    BY <1>1, <2>1, <2>3 DEF Escrow
  <2>4. QED
    BY <1>3, <1>4, <2>2, <2>3 DEF Evolves
<1>5. CASE v.escrows[c].status \in Terminal
  <2>1. u.escrows[c] = v.escrows[c] /\ u.logs[c] = v.logs[c]
    BY <1>5 DEF Evolves, Terminal
  <2>2. QED
    BY <2>1, <1>3
<1>6. QED
  BY <1>1, <1>2, <1>3, <1>4, <1>5 DEF Evolves, Escrow, Terminal

\* A state reached from w by one call about c, which pushes at most a frame.
LEMMA LegalStep ==
    ASSUME TypeOK, TypeOK', Legal, now' = now,
           \A c \in Ids : Evolves(now, world, world', c),
           \/ stack' = stack
           \/ /\ Len(stack') = Len(stack) + 1
              /\ \A i \in 1..Len(stack) : stack'[i] = stack[i]
              /\ stack'[Len(stack) + 1].saved = world
    PROVE  Legal'
<1> SUFFICES ASSUME stack' # << >>, NEW c \in Ids
             PROVE  /\ Evolves(now', stack'[1].saved, world', c)
                    /\ \A i \in 1..Len(stack') :
                          Evolves(now', stack'[1].saved, stack'[i].saved, c)
  BY DEF Legal
<1>1. /\ now \in Nat /\ world \in World /\ world' \in World /\ stack \in Seq(Frame)
      /\ Len(stack) \in Nat
  BY DEF TypeOK
<1>2. \A i \in 1..Len(stack) : stack[i].saved \in World
  BY SavedTypes
<1>3. CASE stack' = stack
  <2>1. /\ stack # << >> /\ 1 \in 1..Len(stack)
        /\ Evolves(now, stack[1].saved, world, c)
        /\ \A i \in 1..Len(stack) : Evolves(now, stack[1].saved, stack[i].saved, c)
    BY <1>1, <1>3, EmptySeq DEF Legal
  <2>2. Evolves(now, stack[1].saved, world', c)
    BY <1>1, <1>2, <2>1, EvolvesTwice
  <2>3. QED
    BY <1>3, <2>1, <2>2
<1>4. CASE /\ Len(stack') = Len(stack) + 1
           /\ \A i \in 1..Len(stack) : stack'[i] = stack[i]
           /\ stack'[Len(stack) + 1].saved = world
  <2>1. CASE stack = << >>
    <3>1. Len(stack) = 0
      BY <2>1
    <3>2. Len(stack') = 1 /\ stack'[1].saved = world
      BY <1>4, <3>1
    <3>3. Evolves(now, world, world, c)
      BY DEF Evolves
    <3>4. \A i \in 1..Len(stack') : i = 1
      BY <3>2
    <3>5. QED
      BY <3>2, <3>3, <3>4
  <2>2. CASE stack # << >>
    <3>1. /\ 1 \in 1..Len(stack)
          /\ Evolves(now, stack[1].saved, world, c)
          /\ \A i \in 1..Len(stack) : Evolves(now, stack[1].saved, stack[i].saved, c)
      BY <1>1, <2>2, EmptySeq DEF Legal
    <3>2. stack'[1] = stack[1]
      BY <1>4, <3>1
    <3>3. Evolves(now, stack[1].saved, world', c)
      BY <1>1, <1>2, <3>1, EvolvesTwice
    <3>4. ASSUME NEW i \in 1..Len(stack')
          PROVE  Evolves(now, stack[1].saved, stack'[i].saved, c)
      <4>1. i \in 1..Len(stack) \/ i = Len(stack) + 1
        BY <1>1, <1>4
      <4>2. QED
        BY <1>4, <3>1, <4>1
    <3>5. QED
      BY <3>2, <3>3, <3>4
  <2>3. QED
    BY <2>1, <2>2
<1>5. QED
  BY <1>3, <1>4

\* What was there to revert to stays sound, and so is the state now left.
LEMMA SavedSoundPush ==
    ASSUME TypeOK, SavedSound, WorldSound,
           Len(stack') = Len(stack) + 1,
           \A i \in 1..Len(stack) : stack'[i] = stack[i],
           stack'[Len(stack) + 1].saved = world
    PROVE  SavedSound'
<1>1. Len(stack) \in Nat
  BY DEF TypeOK
<1> SUFFICES ASSUME NEW i \in 1..Len(stack')
             PROVE  Sound(stack', i - 1, stack'[i].saved)
  BY DEF SavedSound
<1>2. /\ i - 1 \in Nat
      /\ \A j \in 1..(i - 1) : stack[j] = stack'[j]
  BY <1>1
<1>3. CASE i \in 1..Len(stack)
  <2>1. Sound(stack, i - 1, stack[i].saved)
    BY <1>3 DEF SavedSound
  <2>2. QED
    BY <1>2, <1>3, <2>1, SamePrefix
<1>4. CASE i = Len(stack) + 1
  <2>1. Sound(stack, i - 1, world)
    BY <1>1, <1>4 DEF WorldSound
  <2>2. QED
    BY <1>2, <1>4, <2>1, SamePrefix
<1>5. QED
  BY <1>1, <1>3, <1>4

\* A frame that owes nothing may be added on top.
LEMMA SoundAbove ==
    ASSUME NEW s, NEW r, NEW n \in Nat, NEW w,
           \A i \in 1..n : s[i] = r[i],
           r[n + 1].op = "lock" \/ r[n + 1].moved,
           w.escrows[r[n + 1].id].status # "None",
           Sound(s, n, w)
    PROVE  Sound(r, n + 1, w)
<1>1. Sound(r, n, w)
  BY SamePrefix
<1>2. \A i : i \in 1..(n + 1) <=> i \in 1..n \/ i = n + 1
  OBVIOUS
<1>3. \A c : Owing(r, n + 1, c) <=> Owing(r, n, c)
  BY <1>2 DEF Owing
<1>4. Funded(r, n + 1, w)
  BY <1>1, <1>2 DEF Sound, Funded
<1>5. QED
  BY <1>1, <1>3, <1>4 DEF Sound, PaidOrOwing

\* ... and removed.
LEMMA SoundBelow ==
    ASSUME NEW s, NEW r, NEW n \in Nat \ {0}, NEW w,
           \A i \in 1..(n - 1) : s[i] = r[i],
           s[n].moved,
           Sound(s, n, w)
    PROVE  Sound(r, n - 1, w)
<1>1. n - 1 \in Nat /\ (\A i : i \in 1..n <=> i \in 1..(n - 1) \/ i = n)
  OBVIOUS
<1>2. \A c : Owing(s, n, c) <=> Owing(s, n - 1, c)
  BY <1>1 DEF Owing
<1>3. Funded(s, n - 1, w)
  BY <1>1 DEF Sound, Funded
<1>4. Sound(s, n - 1, w)
  BY <1>2, <1>3 DEF Sound, PaidOrOwing
<1>5. QED
  BY <1>1, <1>4, SamePrefix

-----------------------------------------------------------------------------
(* Calls *)

LEMMA LockEvolves ==
    ASSUME TypeOK, LockAny
    PROVE  \A d \in Ids : Evolves(now, world, world', d)
<1> PICK c \in Ids, sender \in Addresses, payee \in Addresses \cup {ZeroAddress},
         token \in Tokens, amount \in Amounts, value \in Amounts \cup {0},
         hashlock \in Digests, t \in Timestamps :
         Lock(c, sender, payee, token, amount, hashlock, t, value)
  BY DEF LockAny
<1>1. escrows \in [Ids -> Escrow] /\ logs \in [Ids -> Seq(Event)]
  BY WorldParts DEF TypeOK
<1>2. /\ escrows[c].status = "None"
      /\ escrows'[c].status = "Locked"
      /\ now < escrows'[c].refundTimestamp
      /\ escrows'[c].amount > 0
      /\ escrows'[c].payee # ZeroAddress
      /\ \A d \in Ids \ {c} : escrows'[d] = escrows[d] /\ logs'[d] = logs[d]
  BY <1>1, EscrowAssumption DEF Lock, LockChecks, LockEffects, Emit
<1>3. QED
  BY <1>2 DEF Evolves, world

LEMMA LockStep ==
    ASSUME IInv, LockAny
    PROVE  IInv'
<1> PICK c \in Ids, sender \in Addresses, payee \in Addresses \cup {ZeroAddress},
         token \in Tokens, amount \in Amounts, value \in Amounts \cup {0},
         hashlock \in Digests, t \in Timestamps :
         Lock(c, sender, payee, token, amount, hashlock, t, value)
  BY DEF LockAny
<1>1. TypeOK /\ TypeOK' /\ now' = now /\ Len(stack) \in Nat
  BY LockType DEF IInv, Lock, TypeOK
<1>2. /\ escrows \in [Ids -> Escrow] /\ payouts \in [Ids -> Seq(Payout)]
      /\ logs \in [Ids -> Seq(Event)]
  BY <1>1, WorldParts DEF TypeOK
<1>3. /\ escrows[c].status = "None"
      /\ escrows'[c].status = "Locked"
      /\ now < escrows'[c].refundTimestamp
      /\ escrows'[c].amount > 0
      /\ escrows'[c].payee # ZeroAddress
      /\ \A d \in Ids \ {c} : escrows'[d] = escrows[d] /\ logs'[d] = logs[d]
      /\ payouts' = payouts
      /\ logs'[c] = Append(logs[c], LockedEvent)
  BY <1>2, EscrowAssumption DEF Lock, LockChecks, LockEffects, Emit
<1>4. Sound(stack, Len(stack), world)
  BY DEF IInv, WorldSound
<1>5. Sound(stack, Len(stack), world')
  <2>1. PaidOrOwing(stack, Len(stack), world')
    BY <1>3, <1>4 DEF Sound, PaidOrOwing, world, Terminal
  <2>2. Funded(stack, Len(stack), world')
    <3>1. ASSUME NEW j \in 1..Len(stack)
          PROVE  escrows'[stack[j].id].status # "None"
      <4>1. stack[j].id \in Ids
        BY <1>1, SavedTypes DEF Frame
      <4>2. escrows[stack[j].id].status # "None"
        BY <1>4 DEF Sound, Funded, world
      <4>3. QED
        BY <1>3, <4>1, <4>2
    <3>2. \A d \in Ids : escrows'[d].status # "None" => escrows'[d].amount > 0
      BY <1>3, <1>4 DEF Sound, Funded, world
    <3>3. QED
      BY <3>1, <3>2 DEF Funded, world
  <2>3. LogTells(world')
    <3>1. logs[c] = << >>
      BY <1>3, <1>4 DEF Sound, LogTells, world
    <3>2. logs'[c] = <<LockedEvent>>
      BY <1>3, <3>1
    <3>3. QED
      BY <1>3, <1>4, <3>2 DEF Sound, LogTells, world
  <2>4. QED
    BY <2>1, <2>2, <2>3 DEF Sound
<1>6. \A d \in Ids : Evolves(now, world, world', d)
  BY <1>1, LockEvolves
<1>7. CASE stack' = stack
  BY <1>1, <1>5, <1>6, <1>7, LegalStep DEF IInv, SavedSound, WorldSound, OwedOnce
<1>8. CASE stack' # stack
  <2>1. Push("lock", c, FALSE, balance[token]) /\ MayCall /\ balance[token] \in Nat
    BY <1>1, <1>8, WorldParts DEF Lock, TypeOK
  <2>2. /\ Len(stack') = Len(stack) + 1
        /\ \A i \in 1..Len(stack) : stack'[i] = stack[i]
        /\ stack'[Len(stack) + 1].op = "lock"
        /\ stack'[Len(stack) + 1].id = c
        /\ stack'[Len(stack) + 1].saved = world
    BY <1>1, <2>1, PushFrame
  <2>3. WorldSound'
    <3>1. world'.escrows[stack'[Len(stack) + 1].id].status # "None"
      BY <1>3, <2>2 DEF world
    <3>2. Sound(stack', Len(stack) + 1, world')
      BY <1>1, <1>5, <2>2, <3>1, SoundAbove
    <3>3. QED
      BY <2>2, <3>2 DEF WorldSound
  <2>4. OwedOnce'
    BY <1>1, <2>2 DEF IInv, OwedOnce
  <2>5. QED
    BY <1>1, <1>6, <2>2, <2>3, <2>4, LegalStep, SavedSoundPush DEF IInv
<1>9. QED
  BY <1>7, <1>8

\* claim() and refund() both turn a locked escrow into a settled one and pay.
LEMMA SettlingStep ==
    ASSUME IInv, TypeOK', MayCall, NEW c \in Ids, NEW op \in {"claim", "refund"},
           now' = now,
           escrows[c].status = "Locked",
           escrows'[c].status \in Terminal,
           escrows'[c].amount = escrows[c].amount,
           \A d \in Ids \ {c} : escrows'[d] = escrows[d] /\ logs'[d] = logs[d],
           LogTells(world'),
           Evolves(now, world, world', c),
           PayOut(op, c)
    PROVE  IInv'
<1>1. TypeOK /\ Len(stack) \in Nat /\ Sound(stack, Len(stack), world)
  BY DEF IInv, TypeOK, WorldSound
<1>2. PICK moved \in BOOLEAN : /\ Push(op, c, moved, 0)
                               /\ moved => payouts' = [payouts EXCEPT ![c] =
                                              Append(@, PayoutOf(escrows'[c]))]
                               /\ ~moved => payouts' = payouts
  BY DEF PayOut
<1>3. /\ Len(stack') = Len(stack) + 1
      /\ \A i \in 1..Len(stack) : stack'[i] = stack[i]
      /\ stack'[Len(stack) + 1].op = op
      /\ stack'[Len(stack) + 1].id = c
      /\ stack'[Len(stack) + 1].moved = moved
      /\ stack'[Len(stack) + 1].saved = world
  BY <1>1, <1>2, PushFrame
<1>4. payouts \in [Ids -> Seq(Payout)]
  BY <1>1, WorldParts DEF TypeOK
<1>5. ~Owing(stack, Len(stack), c) /\ payouts[c] = << >>
  BY <1>1 DEF Sound, PaidOrOwing, world, Terminal
<1>6. Funded(stack, Len(stack), world')
  <2>1. ASSUME NEW j \in 1..Len(stack)
        PROVE  escrows'[stack[j].id].status # "None"
    <3>1. stack[j].id \in Ids
      BY <1>1, SavedTypes DEF Frame
    <3>2. escrows[stack[j].id].status # "None"
      BY <1>1 DEF Sound, Funded, world
    <3>3. QED
      BY <3>1, <3>2 DEF Terminal
  <2>2. \A d \in Ids : escrows'[d].status # "None" => escrows'[d].amount > 0
    BY <1>1 DEF Sound, Funded, world
  <2>3. QED
    BY <2>1, <2>2 DEF Funded, world
<1>7. Sound(stack', Len(stack'), world')
  <2>1. CASE moved
    <3>1. payouts'[c] = <<PayoutOf(escrows'[c])>>
      BY <1>2, <1>4, <1>5, <2>1
    <3>2. \A d \in Ids \ {c} : payouts'[d] = payouts[d]
      BY <1>2, <1>4, <2>1
    <3>3. PaidOrOwing(stack, Len(stack), world')
      BY <1>1, <1>5, <3>1, <3>2 DEF Sound, PaidOrOwing, world
    <3>4. Sound(stack, Len(stack), world')
      BY <1>6, <3>3 DEF Sound
    <3>5. world'.escrows[stack'[Len(stack) + 1].id].status # "None"
      BY <1>3 DEF world, Terminal
    <3>6. QED
      BY <1>1, <1>3, <2>1, <3>4, <3>5, SoundAbove
  <2>2. CASE ~moved
    <3>1. \A i : i \in 1..Len(stack') <=> i \in 1..Len(stack) \/ i = Len(stack) + 1
      BY <1>1, <1>3
    <3>2. Owing(stack', Len(stack'), c)
      BY <1>1, <1>3, <2>2, <3>1 DEF Owing
    <3>3. \A d \in Ids \ {c} : Owing(stack', Len(stack'), d) <=> Owing(stack, Len(stack), d)
      BY <1>3, <3>1 DEF Owing
    <3>4. PaidOrOwing(stack', Len(stack'), world')
      BY <1>1, <1>2, <1>5, <2>2, <3>2, <3>3 DEF Sound, PaidOrOwing, world
    <3>5. Funded(stack', Len(stack'), world')
      BY <1>3, <1>6, <3>1 DEF Funded, world, Terminal
    <3>6. QED
      BY <3>4, <3>5 DEF Sound
  <2>3. QED
    BY <2>1, <2>2
<1>8. OwedOnce'
  <2> SUFFICES ASSUME NEW i \in 1..Len(stack'), NEW j \in 1..Len(stack'),
                      i < j, stack'[i].op # "lock", ~stack'[i].moved, stack'[j].op # "lock"
               PROVE  stack'[i].id # stack'[j].id
    BY DEF OwedOnce
  <2>1. i \in 1..Len(stack)
    BY <1>1, <1>3
  <2>2. CASE j \in 1..Len(stack)
    BY <1>3, <2>1, <2>2 DEF IInv, OwedOnce
  <2>3. CASE j = Len(stack) + 1
    <3>1. Owing(stack, Len(stack), stack[i].id)
      BY <1>3, <2>1 DEF Owing
    <3>2. QED
      BY <1>3, <1>5, <2>1, <2>3, <3>1
  <2>4. QED
    BY <1>1, <1>3, <2>2, <2>3
<1>9. \A d \in Ids : Evolves(now, world, world', d)
  <2>1. \A d \in Ids \ {c} : Evolves(now, world, world', d)
    BY DEF Evolves, world
  <2>2. QED
    BY <2>1
<1>10. Legal' /\ SavedSound'
  BY <1>1, <1>3, <1>9, LegalStep, SavedSoundPush DEF IInv
<1>11. QED
  BY <1>7, <1>8, <1>10 DEF IInv, WorldSound

\* The log of a locked escrow holds its Locked event, and the outcome goes next.
LEMMA LockedLog ==
    ASSUME LogTells(world), NEW c \in Ids, escrows[c].status = "Locked"
    PROVE  logs[c] = <<LockedEvent>>
BY DEF LogTells, world

LEMMA NextEvent ==
    ASSUME NEW a, NEW b, NEW l, l = <<a>>
    PROVE  Append(l, b) = <<a, b>>
<1>1. l \in Seq({a, b}) /\ Len(l) = 1 /\ l[1] = a
  OBVIOUS
<1>2. /\ Append(l, b) \in Seq({a, b}) /\ Len(Append(l, b)) = 2
      /\ Append(l, b)[1] = a /\ Append(l, b)[2] = b
  BY <1>1
<1>3. /\ <<a, b>> \in Seq({a, b}) /\ Len(<<a, b>>) = 2
      /\ <<a, b>>[1] = a /\ <<a, b>>[2] = b
  OBVIOUS
<1>4. \A i \in 1..2 : i = 1 \/ i = 2
  OBVIOUS
<1>5. \A i \in 1..Len(<<a, b>>) : Append(l, b)[i] = <<a, b>>[i]
  BY <1>2, <1>3, <1>4
<1>6. QED
  BY <1>2, <1>3, <1>5, SeqEqual

LEMMA ClaimStep ==
    ASSUME IInv, NEW c \in Ids, NEW s \in Secrets, Claim(c, s)
    PROVE  IInv'
<1>1. TypeOK /\ TypeOK' /\ Sound(stack, Len(stack), world)
  BY ClaimType DEF IInv, WorldSound
<1>2. /\ escrows \in [Ids -> Escrow] /\ logs \in [Ids -> Seq(Event)]
  BY <1>1, WorldParts DEF TypeOK
<1>3. /\ escrows[c].status = "Locked" /\ now < escrows[c].refundTimestamp
      /\ Opens(s, escrows[c].hashlock)
      /\ escrows'[c] = [escrows[c] EXCEPT !.status = "Claimed"]
      /\ \A d \in Ids \ {c} : escrows'[d] = escrows[d] /\ logs'[d] = logs[d]
      /\ logs'[c] = Append(logs[c], ClaimedEvent(s))
  BY <1>2 DEF Claim, ClaimChecks, Emit
<1>4. /\ escrows'[c].status = "Claimed"
      /\ escrows'[c].amount = escrows[c].amount
      /\ escrows'[c].hashlock = escrows[c].hashlock
  BY <1>2, <1>3 DEF Escrow
<1>5. logs'[c] = <<LockedEvent, ClaimedEvent(s)>>
  <2>1. logs[c] = <<LockedEvent>>
    BY <1>1, <1>3, LockedLog DEF Sound
  <2>2. QED
    BY <1>3, <2>1, NextEvent
<1>6. LogTells(world')
  <2>1. \A d \in Ids \ {c} : world'.escrows[d] = world.escrows[d] /\ world'.logs[d] = world.logs[d]
    BY <1>3 DEF world
  <2>2. Opens(s, world'.escrows[c].hashlock) /\ world'.escrows[c].status = "Claimed"
        /\ world'.logs[c] = <<LockedEvent, ClaimedEvent(s)>>
    BY <1>3, <1>4, <1>5 DEF world
  <2>3. LogTells(world)
    BY <1>1 DEF Sound
  <2>4. QED
    BY <2>1, <2>2, <2>3 DEF LogTells
<1>7. Evolves(now, world, world', c)
  BY <1>3 DEF Evolves, world
<1>8. MayCall /\ PayOut("claim", c) /\ now' = now
  BY DEF Claim
<1>9. QED
  BY <1>1, <1>3, <1>4, <1>6, <1>7, <1>8, SettlingStep DEF Terminal

LEMMA RefundStep ==
    ASSUME IInv, NEW c \in Ids, Refund(c)
    PROVE  IInv'
<1>1. TypeOK /\ TypeOK' /\ Sound(stack, Len(stack), world)
  BY RefundType DEF IInv, WorldSound
<1>2. /\ escrows \in [Ids -> Escrow] /\ logs \in [Ids -> Seq(Event)]
  BY <1>1, WorldParts DEF TypeOK
<1>3. /\ escrows[c].status = "Locked" /\ now >= escrows[c].refundTimestamp
      /\ escrows'[c] = [escrows[c] EXCEPT !.status = "Refunded"]
      /\ \A d \in Ids \ {c} : escrows'[d] = escrows[d] /\ logs'[d] = logs[d]
      /\ logs'[c] = Append(logs[c], RefundedEvent)
  BY <1>2 DEF Refund, RefundChecks, Emit
<1>4. escrows'[c].status = "Refunded" /\ escrows'[c].amount = escrows[c].amount
  BY <1>2, <1>3 DEF Escrow
<1>5. logs'[c] = <<LockedEvent, RefundedEvent>>
  <2>1. logs[c] = <<LockedEvent>>
    BY <1>1, <1>3, LockedLog DEF Sound
  <2>2. QED
    BY <1>3, <2>1, NextEvent
<1>6. LogTells(world')
  <2>1. \A d \in Ids \ {c} : world'.escrows[d] = world.escrows[d] /\ world'.logs[d] = world.logs[d]
    BY <1>3 DEF world
  <2>2. /\ world'.escrows[c].status = "Refunded"
        /\ world'.logs[c] = <<LockedEvent, RefundedEvent>>
    BY <1>4, <1>5 DEF world
  <2>3. LogTells(world)
    BY <1>1 DEF Sound
  <2>4. QED
    BY <2>1, <2>2, <2>3 DEF LogTells
<1>7. Evolves(now, world, world', c)
  BY <1>3 DEF Evolves, world
<1>8. MayCall /\ PayOut("refund", c) /\ now' = now
  BY DEF Refund
<1>9. QED
  BY <1>1, <1>3, <1>4, <1>6, <1>7, <1>8, SettlingStep DEF Terminal

-----------------------------------------------------------------------------
(* The outsider's steps *)

\* What the invariant says of the stack below the last frame survives a step
\* that marks that frame as moved.
LEMMA SettleStep ==
    ASSUME IInv, TypeOK', stack # << >>, Settle, now' = now,
           escrows' = escrows, logs' = logs, WorldSound'
    PROVE  IInv'
<1>1. TypeOK /\ stack \in Seq(Frame) /\ Len(stack) \in 1..Len(stack) /\ Len(stack) \in Nat
      /\ Top = stack[Len(stack)] /\ Top \in Frame
  BY TopFrame DEF IInv, TypeOK
<1>2. /\ Len(stack') = Len(stack)
      /\ \A i \in 1..(Len(stack) - 1) : stack'[i] = stack[i]
      /\ stack'[Len(stack)] = [Top EXCEPT !.moved = TRUE]
  BY <1>1, SettleFrame
<1>3. /\ stack'[Len(stack)].moved
      /\ stack'[Len(stack)].op = stack[Len(stack)].op
      /\ stack'[Len(stack)].id = stack[Len(stack)].id
      /\ stack'[Len(stack)].saved = stack[Len(stack)].saved
  BY <1>1, <1>2 DEF Frame
<1>4. \A i \in 1..Len(stack) :
         /\ stack'[i].op = stack[i].op /\ stack'[i].id = stack[i].id
         /\ stack'[i].saved = stack[i].saved
         /\ ~stack'[i].moved => ~stack[i].moved
  <2>1. \A i \in 1..Len(stack) : i \in 1..(Len(stack) - 1) \/ i = Len(stack)
    BY <1>1
  <2>2. QED
    BY <1>2, <1>3, <2>1
<1>5. SavedSound'
  <2> SUFFICES ASSUME NEW i \in 1..Len(stack')
               PROVE  Sound(stack', i - 1, stack'[i].saved)
    BY DEF SavedSound
  <2>1. i - 1 \in Nat /\ \A j \in 1..(i - 1) : j \in 1..(Len(stack) - 1)
    BY <1>1, <1>2
  <2>2. Sound(stack, i - 1, stack[i].saved)
    BY <1>2 DEF IInv, SavedSound
  <2>3. Sound(stack', i - 1, stack[i].saved)
    BY <1>2, <2>1, <2>2, SamePrefix
  <2>4. QED
    BY <1>2, <1>4, <2>3
<1>6. OwedOnce'
  BY <1>2, <1>4 DEF IInv, OwedOnce
<1>7. Legal'
  <2>1. \A c \in Ids : Evolves(now, stack[1].saved, world, c) =>
                           Evolves(now, stack[1].saved, world', c)
    BY DEF Evolves, world
  <2>2. stack'[1].saved = stack[1].saved
    BY <1>1, <1>4
  <2>3. QED
    BY <1>2, <1>4, <2>1, <2>2 DEF IInv, Legal
<1>8. QED
  BY <1>5, <1>6, <1>7 DEF IInv

LEMMA MoveInStep ==
    ASSUME IInv, MoveIn
    PROVE  IInv'
<1>1. TypeOK' /\ Settle /\ stack # << >> /\ stack \in Seq(Frame)
  BY MoveInType DEF IInv, WorldSound, Sound, MoveIn, TypeOK
<1>2. /\ Len(stack') = Len(stack) /\ Len(stack) \in Nat \ {0}
      /\ \A i \in 1..(Len(stack) - 1) : stack'[i] = stack[i]
      /\ stack'[Len(stack)] = [Top EXCEPT !.moved = TRUE]
      /\ Top = stack[Len(stack)] /\ Top \in Frame
  BY <1>1, SettleFrame, TopFrame
<1>3. stack[Len(stack)].op = "lock"
  BY <1>2 DEF MoveIn
<1>4. /\ stack'[Len(stack)].op = "lock"
      /\ stack'[Len(stack)].id = stack[Len(stack)].id
  BY <1>2, <1>3 DEF Frame
<1>5. \A i : i \in 1..Len(stack) <=> i \in 1..(Len(stack) - 1) \/ i = Len(stack)
  BY <1>2
<1>6. \A c : Owing(stack', Len(stack), c) <=> Owing(stack, Len(stack), c)
  BY <1>2, <1>3, <1>4, <1>5 DEF Owing
<1>7. Sound(stack, Len(stack), world)
  BY DEF IInv, WorldSound
<1>8. PaidOrOwing(stack', Len(stack), world')
  BY <1>6, <1>7 DEF Sound, PaidOrOwing, world, MoveIn
<1>9. Funded(stack', Len(stack), world') /\ LogTells(world')
  <2>1. escrows' = escrows /\ logs' = logs
    BY DEF MoveIn
  <2>2. \A j \in 1..Len(stack) : stack'[j].id = stack[j].id
    BY <1>2, <1>4, <1>5
  <2>3. Funded(stack', Len(stack), world')
    BY <1>7, <2>1, <2>2 DEF Sound, Funded, world
  <2>4. QED
    BY <1>7, <2>1, <2>3 DEF Sound, LogTells, world
<1>10. WorldSound'
  BY <1>2, <1>8, <1>9 DEF WorldSound, Sound
<1>11. QED
  BY <1>1, <1>10, SettleStep DEF MoveIn

LEMMA MoveOutStep ==
    ASSUME IInv, MoveOut
    PROVE  IInv'
<1>1. TypeOK' /\ Settle /\ stack # << >> /\ stack \in Seq(Frame)
      /\ payouts \in [Ids -> Seq(Payout)]
  BY MoveOutType, WorldParts DEF IInv, MoveOut, TypeOK
<1>2. /\ Len(stack') = Len(stack) /\ Len(stack) \in Nat \ {0}
      /\ \A i \in 1..(Len(stack) - 1) : stack'[i] = stack[i]
      /\ stack'[Len(stack)] = [Top EXCEPT !.moved = TRUE]
      /\ Top = stack[Len(stack)] /\ Top \in Frame /\ Top.id \in Ids
  BY <1>1, SettleFrame, TopFrame
<1>3. Top.op # "lock" /\ ~Top.moved
  BY DEF MoveOut
<1>4. stack'[Len(stack)].moved /\ stack'[Len(stack)].id = Top.id
  BY <1>2 DEF Frame
<1>5. \A i : i \in 1..Len(stack) <=> i \in 1..(Len(stack) - 1) \/ i = Len(stack)
  BY <1>2
<1>6. ~Owing(stack', Len(stack), Top.id)
  <2> SUFFICES ASSUME NEW i \in 1..Len(stack), stack'[i].id = Top.id,
                      stack'[i].op # "lock", ~stack'[i].moved
               PROVE  FALSE
    BY DEF Owing
  <2>1. i \in 1..(Len(stack) - 1)
    BY <1>4, <1>5
  <2>2. stack'[i] = stack[i] /\ i < Len(stack) /\ Len(stack) \in 1..Len(stack)
    BY <1>2, <2>1
  <2>3. QED
    BY <1>2, <1>3, <2>2 DEF IInv, OwedOnce
<1>7. \A c \in Ids \ {Top.id} : Owing(stack', Len(stack), c) <=> Owing(stack, Len(stack), c)
  BY <1>2, <1>4, <1>5 DEF Owing
<1>8. Sound(stack, Len(stack), world) /\ Owing(stack, Len(stack), Top.id)
  BY <1>2, <1>3, <1>5 DEF IInv, WorldSound, Owing
<1>9. /\ payouts'[Top.id] = <<PayoutOf(escrows[Top.id])>>
      /\ \A c \in Ids \ {Top.id} : payouts'[c] = payouts[c]
  <2>1. payouts[Top.id] = << >>
    BY <1>2, <1>8 DEF Sound, PaidOrOwing, world
  <2>2. payouts' = [payouts EXCEPT ![Top.id] = Append(@, PayoutOf(escrows[Top.id]))]
    BY DEF MoveOut
  <2>3. QED
    BY <1>1, <1>2, <2>1, <2>2
<1>10. escrows[Top.id].status \in Terminal
  BY <1>2, <1>8 DEF Sound, PaidOrOwing, world
<1>11. PaidOrOwing(stack', Len(stack), world')
  BY <1>2, <1>6, <1>7, <1>8, <1>9, <1>10 DEF Sound, PaidOrOwing, world, MoveOut
<1>12. Funded(stack', Len(stack), world') /\ LogTells(world')
  <2>1. escrows' = escrows /\ logs' = logs
    BY DEF MoveOut
  <2>2. \A j \in 1..Len(stack) : stack'[j].id = stack[j].id
    BY <1>2, <1>4, <1>5
  <2>3. Funded(stack', Len(stack), world')
    BY <1>8, <2>1, <2>2 DEF Sound, Funded, world
  <2>4. QED
    BY <1>8, <2>1, <2>3 DEF Sound, LogTells, world
<1>13. WorldSound'
  BY <1>2, <1>11, <1>12 DEF WorldSound, Sound
<1>14. QED
  BY <1>1, <1>13, SettleStep DEF MoveOut

\* The stack without its last frame keeps what was said of it, whatever the
\* call left behind or was reverted to.
LEMMA PopStep ==
    ASSUME IInv, TypeOK', stack # << >>, stack' = Pop, now' = now,
           Sound(Pop, Len(stack) - 1, world'),
           \A c \in Ids : Evolves(now, stack[1].saved, world', c)
    PROVE  IInv'
<1>1. /\ Len(stack) \in Nat \ {0}
      /\ Len(stack') = Len(stack) - 1
      /\ \A i \in 1..(Len(stack) - 1) : stack'[i] = stack[i]
  BY TopFrame DEF IInv, TypeOK
<1>2. \A i \in 1..Len(stack') : i \in 1..Len(stack) /\ stack'[i] = stack[i]
  BY <1>1
<1>3. SavedSound'
  <2> SUFFICES ASSUME NEW i \in 1..Len(stack')
               PROVE  Sound(stack', i - 1, stack'[i].saved)
    BY DEF SavedSound
  <2>1. i - 1 \in Nat /\ \A j \in 1..(i - 1) : j \in 1..Len(stack')
    BY <1>1
  <2>2. Sound(stack, i - 1, stack[i].saved)
    BY <1>2 DEF IInv, SavedSound
  <2>3. Sound(stack', i - 1, stack[i].saved)
    BY <1>2, <2>1, <2>2, SamePrefix
  <2>4. QED
    BY <1>2, <2>3
<1>4. WorldSound'
  BY <1>1 DEF WorldSound
<1>5. OwedOnce'
  BY <1>2 DEF IInv, OwedOnce
<1>6. Legal'
  <2> SUFFICES ASSUME stack' # << >>
               PROVE  Legal'
    BY DEF Legal
  <2>1. stack' \in Seq(Frame)
    BY DEF TypeOK
  <2>2. 1 \in 1..Len(stack')
    BY <2>1, EmptySeq
  <2>3. stack'[1] = stack[1]
    BY <1>2, <2>2
  <2>4. QED
    BY <1>2, <2>3 DEF IInv, Legal
<1>7. QED
  BY <1>3, <1>4, <1>5, <1>6 DEF IInv

LEMMA ReturnStep ==
    ASSUME IInv, Return
    PROVE  IInv'
<1>1. /\ TypeOK' /\ stack # << >> /\ stack' = Pop /\ now' = now /\ world' = world
      /\ stack[Len(stack)].moved
  BY ReturnType DEF IInv, Return, world, Top
<1>2. /\ Len(stack) \in Nat \ {0}
      /\ \A i \in 1..(Len(stack) - 1) : stack[i] = Pop[i]
  BY <1>1, TopFrame DEF IInv, TypeOK
<1>3. Sound(stack, Len(stack), world)
  BY DEF IInv, WorldSound
<1>4. Sound(Pop, Len(stack) - 1, world)
  BY <1>1, <1>2, <1>3, SoundBelow
<1>5. \A c \in Ids : Evolves(now, stack[1].saved, world, c)
  BY <1>1 DEF IInv, Legal
<1>6. QED
  BY <1>1, <1>4, <1>5, PopStep

LEMMA RevertStep ==
    ASSUME IInv, Revert
    PROVE  IInv'
<1>1. TypeOK' /\ TypeOK /\ stack # << >> /\ stack' = Pop /\ now' = now
  BY RevertType DEF IInv, Revert
<1>2. /\ Len(stack) \in Nat \ {0} /\ Len(stack) \in 1..Len(stack)
      /\ \A i \in 1..(Len(stack) - 1) : Pop[i] = stack[i]
      /\ Top = stack[Len(stack)] /\ Top \in Frame
  BY <1>1, TopFrame DEF TypeOK
<1>3. world' = stack[Len(stack)].saved
  <2>1. Top.saved \in World
    BY <1>2 DEF Frame
  <2>2. Top.saved = [escrows |-> Top.saved.escrows, balance |-> Top.saved.balance,
                     payouts |-> Top.saved.payouts, logs |-> Top.saved.logs]
    BY <2>1 DEF World
  <2>3. QED
    BY <1>2, <2>2 DEF Revert, world
<1>4. Sound(stack, Len(stack) - 1, world')
  BY <1>2, <1>3 DEF IInv, SavedSound
<1>5. Sound(Pop, Len(stack) - 1, world')
  <2>1. Len(stack) - 1 \in Nat /\ \A i \in 1..(Len(stack) - 1) : stack[i] = Pop[i]
    BY <1>2
  <2>2. QED
    BY <1>4, <2>1, SamePrefix
<1>6. \A c \in Ids : Evolves(now, stack[1].saved, world', c)
  BY <1>1, <1>2, <1>3 DEF IInv, Legal
<1>7. QED
  BY <1>1, <1>5, <1>6, PopStep

\* Steps that touch neither the escrows nor the stack.
LEMMA DonateStep ==
    ASSUME IInv, NEW t \in Tokens, Donate(t)
    PROVE  IInv'
<1>1. /\ TypeOK' /\ stack' = stack /\ now' = now /\ escrows' = escrows
      /\ payouts' = payouts /\ logs' = logs
  BY DonateType DEF IInv, Donate
<1>2. WorldSound'
  BY <1>1 DEF IInv, WorldSound, Sound, PaidOrOwing, Funded, LogTells, world
<1>3. SavedSound' /\ OwedOnce'
  BY <1>1 DEF IInv, SavedSound, OwedOnce
<1>4. Legal'
  <2>1. \A w, c : Evolves(now, w, world, c) => Evolves(now, w, world', c)
    BY <1>1 DEF Evolves, world
  <2>2. QED
    BY <1>1, <2>1 DEF IInv, Legal
<1>5. QED
  BY <1>1, <1>2, <1>3, <1>4 DEF IInv

LEMMA TickStep ==
    ASSUME IInv, Tick
    PROVE  IInv'
<1>1. /\ stack' = stack /\ stack = << >> /\ now' = now + 1 /\ world' = world
  BY DEF Tick, world
<1>2. TypeOK'
  BY <1>1 DEF IInv, TypeOK
<1>3. QED
  BY <1>1, <1>2 DEF IInv, WorldSound, SavedSound, OwedOnce, Legal

LEMMA InitInv ==
    ASSUME Init
    PROVE  IInv
<1>1. NoEscrow \in Escrow
  BY DEF NoEscrow, Escrow, Tokens, EscrowStatus
<1>2. escrows \in [Ids -> Escrow] /\ balance \in [Tokens -> Nat]
      /\ payouts \in [Ids -> Seq(Payout)] /\ logs \in [Ids -> Seq(Event)]
  BY <1>1 DEF Init
<1>3. Len(stack) = 0 /\ stack \in Seq(Frame) /\ stack = << >>
  BY DEF Init
<1>4. TypeOK
  BY <1>2, <1>3, HtlcAssumption DEF TypeOK, Init, World, world
<1>5. \A c \in Ids : escrows[c].status = "None" /\ payouts[c] = << >> /\ logs[c] = << >>
  BY DEF Init, NoEscrow
<1>6. WorldSound
  BY <1>3, <1>5 DEF WorldSound, Sound, PaidOrOwing, Owing, Funded, LogTells, world, Terminal
<1>7. SavedSound /\ OwedOnce /\ Legal
  BY <1>3 DEF SavedSound, OwedOnce, Legal
<1>8. QED
  BY <1>4, <1>6, <1>7 DEF IInv

LEMMA NextInv ==
    ASSUME IInv, [Next]_vars
    PROVE  IInv'
<1>1. CASE LockAny
  BY <1>1, LockStep
<1>2. ASSUME NEW c \in Ids, NEW s \in Secrets, Claim(c, s)
      PROVE  IInv'
  BY <1>2, ClaimStep
<1>3. ASSUME NEW c \in Ids, Refund(c)
      PROVE  IInv'
  BY <1>3, RefundStep
<1>4. CASE MoveIn
  BY <1>4, MoveInStep
<1>5. CASE MoveOut
  BY <1>5, MoveOutStep
<1>6. CASE Return
  BY <1>6, ReturnStep
<1>7. CASE Revert
  BY <1>7, RevertStep
<1>8. ASSUME NEW t \in Tokens, Donate(t)
      PROVE  IInv'
  BY <1>8, DonateStep
<1>9. CASE Tick
  BY <1>9, TickStep
<1>10. CASE UNCHANGED vars
  <2>1. world' = world /\ stack' = stack /\ now' = now
    BY <1>10 DEF vars, world
  <2>2. TypeOK'
    BY <2>1 DEF IInv, TypeOK
  <2>3. QED
    BY <2>1, <2>2 DEF IInv, WorldSound, SavedSound, OwedOnce, Legal
<1>11. QED
  BY <1>1, <1>2, <1>3, <1>4, <1>5, <1>6, <1>7, <1>8, <1>9, <1>10 DEF Next

LEMMA Invariant == Spec => []IInv
<1>1. Init => IInv
  BY InitInv
<1>2. IInv /\ [Next]_vars => IInv'
  BY NextInv
<1>3. QED
  BY <1>1, <1>2, PTL DEF Spec

-----------------------------------------------------------------------------
(* Theorems *)

\* The state of the contract always has its types and the stack its bound.
THEOREM TypeCorrect == Spec => []TypeOK
<1>1. IInv => TypeOK
  BY DEF IInv
<1>2. QED
  BY <1>1, Invariant, PTL

\* The committed state is sound with nothing pending.
CommittedOK == /\ committed \in World
               /\ PaidExactly(committed)
               /\ LogTells(committed)

LEMMA CommittedSound ==
    ASSUME IInv
    PROVE  CommittedOK
<1>1. \A s, c : ~Owing(s, 0, c)
  BY DEF Owing
<1>2. committed \in World /\ Sound(stack, 0, committed)
  <2>1. CASE stack = << >>
    BY <2>1 DEF IInv, WorldSound, committed, TypeOK
  <2>2. CASE stack # << >>
    <3>1. 1 \in 1..Len(stack) /\ 1 - 1 = 0
      BY <2>2, EmptySeq DEF IInv, TypeOK
    <3>2. stack[1].saved \in World /\ Sound(stack, 1 - 1, stack[1].saved)
      BY <3>1, SavedTypes DEF IInv, SavedSound
    <3>3. QED
      BY <2>2, <3>1, <3>2 DEF committed
  <2>3. QED
    BY <2>1, <2>2
<1>3. QED
  BY <1>1, <1>2 DEF Sound, PaidOrOwing, PaidExactly, CommittedOK

\* Each settled escrow is paid out once, in full, to the right party, in every
\* interleaving of nested calls, callbacks and reverts.
THEOREM PaidOnceAlways == Spec => []PaidOnce
<1>1. IInv => PaidOnce
  BY CommittedSound DEF PaidOnce, CommittedOK
<1>2. QED
  BY <1>1, Invariant, PTL

\* The events of an id always agree with its status, and a Claimed event always
\* carries a secret that opens the hashlock.
THEOREM LogTellsAlways == Spec => []LogTellsStatus
<1>1. IInv => LogTellsStatus
  BY CommittedSound DEF LogTellsStatus, CommittedOK
<1>2. QED
  BY <1>1, Invariant, PTL

\* What a step does to the committed state is one transaction, and time only
\* moves between transactions.
LEMMA CommittedStep ==
    ASSUME IInv, IInv', [Next]_vars
    PROVE  \/ now' = now /\ \A c \in Ids : Evolves(now, committed, committed', c)
           \/ now' = now + 1 /\ committed' = committed
<1>1. /\ TypeOK /\ TypeOK' /\ Len(stack) \in Nat /\ Len(stack') \in Nat
      /\ stack # << >> => 1 \in 1..Len(stack)
      /\ stack' # << >> => 1 \in 1..Len(stack')
  BY EmptySeq DEF IInv, TypeOK
<1>2. CASE Tick
  BY <1>2 DEF Tick, committed, world
<1>3. CASE UNCHANGED vars
  BY <1>3 DEF vars, committed, world, Evolves
<1>4. ASSUME now' = now, stack # << >>, stack' # << >>, stack'[1].saved = stack[1].saved
      PROVE  \A c \in Ids : Evolves(now, committed, committed', c)
  BY <1>4 DEF committed, Evolves
<1>5. ASSUME now' = now, NEW op \in {"lock", "claim", "refund"}, NEW c \in Ids,
             NEW moved \in BOOLEAN, NEW before \in Nat, MayCall, Push(op, c, moved, before)
      PROVE  \A d \in Ids : Evolves(now, committed, committed', d)
  <2>1. /\ Len(stack') = Len(stack) + 1
        /\ \A i \in 1..Len(stack) : stack'[i] = stack[i]
        /\ stack'[Len(stack) + 1].saved = world
    BY <1>1, <1>5, PushFrame
  <2>2. stack' # << >>
    BY <1>1, <2>1
  <2>3. CASE stack = << >>
    <3>1. Len(stack) + 1 = 1
      BY <2>3
    <3>2. committed' = committed
      BY <2>1, <2>2, <2>3, <3>1 DEF committed
    <3>3. QED
      BY <3>2 DEF Evolves
  <2>4. CASE stack # << >>
    BY <1>1, <1>4, <1>5, <2>1, <2>2, <2>4
  <2>5. QED
    BY <2>3, <2>4
<1>6. CASE LockAny
  <2> PICK c \in Ids, sender \in Addresses, payee \in Addresses \cup {ZeroAddress},
           token \in Tokens, amount \in Amounts, value \in Amounts \cup {0},
           hashlock \in Digests, t \in Timestamps :
           Lock(c, sender, payee, token, amount, hashlock, t, value)
    BY <1>6 DEF LockAny
  <2>1. now' = now /\ MayCall
    BY DEF Lock
  <2>2. CASE token = Native
    <3>1. stack' = stack
      BY <2>2 DEF Lock
    <3>2. CASE stack = << >>
      BY <1>1, <1>6, <2>1, <3>1, <3>2, LockEvolves DEF committed
    <3>3. CASE stack # << >>
      BY <1>4, <2>1, <3>1, <3>3
    <3>4. QED
      BY <3>2, <3>3
  <2>3. CASE token # Native
    <3>1. Push("lock", c, FALSE, balance[token])
      BY <2>3 DEF Lock
    <3>2. balance[token] \in Nat
      BY <1>1, WorldParts DEF TypeOK
    <3>3. QED
      BY <1>5, <2>1, <3>1, <3>2
  <2>4. QED
    BY <2>2, <2>3
<1>7. ASSUME NEW c \in Ids, NEW s \in Secrets, Claim(c, s)
      PROVE  now' = now /\ \A d \in Ids : Evolves(now, committed, committed', d)
  <2>1. now' = now /\ MayCall /\ \E moved \in BOOLEAN : Push("claim", c, moved, 0)
    BY <1>7 DEF Claim, PayOut
  <2>2. QED
    BY <1>5, <2>1
<1>8. ASSUME NEW c \in Ids, Refund(c)
      PROVE  now' = now /\ \A d \in Ids : Evolves(now, committed, committed', d)
  <2>1. now' = now /\ MayCall /\ \E moved \in BOOLEAN : Push("refund", c, moved, 0)
    BY <1>8 DEF Refund, PayOut
  <2>2. QED
    BY <1>5, <2>1
<1>9. CASE MoveIn \/ MoveOut
  <2>1. now' = now /\ stack # << >> /\ Settle /\ stack \in Seq(Frame)
    BY <1>1, <1>9 DEF MoveIn, MoveOut, TypeOK
  <2>2. /\ Len(stack') = Len(stack) /\ Len(stack) \in Nat \ {0}
        /\ \A i \in 1..(Len(stack) - 1) : stack'[i] = stack[i]
        /\ stack'[Len(stack)] = [stack[Len(stack)] EXCEPT !.moved = TRUE]
        /\ stack[Len(stack)] \in Frame
    BY <2>1, SettleFrame, TopFrame
  <2>3. stack'[Len(stack)].saved = stack[Len(stack)].saved
    BY <2>2 DEF Frame
  <2>4. stack'[1].saved = stack[1].saved
    <3>1. CASE Len(stack) = 1
      BY <2>3, <3>1
    <3>2. CASE Len(stack) # 1
      <4>1. 1 \in 1..(Len(stack) - 1)
        BY <2>2, <3>2
      <4>2. QED
        BY <2>2, <4>1
    <3>3. QED
      BY <3>1, <3>2
  <2>5. stack' # << >>
    BY <2>2
  <2>6. QED
    BY <1>4, <2>1, <2>4, <2>5
<1>10. CASE Return \/ Revert
  <2>1. /\ now' = now /\ stack # << >> /\ stack' = Pop /\ stack \in Seq(Frame)
    BY <1>1, <1>10 DEF Return, Revert, TypeOK
  <2>2. /\ Len(stack') = Len(stack) - 1 /\ Len(stack) \in Nat \ {0}
        /\ \A i \in 1..(Len(stack) - 1) : stack'[i] = stack[i]
    BY <2>1, TopFrame
  <2>3. CASE stack' # << >>
    <3>1. stack'[1] = stack[1]
      BY <1>1, <2>2, <2>3
    <3>2. QED
      BY <1>4, <2>1, <2>3, <3>1
  <2>4. CASE stack' = << >>
    <3>0. Len(stack') = 0
      BY <2>4
    <3>1. Len(stack) = 1 /\ Top = stack[1]
      <4>1. PICK n \in Nat \ {0} : n = Len(stack)
        BY <2>2
      <4>2. n - 1 = 0
        BY <2>2, <3>0, <4>1
      <4>3. n = 1
        BY <4>2
      <4>4. QED
        BY <4>1, <4>3 DEF Top
    <3>2. /\ \A c \in Ids : Evolves(now, stack[1].saved, world, c)
          /\ \A c \in Ids : Evolves(now, stack[1].saved, stack[1].saved, c)
      BY <2>1 DEF IInv, Legal, Evolves
    <3>3. ASSUME Return
          PROVE  \A c \in Ids : Evolves(now, stack[1].saved, world', c)
      <4>1. world' = world
        BY <3>3 DEF Return, world
      <4>2. QED
        BY <3>2, <4>1
    <3>6. ASSUME Revert
          PROVE  \A c \in Ids : Evolves(now, stack[1].saved, world', c)
      <4>1. world'.escrows = stack[1].saved.escrows /\ world'.logs = stack[1].saved.logs
        BY <3>1, <3>6 DEF Revert, world
      <4>2. QED
        BY <4>1 DEF Evolves
    <3>4. \A c \in Ids : Evolves(now, stack[1].saved, world', c)
      BY <1>10, <3>3, <3>6
    <3>5. QED
      BY <2>1, <2>4, <3>4 DEF committed
  <2>5. QED
    BY <2>3, <2>4
<1>11. ASSUME NEW t \in Tokens, Donate(t)
       PROVE  now' = now /\ \A d \in Ids : Evolves(now, committed, committed', d)
  BY <1>11 DEF Donate, committed, world, Evolves
<1>12. QED
  BY <1>2, <1>3, <1>6, <1>7, <1>8, <1>9, <1>10, <1>11 DEF Next

\* Once a settlement is on the chain no later step, in whatever nesting of
\* calls, changes the escrow.
THEOREM SettledIsFinal == Spec => SettledForever
<1>1. ASSUME IInv, IInv', [Next]_vars, NEW c \in Ids, committed.escrows[c].status \in Terminal
      PROVE  committed'.escrows[c] = committed.escrows[c]
  <2>1. CASE committed' = committed
    BY <2>1
  <2>2. CASE Evolves(now, committed, committed', c)
    BY <1>1, <2>2 DEF Evolves, Terminal
  <2>3. QED
    BY <1>1, <2>1, <2>2, CommittedStep
<1>2. IInv /\ IInv' /\ [Next]_vars =>
        [\A c \in Ids : committed.escrows[c].status \in Terminal
            => committed'.escrows[c] = committed.escrows[c]]_vars
  BY <1>1
<1>3. QED
  BY <1>2, Invariant, PTL DEF Spec, SettledForever

\* The contract, with its callbacks and reverts, keeps what it promises: seen
\* from outside it locks once, claims before the deadline with the secret or
\* refunds at or after it, and pays with the status.
THEOREM KeepsPromise == Spec => Promise
<1>0. /\ Promised!NoEscrow = NoEscrow
      /\ Promised!LockedEvent = LockedEvent /\ Promised!RefundedEvent = RefundedEvent
      /\ \A s : Promised!ClaimedEvent(s) = ClaimedEvent(s)
      /\ \A e : Promised!PayoutOf(e) = PayoutOf(e)
      /\ \A s, h : Promised!Opens(s, h) <=> Opens(s, h)
  BY DEF Promised!NoEscrow, NoEscrow, Promised!LockedEvent, LockedEvent,
         Promised!RefundedEvent, RefundedEvent, Promised!ClaimedEvent, ClaimedEvent,
         Promised!PayoutOf, PayoutOf, Promised!Recipient, Recipient, Promised!Opens, Opens
<1>1. Init => Promised!SInit
  <2> SUFFICES ASSUME Init
               PROVE  Promised!SInit
    OBVIOUS
  <2>1. committed = world /\ now \in Nat
    BY DEF Init, committed
  <2>2. QED
    BY <1>0, <2>1 DEF Promised!SInit, world, Init
<1>2. ASSUME IInv, IInv', CommittedOK, CommittedOK', [Next]_vars
      PROVE  [Promised!SNext]_(Promised!sVars)
  <2>1. /\ PaidExactly(committed) /\ PaidExactly(committed')
        /\ LogTells(committed) /\ LogTells(committed')
        /\ committed \in World /\ committed' \in World
    BY <1>2 DEF CommittedOK
  <2>2. CASE now' = now + 1 /\ committed' = committed
    <3>1. now' \in Nat /\ now' > now
      BY <1>2, <2>2 DEF IInv, TypeOK
    <3>2. QED
      BY <2>2, <3>1 DEF Promised!SNext, Promised!Elapse
  <2>3. CASE now' = now /\ \A c \in Ids : Evolves(now, committed, committed', c)
    <3>1. ASSUME NEW c \in Ids
          PROVE  \/ Promised!Unmoved(c) \/ Promised!SLock(c) \/ Promised!SFlashClaim(c)
                 \/ Promised!SClaim(c) \/ Promised!SRefund(c)
      <4> DEFINE w == committed
                 v == committed'
      <4>1. /\ w.escrows[c] \in Escrow /\ v.escrows[c] \in Escrow
            /\ w.payouts[c] = IF w.escrows[c].status \in Terminal
                              THEN <<PayoutOf(w.escrows[c])>> ELSE << >>
            /\ v.payouts[c] = IF v.escrows[c].status \in Terminal
                              THEN <<PayoutOf(v.escrows[c])>> ELSE << >>
        BY <2>1 DEF PaidExactly, World
      <4>2. /\ v.escrows[c].status = "Locked" => v.logs[c] = <<LockedEvent>>
            /\ v.escrows[c].status = "Refunded" => v.logs[c] = <<LockedEvent, RefundedEvent>>
            /\ v.escrows[c].status = "Claimed" =>
                  \E s \in Secrets : /\ Opens(s, v.escrows[c].hashlock)
                                    /\ v.logs[c] = <<LockedEvent, ClaimedEvent(s)>>
        BY <2>1 DEF LogTells
      <4>3. CASE v.escrows[c] = w.escrows[c] /\ v.logs[c] = w.logs[c]
        BY <4>1, <4>3 DEF Promised!Unmoved
      <4>4. CASE /\ w.escrows[c].status = "None"
                 /\ v.escrows[c].status \in {"Locked", "Claimed"}
                 /\ now < v.escrows[c].refundTimestamp
                 /\ v.escrows[c].amount > 0
                 /\ v.escrows[c].payee # ZeroAddress
        <5>1. Promised!Opened(c)
          BY <1>2, <4>1, <4>4 DEF Promised!Opened, IInv, TypeOK, Escrow
        <5>2. CASE v.escrows[c].status = "Locked"
          BY <1>0, <4>1, <4>2, <5>1, <5>2 DEF Promised!SLock, Terminal
        <5>3. CASE v.escrows[c].status = "Claimed"
          BY <1>0, <4>1, <4>2, <5>1, <5>3 DEF Promised!SFlashClaim, Promised!Paid, Promised!Revealed, Terminal
        <5>4. QED
          BY <4>4, <5>2, <5>3
      <4>5. CASE /\ w.escrows[c].status = "Locked"
                 /\ now < w.escrows[c].refundTimestamp
                 /\ v.escrows[c] = [w.escrows[c] EXCEPT !.status = "Claimed"]
        <5>1. v.escrows[c].status = "Claimed"
          BY <4>1, <4>5 DEF Escrow
        <5>2. QED
          BY <1>0, <4>1, <4>2, <4>5, <5>1 DEF Promised!SClaim, Promised!Paid, Promised!Revealed, Terminal
      <4>6. CASE /\ w.escrows[c].status = "Locked"
                 /\ now >= w.escrows[c].refundTimestamp
                 /\ v.escrows[c] = [w.escrows[c] EXCEPT !.status = "Refunded"]
        <5>1. v.escrows[c].status = "Refunded"
          BY <4>1, <4>6 DEF Escrow
        <5>2. QED
          BY <1>0, <4>1, <4>2, <4>6, <5>1 DEF Promised!SRefund, Promised!Paid, Terminal
      <4>7. QED
        BY <2>3, <4>3, <4>4, <4>5, <4>6 DEF Evolves
    <3>2. QED
      BY <2>3, <3>1 DEF Promised!SNext, Promised!Transact
  <2>4. QED
    BY <1>2, <2>2, <2>3, CommittedStep
<1>3. IInv => CommittedOK
  BY CommittedSound
<1>4. QED
  BY <1>1, <1>2, <1>3, Invariant, PTL DEF Spec, Promise, Promised!SSpec
-----------------------------------------------------------------------------
(* Solvency: the contract can always pay everybody, for every finite set of  *)
(* ids and every nesting of calls.  The invariant balances the books of a    *)
(* pending transaction: of each token the contract holds at least what is    *)
(* locked, and what pending claims and refunds have still to pay out, less   *)
(* what pending locks have still to bring in; and so does every state the    *)
(* transaction may be reverted to.  A lock of a token that keeps part of a   *)
(* transfer leaves the books short, and can only be reverted: nothing else   *)
(* runs before its balance check.                                            *)

Locking(s, n, c) == \E j \in 1..n : s[j].id = c /\ s[j].op = "lock"

\* What the pending lock of c has still to bring in, or will never bring in.
Awaited(s, n, e, c) ==
    IF \E j \in 1..n : s[j].id = c /\ s[j].op = "lock" /\ ~s[j].moved THEN e.amount
    ELSE IF e.token \in SkimTokens /\ Locking(s, n, c) THEN 1
    ELSE 0

\* What c takes from the contract's holding of t once the first n frames of s
\* are done, in the state w reached with them pending.
Claims(s, n, w, t, c) ==
    LET e == w.escrows[c] IN
    IF e.token # t THEN 0
    ELSE (IF e.status = "Locked" \/ Owing(s, n, c) THEN e.amount ELSE 0) - Awaited(s, n, e, c)

\* The same frames are about c among the first n of s and the first m of r.
SameFrames(s, n, r, m, c) ==
    /\ \A j \in 1..n : s[j].id = c => j \in 1..m /\ r[j] = s[j]
    /\ \A j \in 1..m : r[j].id = c => j \in 1..n /\ r[j] = s[j]

Owed(s, n, w, t) == SumFunction([c \in Ids |-> Claims(s, n, w, t, c)])

Covered(s, n, w) == \A t \in Tokens : w.balance[t] >= Owed(s, n, w, t)

\* None of the first n frames is about a token that keeps part of a transfer.
Exact(s, n, w) == \A j \in 1..n : w.escrows[s[j].id].token \notin SkimTokens

SavedCovered == \A i \in 1..Len(stack) : /\ Covered(stack, i - 1, stack[i].saved)
                                         /\ Exact(stack, i - 1, stack[i].saved)

WorldCovered == Covered(stack, Len(stack), world) /\ Exact(stack, Len(stack) - 1, world)

\* No frame is about an id that a later frame locks.
LockedFresh == \A i, j \in 1..Len(stack) :
                  i < j /\ stack[j].op = "lock" => stack[i].id # stack[j].id

\* Nothing but the token itself has touched a balance lock() compares with
\* balanceBefore, if the token keeps part of a transfer.
ShortMoved == LET e == escrows[Top.id] IN
              (stack # << >> /\ Top.op = "lock" /\ e.token \in SkimTokens) =>
                 balance[e.token] = Top.before + (IF Top.moved THEN e.amount - 1 ELSE 0)

Books == SavedCovered /\ WorldCovered /\ LockedFresh /\ ShortMoved

-----------------------------------------------------------------------------
(* Finite sums.  An induction over sets is an argument about the smallest  *)
(* set for which the claim fails.                                          *)

\* A non-empty set of naturals has a least element.
LEMMA Least ==
    ASSUME NEW T, T \subseteq Nat, T # {}
    PROVE  \E x \in T : \A y \in T : x <= y
<1> DEFINE R == OpToRel(<, Nat)
<1>1. \A x, y \in Nat : x < y => <<x, y>> \in R
  BY DEF OpToRel
<1>2. IsWellFoundedOn(R, Nat)
  BY NatLessThanWellFounded
<1> HIDE DEF R
<1>3. \E x \in T : \A y \in T : ~ (<<y, x>> \in R)
  BY <1>2, WFMin
<1>4. PICK x \in T : \A y \in T : ~ (<<y, x>> \in R)
  BY <1>3
<1>5. ASSUME NEW y \in T
      PROVE  x <= y
  <2>1. x \in Nat /\ y \in Nat /\ ~(y < x)
    BY <1>1, <1>4
  <2>2. QED
    BY <2>1
<1>6. QED
  BY <1>5

\* Among sets of subsets of a finite set there is one none of whose own
\* subsets without one element is.
LEMMA Smallest ==
    ASSUME NEW S, IsFiniteSet(S), NEW B, B \subseteq SUBSET S, B # {}
    PROVE  \E s \in B : \A x \in s : s \ {x} \notin B
<1> DEFINE T == {Cardinality(s) : s \in B}
<1>1. \A s \in B : IsFiniteSet(s) /\ Cardinality(s) \in Nat
  BY FS_Subset, FS_CardinalityType
<1>2. T \subseteq Nat /\ T # {}
  BY <1>1
<1>3. PICK n \in T : \A m \in T : n <= m
  <2> HIDE DEF T
  <2> QED
    BY <1>2, Least
<1>4. PICK s \in B : n = Cardinality(s)
  BY <1>3
<1>5. ASSUME NEW x \in s, s \ {x} \in B
      PROVE  FALSE
  <2>1. Cardinality(s \ {x}) = Cardinality(s) - 1 /\ Cardinality(s) \in Nat
    BY <1>1, FS_RemoveElement
  <2>2. Cardinality(s) <= Cardinality(s \ {x})
    BY <1>3, <1>4, <1>5
  <2>3. QED
    BY <2>1, <2>2
<1>6. QED
  BY <1>5

Some(s) == CHOOSE x \in s : TRUE

\* The partial sums of f that SumFunction computes.
IsPartial(it, f, D) ==
    it = [s \in D |-> IF s = {} THEN 0 ELSE f[Some(s)] + it[s \ {Some(s)}]]

Partial(f) == CHOOSE it : IsPartial(it, f, SUBSET DOMAIN f)

LEMMA SumIsPartial ==
    ASSUME NEW f
    PROVE  SumFunction(f) = Partial(f)[DOMAIN f]
BY DEF SumFunction, SumFunctionOnSet, FoldFunctionOnSet, MapThenFoldSet,
       Partial, IsPartial, Some

LEMMA SomeIn == ASSUME NEW s, s # {} PROVE Some(s) \in s
BY DEF Some

\* They exist.
LEMMA PartialExists ==
    ASSUME NEW S, IsFiniteSet(S), NEW f \in [S -> Int]
    PROVE  IsPartial(Partial(f), f, SUBSET S)
<1> DEFINE Upto(n) == {s \in SUBSET S : Cardinality(s) <= n}
           Bad == {n \in Nat : ~\E it : IsPartial(it, f, Upto(n))}
<1>0. \A s \in SUBSET S : IsFiniteSet(s) /\ Cardinality(s) \in Nat
  BY FS_Subset, FS_CardinalityType
<1>1. Bad = {}
  <2> SUFFICES ASSUME Bad # {}
               PROVE  FALSE
    OBVIOUS
  <2>1. PICK n \in Bad : \A m \in Bad : n <= m
    <3>1. Bad \subseteq Nat
      OBVIOUS
    <3> HIDE DEF Bad
    <3> QED
      BY <3>1, Least
  <2>2. CASE n = 0
    <3>1. \A s \in Upto(0) : s = {}
      BY <1>0, FS_EmptySet
    <3>2. IsPartial([s \in Upto(0) |-> 0], f, Upto(0))
      BY <3>1 DEF IsPartial
    <3>3. QED
      BY <2>1, <2>2, <3>2
  <2>3. CASE n # 0
    <3>0. n \in Nat /\ n - 1 \in Nat /\ ~(n <= n - 1)
      BY <2>1, <2>3
    <3>1. n - 1 \notin Bad
      <4> HIDE DEF Bad
      <4> QED
        BY <2>1, <3>0
    <3>2. PICK it : IsPartial(it, f, Upto(n - 1))
      BY <3>0, <3>1
    <3> DEFINE more == [s \in Upto(n) |-> IF s = {} THEN 0
                                          ELSE f[Some(s)] + it[s \ {Some(s)}]]
    <3>3. ASSUME NEW s \in Upto(n), s # {}
          PROVE  more[s \ {Some(s)}] = it[s \ {Some(s)}]
      <4> DEFINE t == s \ {Some(s)}
      <4>1. Cardinality(t) = Cardinality(s) - 1
        BY <1>0, <3>3, SomeIn, FS_RemoveElement
      <4>2. t \in Upto(n - 1) /\ t \in Upto(n)
        BY <1>0, <3>0, <4>1
      <4>3. it[t] = IF t = {} THEN 0 ELSE f[Some(t)] + it[t \ {Some(t)}]
        <5> HIDE DEF t
        <5> QED
          BY <3>2, <4>2 DEF IsPartial
      <4>4. more[t] = IF t = {} THEN 0 ELSE f[Some(t)] + it[t \ {Some(t)}]
        <5> HIDE DEF t
        <5> QED
          BY <4>2
      <4>5. QED
        BY <4>3, <4>4
    <3>4. IsPartial(more, f, Upto(n))
      BY <3>3 DEF IsPartial
    <3>5. QED
      BY <2>1, <3>4
  <2>4. QED
    BY <2>2, <2>3
<1>2. Cardinality(S) \in Nat
  BY FS_CardinalityType
<1>3. Upto(Cardinality(S)) = SUBSET S
  BY FS_Subset
<1>4. \E it : IsPartial(it, f, SUBSET S)
  BY <1>1, <1>2, <1>3
<1>5. DOMAIN f = S
  OBVIOUS
<1>6. QED
  BY <1>4, <1>5 DEF Partial

LEMMA PartialSteps ==
    ASSUME NEW S, IsFiniteSet(S), NEW f \in [S -> Int]
    PROVE  /\ Partial(f)[{}] = 0
           /\ \A s \in SUBSET S : s # {} =>
                 Partial(f)[s] = f[Some(s)] + Partial(f)[s \ {Some(s)}]
<1>1. IsPartial(Partial(f), f, SUBSET S)
  BY PartialExists
<1>2. QED
  BY <1>1 DEF IsPartial

LEMMA PartialType ==
    ASSUME NEW S, IsFiniteSet(S), NEW f \in [S -> Int]
    PROVE  \A s \in SUBSET S : Partial(f)[s] \in Int
<1> DEFINE B == {s \in SUBSET S : Partial(f)[s] \notin Int}
<1>1. ASSUME B # {}
      PROVE  FALSE
  <2>1. PICK s \in B : \A x \in s : s \ {x} \notin B
    <3>1. B \subseteq SUBSET S
      OBVIOUS
    <3> HIDE DEF B
    <3> QED
      BY <1>1, <3>1, Smallest
  <2>2. s # {}
    <3>1. Partial(f)[{}] \in Int
      BY PartialSteps
    <3>2. QED
      BY <2>1, <3>1
  <2>3. Some(s) \in s /\ f[Some(s)] \in Int
    BY <2>2, SomeIn
  <2>4. Partial(f)[s \ {Some(s)}] \in Int
    BY <2>1, <2>3
  <2>5. QED
    BY <2>1, <2>2, <2>3, <2>4, PartialSteps
<1>2. QED
  BY <1>1

\* Any element may be taken out first.
LEMMA PartialAny ==
    ASSUME NEW S, IsFiniteSet(S), NEW f \in [S -> Int]
    PROVE  \A s \in SUBSET S : \A x \in s :
              Partial(f)[s] = f[x] + Partial(f)[s \ {x}]
<1> DEFINE P(s) == \A x \in s : Partial(f)[s] = f[x] + Partial(f)[s \ {x}]
           B == {s \in SUBSET S : ~P(s)}
<1>1. ASSUME B # {}
      PROVE  FALSE
  <2>1. PICK s \in B : \A x \in s : s \ {x} \notin B
    <3>1. B \subseteq SUBSET S
      OBVIOUS
    <3> HIDE DEF B
    <3> QED
      BY <1>1, <3>1, Smallest
  <2>2. PICK x \in s : Partial(f)[s] # f[x] + Partial(f)[s \ {x}]
    BY <2>1
  <2> DEFINE p == Some(s)
  <2>3. p \in s /\ s # {}
    BY <2>2, SomeIn
  <2>4. Partial(f)[s] = f[p] + Partial(f)[s \ {p}]
    BY <2>3, PartialSteps
  <2>5. p # x
    BY <2>2, <2>4
  <2> HIDE DEF p
  <2>6. P(s \ {p}) /\ P(s \ {x})
    BY <2>1, <2>3
  <2>7. Partial(f)[s \ {p}] = f[x] + Partial(f)[(s \ {p}) \ {x}]
    BY <2>2, <2>5, <2>6
  <2>8. Partial(f)[s \ {x}] = f[p] + Partial(f)[(s \ {x}) \ {p}]
    BY <2>3, <2>5, <2>6
  <2>9. (s \ {p}) \ {x} = (s \ {x}) \ {p}
    OBVIOUS
  <2>10. /\ f[p] \in Int /\ f[x] \in Int
         /\ Partial(f)[(s \ {x}) \ {p}] \in Int
    BY <2>2, <2>3, PartialType
  <2>11. PICK a, b, d \in Int : /\ a = f[p] /\ b = f[x]
                                /\ d = Partial(f)[(s \ {x}) \ {p}]
    BY <2>10
  <2>12. Partial(f)[s] = a + (b + d) /\ Partial(f)[s \ {x}] = a + d
    BY <2>4, <2>7, <2>8, <2>9, <2>11
  <2>13. QED
    BY <2>2, <2>11, <2>12
<1>2. QED
  BY <1>1

LEMMA PartialZero ==
    ASSUME NEW S, IsFiniteSet(S), NEW f \in [S -> Int], \A x \in S : f[x] = 0
    PROVE  Partial(f)[S] = 0
<1> DEFINE B == {s \in SUBSET S : Partial(f)[s] # 0}
<1>1. ASSUME B # {}
      PROVE  FALSE
  <2>1. PICK s \in B : \A x \in s : s \ {x} \notin B
    <3>1. B \subseteq SUBSET S
      OBVIOUS
    <3> HIDE DEF B
    <3> QED
      BY <1>1, <3>1, Smallest
  <2>2. s # {}
    BY <2>1, PartialSteps
  <2>3. Some(s) \in s /\ Partial(f)[s \ {Some(s)}] = 0 /\ f[Some(s)] = 0
    BY <2>1, <2>2, SomeIn
  <2>4. Partial(f)[s] = f[Some(s)] + Partial(f)[s \ {Some(s)}]
    BY <2>1, <2>2, PartialSteps
  <2>5. Partial(f)[s] = 0 + 0
    BY <2>3, <2>4
  <2>6. QED
    BY <2>1, <2>5
<1>2. QED
  BY <1>1

\* The sum of two functions over a set on which they agree.
LEMMA PartialSame ==
    ASSUME NEW S, IsFiniteSet(S), NEW f \in [S -> Int], NEW g \in [S -> Int]
    PROVE  \A s \in SUBSET S : (\A x \in s : f[x] = g[x]) => Partial(f)[s] = Partial(g)[s]
<1> DEFINE P(s) == (\A x \in s : f[x] = g[x]) => Partial(f)[s] = Partial(g)[s]
           B == {s \in SUBSET S : ~P(s)}
<1>1. ASSUME B # {}
      PROVE  FALSE
  <2>1. PICK s \in B : \A x \in s : s \ {x} \notin B
    <3>1. B \subseteq SUBSET S
      OBVIOUS
    <3> HIDE DEF B
    <3> QED
      BY <1>1, <3>1, Smallest
  <2>2. s # {}
    BY <2>1, PartialSteps
  <2>3. Some(s) \in s
    BY <2>2, SomeIn
  <2>4. Partial(f)[s \ {Some(s)}] = Partial(g)[s \ {Some(s)}]
    BY <2>1, <2>3
  <2>5. QED
    BY <2>1, <2>2, <2>3, <2>4, PartialSteps
<1>2. QED
  BY <1>1

\* A sum changes as much as the one term that does.
LEMMA SumChange ==
    ASSUME NEW S, IsFiniteSet(S), NEW f \in [S -> Int], NEW g \in [S -> Int],
           NEW c \in S, \A x \in S \ {c} : f[x] = g[x]
    PROVE  /\ SumFunction(f) \in Int
           /\ SumFunction(g) = SumFunction(f) + (g[c] - f[c])
<1>1. SumFunction(f) = Partial(f)[S] /\ SumFunction(g) = Partial(g)[S]
  BY SumIsPartial
<1>2. Partial(f)[S] = f[c] + Partial(f)[S \ {c}]
  BY PartialAny
<1>3. Partial(g)[S] = g[c] + Partial(g)[S \ {c}]
  BY PartialAny
<1>4. Partial(f)[S \ {c}] = Partial(g)[S \ {c}]
  BY PartialSame
<1>5. f[c] \in Int /\ g[c] \in Int /\ Partial(f)[S \ {c}] \in Int
  BY PartialType
<1>6. QED
  BY <1>1, <1>2, <1>3, <1>4, <1>5

-----------------------------------------------------------------------------
(* What the contract owes *)

LEMMA ClaimsType ==
    ASSUME NEW w \in World, NEW s, NEW n \in Nat, NEW t, NEW c \in Ids
    PROVE  Claims(s, n, w, t, c) \in Int
<1>1. w.escrows[c].amount \in Nat
  BY DEF World, Escrow
<1>2. Awaited(s, n, w.escrows[c], c) \in Int
  BY <1>1 DEF Awaited
<1>3. QED
  BY <1>1, <1>2 DEF Claims

\* The same frames about an id and the same escrow: the same claims.
LEMMA ClaimsSame ==
    ASSUME NEW w, NEW v, NEW s, NEW r, NEW n \in Nat, NEW m \in Nat, NEW c,
           v.escrows[c] = w.escrows[c], SameFrames(s, n, r, m, c), NEW t
    PROVE  Claims(r, m, v, t, c) = Claims(s, n, w, t, c)
<1>1. Owing(r, m, c) <=> Owing(s, n, c)
  BY DEF Owing, SameFrames
<1>2. Locking(r, m, c) <=> Locking(s, n, c)
  BY DEF Locking, SameFrames
<1>3. (\E j \in 1..m : r[j].id = c /\ r[j].op = "lock" /\ ~r[j].moved)
        <=> (\E j \in 1..n : s[j].id = c /\ s[j].op = "lock" /\ ~s[j].moved)
  BY DEF SameFrames
<1>4. Awaited(r, m, v.escrows[c], c) = Awaited(s, n, w.escrows[c], c)
  BY <1>2, <1>3 DEF Awaited
<1>5. QED
  BY <1>1, <1>4 DEF Claims

\* Books that balance still do when nobody's claims change and no balance falls.
LEMMA CoveredSame ==
    ASSUME NEW w \in World, NEW v \in World, NEW s, NEW r, NEW n \in Nat, NEW m \in Nat,
           \A c \in Ids, t \in Tokens : Claims(r, m, v, t, c) = Claims(s, n, w, t, c),
           \A t \in Tokens : v.balance[t] >= w.balance[t],
           Covered(s, n, w)
    PROVE  Covered(r, m, v)
<1> SUFFICES ASSUME NEW t \in Tokens
             PROVE  v.balance[t] >= Owed(r, m, v, t)
  BY DEF Covered
<1>1. [c \in Ids |-> Claims(r, m, v, t, c)] = [c \in Ids |-> Claims(s, n, w, t, c)]
  OBVIOUS
<1>2. Owed(r, m, v, t) = Owed(s, n, w, t)
  BY <1>1 DEF Owed
<1>3. w.balance[t] >= Owed(s, n, w, t) /\ v.balance[t] >= w.balance[t]
  BY DEF Covered
<1>4. w.balance[t] \in Int /\ v.balance[t] \in Int
  BY DEF World
<1>5. Owed(s, n, w, t) \in Int
  <2> DEFINE f == [c \in Ids |-> Claims(s, n, w, t, c)]
  <2>1. f \in [Ids -> Int] /\ IsFiniteSet(Ids)
    BY ClaimsType, EscrowAssumption
  <2> HIDE DEF f
  <2>2. SumFunction(f) \in Int
    BY <2>1, PartialType, SumIsPartial
  <2>3. QED
    BY <2>2 DEF Owed, f
<1>6. QED
  BY <1>2, <1>3, <1>4, <1>5

\* They do when a single id's claims change, and the balance by as much.
LEMMA CoveredChange ==
    ASSUME NEW w \in World, NEW v \in World, NEW s, NEW r, NEW n \in Nat, NEW m \in Nat,
           NEW c \in Ids,
           \A d \in Ids \ {c}, t \in Tokens : Claims(r, m, v, t, d) = Claims(s, n, w, t, d),
           \A t \in Tokens : v.balance[t] - w.balance[t]
                                >= Claims(r, m, v, t, c) - Claims(s, n, w, t, c),
           Covered(s, n, w)
    PROVE  Covered(r, m, v)
<1> SUFFICES ASSUME NEW t \in Tokens
             PROVE  v.balance[t] >= Owed(r, m, v, t)
  BY DEF Covered
<1> DEFINE f == [d \in Ids |-> Claims(s, n, w, t, d)]
           g == [d \in Ids |-> Claims(r, m, v, t, d)]
<1>1. f \in [Ids -> Int] /\ g \in [Ids -> Int] /\ IsFiniteSet(Ids)
  BY ClaimsType, EscrowAssumption
<1>2. \A d \in Ids \ {c} : f[d] = g[d]
  OBVIOUS
<1>3. /\ v.balance[t] - w.balance[t] >= g[c] - f[c]
      /\ f[c] \in Int /\ g[c] \in Int
  BY <1>1
<1>4. w.balance[t] \in Int /\ v.balance[t] \in Int
  BY DEF World
<1>5. Owed(s, n, w, t) = SumFunction(f) /\ Owed(r, m, v, t) = SumFunction(g)
  BY DEF Owed
<1>6. w.balance[t] >= SumFunction(f)
  BY <1>5 DEF Covered
<1> HIDE DEF f, g
<1>7. SumFunction(f) \in Int /\ SumFunction(g) = SumFunction(f) + (g[c] - f[c])
  BY <1>1, <1>2, SumChange
<1>8. QED
  BY <1>3, <1>4, <1>5, <1>6, <1>7

\* Books of the first n frames are about the first n frames.
LEMMA PrefixCovered ==
    ASSUME NEW w \in World, NEW s, NEW r, NEW n \in Nat, \A i \in 1..n : r[i] = s[i]
    PROVE  /\ Covered(s, n, w) => Covered(r, n, w)
           /\ Exact(s, n, w) => Exact(r, n, w)
<1>1. ASSUME NEW c \in Ids, NEW t \in Tokens
      PROVE  Claims(r, n, w, t, c) = Claims(s, n, w, t, c)
  <2>1. SameFrames(s, n, r, n, c)
    BY DEF SameFrames
  <2>2. QED
    BY <2>1, ClaimsSame
<1>2. \A t \in Tokens : w.balance[t] >= w.balance[t]
  BY DEF World
<1>3. QED
  BY <1>1, <1>2, CoveredSame DEF Exact

\* An id no frame is about and nobody has locked claims nothing.
LEMMA ClaimsNothing ==
    ASSUME NEW w \in World, NEW s, NEW n \in Nat, NEW c \in Ids, NEW t,
           w.escrows[c].status # "Locked", \A j \in 1..n : s[j].id # c
    PROVE  Claims(s, n, w, t, c) = 0
BY DEF Claims, Awaited, Owing, Locking

-----------------------------------------------------------------------------
(* Calls *)

\* What pending frames are about exists, in the state they are pending in.
LEMMA FramesExist ==
    ASSUME IInv
    PROVE  \A j \in 1..Len(stack) : stack[j].id \in Ids /\ escrows[stack[j].id].status # "None"
<1>1. \A j \in 1..Len(stack) : stack[j].id \in Ids
  BY SavedTypes DEF IInv, Frame
<1>2. QED
  BY <1>1 DEF IInv, WorldSound, Sound, Funded, world

LEMMA ExactCall ==
    ASSUME IInv, Books, MayCall
    PROVE  Exact(stack, Len(stack), world)
<1>1. Len(stack) \in Nat
  BY DEF IInv, TypeOK
<1>2. CASE stack = << >>
  BY <1>2 DEF Exact
<1>3. CASE stack # << >>
  <2>1. escrows[stack[Len(stack)].id].token \notin SkimTokens
    BY <1>3 DEF MayCall, Top
  <2>2. \A j \in 1..Len(stack) : j \in 1..(Len(stack) - 1) \/ j = Len(stack)
    BY <1>1
  <2>3. QED
    BY <2>1, <2>2 DEF Books, WorldCovered, Exact, world
<1>4. QED
  BY <1>2, <1>3

\* A call that leaves the books of the new stack balanced keeps the rest.
LEMMA BooksPush ==
    ASSUME IInv, IInv', Books, MayCall, NEW c \in Ids, NEW op \in {"lock", "claim", "refund"},
           NEW moved \in BOOLEAN, NEW before \in Nat, Push(op, c, moved, before),
           Covered(stack', Len(stack) + 1, world'),
           \A d \in Ids : escrows[d].status # "None" => escrows'[d].token = escrows[d].token,
           op = "lock" => escrows[c].status = "None",
           ShortMoved'
    PROVE  Books'
<1>1. /\ Len(stack) \in Nat /\ Len(stack') = Len(stack) + 1
      /\ \A i \in 1..Len(stack) : stack'[i] = stack[i]
      /\ stack'[Len(stack) + 1].op = op
      /\ stack'[Len(stack) + 1].id = c
      /\ stack'[Len(stack) + 1].saved = world
  BY PushFrame DEF IInv, TypeOK
<1>2. world \in World /\ world' \in World
  BY DEF IInv, TypeOK
<1>3. SavedCovered'
  <2> SUFFICES ASSUME NEW i \in 1..Len(stack')
               PROVE  /\ Covered(stack', i - 1, stack'[i].saved)
                      /\ Exact(stack', i - 1, stack'[i].saved)
    BY DEF SavedCovered
  <2>1. i - 1 \in Nat /\ \A j \in 1..(i - 1) : stack'[j] = stack[j]
    BY <1>1
  <2>2. CASE i \in 1..Len(stack)
    <3>1. stack'[i] = stack[i] /\ stack[i].saved \in World
      BY <1>1, <2>2, SavedTypes DEF IInv
    <3>2. Covered(stack, i - 1, stack[i].saved) /\ Exact(stack, i - 1, stack[i].saved)
      BY <2>2 DEF Books, SavedCovered
    <3>3. QED
      BY <2>1, <3>1, <3>2, PrefixCovered
  <2>3. CASE i = Len(stack) + 1
    <3>1. Covered(stack, i - 1, world) /\ Exact(stack, i - 1, world)
      <4>1. i - 1 = Len(stack)
        BY <1>1, <2>3
      <4>2. QED
        BY <4>1, ExactCall DEF Books, WorldCovered
    <3>2. QED
      BY <1>1, <1>2, <2>1, <2>3, <3>1, PrefixCovered
  <2>4. QED
    BY <1>1, <2>2, <2>3
<1>4. WorldCovered'
  <2>1. ASSUME NEW j \in 1..Len(stack)
        PROVE  escrows'[stack'[j].id].token \notin SkimTokens
    <3>1. stack'[j] = stack[j]
      BY <1>1
    <3>2. escrows'[stack[j].id].token = escrows[stack[j].id].token
      BY FramesExist
    <3>3. escrows[stack[j].id].token \notin SkimTokens
      BY ExactCall DEF Exact, world
    <3>4. QED
      BY <3>1, <3>2, <3>3
  <2>2. Len(stack') - 1 = Len(stack)
    BY <1>1
  <2>3. Exact(stack', Len(stack') - 1, world')
    BY <2>1, <2>2 DEF Exact, world
  <2>4. QED
    BY <1>1, <2>3 DEF WorldCovered
<1>5. LockedFresh'
  <2> SUFFICES ASSUME NEW i \in 1..Len(stack'), NEW j \in 1..Len(stack'),
                      i < j, stack'[j].op = "lock"
               PROVE  stack'[i].id # stack'[j].id
    BY DEF LockedFresh
  <2>1. i \in 1..Len(stack) /\ stack'[i] = stack[i]
    BY <1>1
  <2>2. CASE j \in 1..Len(stack)
    BY <1>1, <2>1, <2>2 DEF Books, LockedFresh
  <2>3. CASE j = Len(stack) + 1
    <3>1. escrows[c].status = "None" /\ escrows[stack[i].id].status # "None"
      BY <1>1, <2>1, <2>3, FramesExist
    <3>2. QED
      BY <1>1, <2>1, <2>3, <3>1
  <2>4. QED
    BY <1>1, <2>2, <2>3
<1>6. QED
  BY <1>3, <1>4, <1>5 DEF Books

\* What the new frame is about changes its claims, nothing else does.
LEMMA PushElsewhere ==
    ASSUME IInv, IInv', NEW c \in Ids, NEW s,
           \A i \in 1..Len(stack) : s[i] = stack[i], s[Len(stack) + 1].id = c,
           \A d \in Ids \ {c} : escrows'[d] = escrows[d]
    PROVE  \A d \in Ids \ {c}, t \in Tokens :
              Claims(s, Len(stack) + 1, world', t, d) = Claims(stack, Len(stack), world, t, d)
<1> SUFFICES ASSUME NEW d \in Ids \ {c}, NEW t \in Tokens
             PROVE  Claims(s, Len(stack) + 1, world', t, d)
                      = Claims(stack, Len(stack), world, t, d)
  OBVIOUS
<1>1. Len(stack) \in Nat /\ Len(stack) + 1 \in Nat
  BY DEF IInv, TypeOK
<1>2. SameFrames(stack, Len(stack), s, Len(stack) + 1, d)
  <2>1. \A j \in 1..(Len(stack) + 1) : j \in 1..Len(stack) \/ j = Len(stack) + 1
    BY <1>1
  <2>2. QED
    BY <1>1, <2>1 DEF SameFrames
<1>3. world'.escrows[d] = world.escrows[d]
  BY DEF world
<1>4. QED
  BY <1>1, <1>2, <1>3, ClaimsSame

\* A change at one id, without a new frame.
LEMMA CallElsewhere ==
    ASSUME IInv, NEW c \in Ids, \A d \in Ids \ {c} : escrows'[d] = escrows[d]
    PROVE  \A d \in Ids \ {c}, t \in Tokens :
              Claims(stack, Len(stack), world', t, d) = Claims(stack, Len(stack), world, t, d)
<1> SUFFICES ASSUME NEW d \in Ids \ {c}, NEW t \in Tokens
             PROVE  Claims(stack, Len(stack), world', t, d)
                      = Claims(stack, Len(stack), world, t, d)
  OBVIOUS
<1>1. Len(stack) \in Nat
  BY DEF IInv, TypeOK
<1>2. world'.escrows[d] = world.escrows[d]
  BY DEF world
<1>3. SameFrames(stack, Len(stack), stack, Len(stack), d)
  BY DEF SameFrames
<1>4. QED
  BY <1>1, <1>2, <1>3, ClaimsSame

\* A lock brings in its amount, or waits for the token to.
LEMMA LockBooks ==
    ASSUME IInv, IInv', Books, LockAny
    PROVE  Books'
<1> PICK c \in Ids, sender \in Addresses, payee \in Addresses \cup {ZeroAddress},
         token \in Tokens, amount \in Amounts, value \in Amounts \cup {0},
         hashlock \in Digests, rt \in Timestamps :
         Lock(c, sender, payee, token, amount, hashlock, rt, value)
  BY DEF LockAny
<1>1. /\ TypeOK /\ TypeOK' /\ Len(stack) \in Nat /\ MayCall
      /\ world \in World /\ world' \in World
  BY DEF IInv, TypeOK, Lock
<1>2. escrows \in [Ids -> Escrow] /\ balance \in [Tokens -> Nat]
  BY <1>1, WorldParts
<1>3. amount \in Nat /\ value \in Nat /\ Native \in Tokens /\ Native \notin SkimTokens
  BY EscrowAssumption DEF Tokens
<1>4. /\ escrows[c].status = "None"
      /\ escrows'[c].status = "Locked" /\ escrows'[c].token = token
      /\ escrows'[c].amount = amount
      /\ \A d \in Ids \ {c} : escrows'[d] = escrows[d]
  BY <1>2 DEF Lock, LockChecks, LockEffects
<1>5. \A j \in 1..Len(stack) : stack[j].id # c
  BY <1>4, FramesExist
<1>6. \A t \in Tokens : Claims(stack, Len(stack), world, t, c) = 0
  BY <1>1, <1>4, <1>5, ClaimsNothing DEF world
<1>7. \A d \in Ids : escrows[d].status # "None" => escrows'[d].token = escrows[d].token
  BY <1>4
<1>8. Covered(stack, Len(stack), world)
  BY DEF Books, WorldCovered
<1>9. CASE token = Native
  <2>1. /\ stack' = stack /\ balance'[Native] = balance[Native] + amount
        /\ \A t \in Tokens \ {Native} : balance'[t] = balance[t]
    BY <1>2, <1>3, <1>9 DEF Lock, ValueMatches
  <2>2. \A t \in Tokens : Claims(stack, Len(stack), world', t, c)
                            = IF t = Native THEN amount ELSE 0
    <3>1. Awaited(stack, Len(stack), escrows'[c], c) = 0
      BY <1>5 DEF Awaited, Locking
    <3>2. QED
      BY <1>3, <1>4, <1>9, <3>1 DEF Claims, world
  <2>3. ASSUME NEW t \in Tokens
        PROVE  world'.balance[t] - world.balance[t]
                  >= Claims(stack, Len(stack), world', t, c) - Claims(stack, Len(stack), world, t, c)
    <3>1. balance[t] \in Nat /\ world.balance[t] = balance[t] /\ world'.balance[t] = balance'[t]
      BY <1>2 DEF world
    <3>2. CASE t = Native
      BY <1>3, <1>6, <2>1, <2>2, <3>1, <3>2
    <3>3. CASE t # Native
      BY <1>3, <1>6, <2>1, <2>2, <3>1, <3>3
    <3>4. QED
      BY <3>2, <3>3
  <2>4. Covered(stack, Len(stack), world')
    BY <1>1, <1>4, <1>8, <2>3, CallElsewhere, CoveredChange
  <2>5. Exact(stack, Len(stack) - 1, world')
    <3>1. ASSUME NEW j \in 1..(Len(stack) - 1)
          PROVE  escrows'[stack[j].id].token \notin SkimTokens
      <4>1. j \in 1..Len(stack)
        BY <1>1
      <4>2. escrows'[stack[j].id].token = escrows[stack[j].id].token
        BY <1>7, <4>1, FramesExist
      <4>3. QED
        BY <4>2 DEF Books, WorldCovered, Exact, world
    <3>2. QED
      BY <3>1 DEF Exact, world
  <2>6. ShortMoved'
    <3>1. ASSUME stack # << >>
          PROVE  escrows'[Top.id].token \notin SkimTokens
      <4>1. Len(stack) \in 1..Len(stack)
        BY <1>1, <3>1, TopFrame DEF TypeOK
      <4>2. escrows'[Top.id].token = escrows[Top.id].token
        BY <1>7, <4>1, FramesExist DEF Top
      <4>3. QED
        BY <1>1, <3>1, <4>2 DEF MayCall
    <3>2. QED
      BY <2>1, <3>1 DEF ShortMoved, Top
  <2>7. SavedCovered' /\ LockedFresh'
    BY <2>1 DEF Books, SavedCovered, LockedFresh
  <2>8. WorldCovered'
    BY <2>1, <2>4, <2>5 DEF WorldCovered
  <2>9. QED
    BY <2>6, <2>7, <2>8 DEF Books
<1>10. CASE token # Native
  <2>1. Push("lock", c, FALSE, balance[token]) /\ balance[token] \in Nat /\ balance' = balance
    <3>1. /\ Push("lock", c, FALSE, balance[token]) /\ balance[token] \in Nat
          /\ balance' = [balance EXCEPT ![Native] = @ + value] /\ value = 0
      BY <1>2, <1>10 DEF Lock, ValueMatches
    <3>2. balance[Native] + 0 = balance[Native]
      BY <1>2, <1>3
    <3>3. QED
      BY <1>2, <3>1, <3>2
  <2>2. /\ Len(stack') = Len(stack) + 1
        /\ \A i \in 1..Len(stack) : stack'[i] = stack[i]
        /\ stack'[Len(stack) + 1].op = "lock"
        /\ stack'[Len(stack) + 1].id = c
        /\ ~stack'[Len(stack) + 1].moved
        /\ stack'[Len(stack) + 1].before = balance[token]
    BY <1>1, <2>1, PushFrame
  <2>3. \A t \in Tokens : Claims(stack', Len(stack) + 1, world', t, c) = 0
    <3>1. Len(stack) + 1 \in 1..(Len(stack) + 1)
      BY <1>1
    <3>2. Awaited(stack', Len(stack) + 1, escrows'[c], c) = amount
      BY <1>4, <2>2, <3>1 DEF Awaited
    <3>3. QED
      BY <1>3, <1>4, <3>2 DEF Claims, world
  <2>4. \A t \in Tokens : world'.balance[t] - world.balance[t]
           >= Claims(stack', Len(stack) + 1, world', t, c) - Claims(stack, Len(stack), world, t, c)
    BY <1>2, <1>6, <2>1, <2>3 DEF world
  <2>5. \A d \in Ids \ {c}, t \in Tokens :
           Claims(stack', Len(stack) + 1, world', t, d) = Claims(stack, Len(stack), world, t, d)
    BY <1>4, <2>2, PushElsewhere
  <2>6. Covered(stack', Len(stack) + 1, world')
    <3>1. Len(stack) + 1 \in Nat
      BY <1>1
    <3>2. QED
      BY <1>1, <1>8, <2>4, <2>5, <3>1, CoveredChange
  <2>7. ShortMoved'
    <3>1. Top' = stack'[Len(stack) + 1]
      BY <2>2 DEF Top
    <3>2. QED
      BY <1>2, <1>4, <2>1, <2>2, <3>1 DEF ShortMoved
  <2>8. QED
    BY <1>1, <1>4, <1>7, <2>1, <2>6, <2>7, BooksPush
<1>11. QED
  BY <1>9, <1>10

\* claim() and refund() pay out what was locked, or owe it in a new frame.
LEMMA SettlingBooks ==
    ASSUME IInv, IInv', Books, MayCall, NEW c \in Ids, NEW op \in {"claim", "refund"},
           NEW status \in Terminal,
           escrows[c].status = "Locked",
           escrows' = [escrows EXCEPT ![c].status = status],
           PayOut(op, c)
    PROVE  Books'
<1>1. /\ TypeOK /\ TypeOK' /\ Len(stack) \in Nat /\ Len(stack) + 1 \in Nat
      /\ world \in World /\ world' \in World
  BY DEF IInv, TypeOK
<1>2. escrows \in [Ids -> Escrow] /\ balance \in [Tokens -> Nat]
  BY <1>1, WorldParts
<1>3. /\ escrows[c].amount \in Nat /\ Native \in Tokens
  BY <1>2, EscrowAssumption DEF Tokens, Escrow
<1>4. /\ escrows'[c].status = status /\ escrows'[c].token = escrows[c].token
      /\ escrows'[c].amount = escrows[c].amount
      /\ \A d \in Ids \ {c} : escrows'[d] = escrows[d]
  <2>1. escrows' = [escrows EXCEPT ![c] = [escrows[c] EXCEPT !.status = status]]
    OBVIOUS
  <2>2. escrows[c] \in Escrow
    BY <1>2
  <2>3. QED
    BY <1>2, <2>1, <2>2 DEF Escrow
<1>5. \A d \in Ids : escrows[d].status # "None" => escrows'[d].token = escrows[d].token
  BY <1>4
<1>6. PICK moved \in BOOLEAN : Push(op, c, moved, 0) /\ (moved <=> escrows[c].token = Native)
  BY DEF PayOut
<1>7. /\ Len(stack') = Len(stack) + 1
      /\ \A i \in 1..Len(stack) : stack'[i] = stack[i]
      /\ stack'[Len(stack) + 1].op = op
      /\ stack'[Len(stack) + 1].id = c
      /\ stack'[Len(stack) + 1].moved = moved
  BY <1>1, <1>6, PushFrame
<1>8. \A i : i \in 1..(Len(stack) + 1) <=> i \in 1..Len(stack) \/ i = Len(stack) + 1
  BY <1>1
<1> DEFINE a == Awaited(stack, Len(stack), escrows[c], c)
<1>9. Awaited(stack', Len(stack) + 1, escrows'[c], c) = a
  <2>1. Locking(stack', Len(stack) + 1, c) <=> Locking(stack, Len(stack), c)
    BY <1>7, <1>8 DEF Locking
  <2>2. (\E j \in 1..(Len(stack) + 1) : stack'[j].id = c /\ stack'[j].op = "lock" /\ ~stack'[j].moved)
          <=> (\E j \in 1..Len(stack) : stack[j].id = c /\ stack[j].op = "lock" /\ ~stack[j].moved)
    BY <1>7, <1>8
  <2>3. QED
    BY <1>4, <2>1, <2>2 DEF Awaited
<1>10. a \in Int
  BY <1>3 DEF Awaited
<1> HIDE DEF a
<1>11. ~Owing(stack, Len(stack), c)
  BY DEF IInv, WorldSound, Sound, PaidOrOwing, world, Terminal
<1>12. Owing(stack', Len(stack) + 1, c) <=> ~moved
  BY <1>7, <1>8, <1>11 DEF Owing
<1>13. ASSUME NEW t \in Tokens
       PROVE  /\ Claims(stack, Len(stack), world, t, c)
                    = IF escrows[c].token = t THEN escrows[c].amount - a ELSE 0
              /\ Claims(stack', Len(stack) + 1, world', t, c)
                    = IF escrows[c].token = t
                      THEN (IF moved THEN 0 ELSE escrows[c].amount) - a ELSE 0
  <2>1. a = Awaited(stack, Len(stack), escrows[c], c)
    BY DEF a
  <2>2. Claims(stack, Len(stack), world, t, c)
                    = IF escrows[c].token = t THEN escrows[c].amount - a ELSE 0
    BY <2>1 DEF Claims, world
  <2>3. escrows'[c].status # "Locked"
    BY <1>4 DEF Terminal
  <2>4. Claims(stack', Len(stack) + 1, world', t, c)
                    = IF escrows[c].token = t
                      THEN (IF moved THEN 0 ELSE escrows[c].amount) - a ELSE 0
    BY <1>4, <1>9, <1>12, <2>3 DEF Claims, world
  <2>5. QED
    BY <2>2, <2>4
<1>14. ASSUME NEW t \in Tokens
       PROVE  balance'[t] = balance[t] - (IF moved /\ escrows[c].token = t
                                          THEN escrows[c].amount ELSE 0)
  <2>1. balance[t] \in Nat
    BY <1>2
  <2>2. CASE escrows[c].token = Native
    <3>1. balance' = [balance EXCEPT ![Native] = @ - escrows[c].amount]
      BY <2>2 DEF PayOut
    <3>2. QED
      BY <1>2, <1>3, <1>6, <2>1, <2>2, <3>1
  <2>3. CASE escrows[c].token # Native
    BY <1>6, <2>1, <2>3 DEF PayOut
  <2>4. QED
    BY <2>2, <2>3
<1>15. ASSUME NEW t \in Tokens
       PROVE  world'.balance[t] - world.balance[t]
                 >= Claims(stack', Len(stack) + 1, world', t, c) - Claims(stack, Len(stack), world, t, c)
  <2>1. balance[t] \in Nat /\ world.balance[t] = balance[t] /\ world'.balance[t] = balance'[t]
    BY <1>2 DEF world
  <2>2. CASE escrows[c].token = t
    BY <1>3, <1>10, <1>13, <1>14, <2>1, <2>2
  <2>3. CASE escrows[c].token # t
    BY <1>13, <1>14, <2>1, <2>3
  <2>4. QED
    BY <2>2, <2>3
<1>16. \A d \in Ids \ {c}, t \in Tokens :
          Claims(stack', Len(stack) + 1, world', t, d) = Claims(stack, Len(stack), world, t, d)
  BY <1>4, <1>7, PushElsewhere
<1>17. Covered(stack', Len(stack) + 1, world')
  <2>1. Covered(stack, Len(stack), world)
    BY DEF Books, WorldCovered
  <2>2. QED
    BY <1>1, <1>15, <1>16, <2>1, CoveredChange
<1>18. ShortMoved'
  <2>1. Top'.op = op
    BY <1>7 DEF Top
  <2>2. QED
    BY <2>1 DEF ShortMoved
<1>19. QED
  BY <1>1, <1>5, <1>6, <1>17, <1>18, BooksPush

-----------------------------------------------------------------------------
(* The outsider's steps *)

\* The last frame, and what a step that marks it as moved leaves alone.
LEMMA SettledFrames ==
    ASSUME IInv, stack # << >>, Settle
    PROVE  /\ Len(stack) \in Nat \ {0} /\ Len(stack) \in 1..Len(stack)
           /\ Len(stack') = Len(stack)
           /\ Top = stack[Len(stack)] /\ Top \in Frame /\ Top.id \in Ids
           /\ \A i : i \in 1..Len(stack) <=> i \in 1..(Len(stack) - 1) \/ i = Len(stack)
           /\ \A i \in 1..(Len(stack) - 1) : stack'[i] = stack[i]
           /\ Top' = stack'[Len(stack)] /\ Top' = [Top EXCEPT !.moved = TRUE]
           /\ \A i \in 1..Len(stack) : /\ stack'[i].id = stack[i].id
                                       /\ stack'[i].op = stack[i].op
                                       /\ stack'[i].saved = stack[i].saved
<1>1. stack \in Seq(Frame)
  BY DEF IInv, TypeOK
<1>2. /\ Len(stack) \in Nat \ {0} /\ Len(stack) \in 1..Len(stack)
      /\ Len(stack') = Len(stack)
      /\ Top = stack[Len(stack)] /\ Top \in Frame /\ Top.id \in Ids
      /\ \A i \in 1..(Len(stack) - 1) : stack'[i] = stack[i]
      /\ stack'[Len(stack)] = [Top EXCEPT !.moved = TRUE]
  BY <1>1, SettleFrame, TopFrame
<1>3. \A i : i \in 1..Len(stack) <=> i \in 1..(Len(stack) - 1) \/ i = Len(stack)
  BY <1>2
<1>4. Top' = stack'[Len(stack)]
  BY <1>2 DEF Top
<1>5. /\ stack'[Len(stack)].id = stack[Len(stack)].id
      /\ stack'[Len(stack)].op = stack[Len(stack)].op
      /\ stack'[Len(stack)].saved = stack[Len(stack)].saved
  BY <1>2 DEF Frame
<1>6. QED
  BY <1>2, <1>3, <1>4, <1>5

LEMMA BooksSettle ==
    ASSUME IInv, IInv', Books, stack # << >>, Settle, escrows' = escrows,
           Covered(stack', Len(stack), world'), ShortMoved'
    PROVE  Books'
<1>1. SavedCovered'
  <2> SUFFICES ASSUME NEW i \in 1..Len(stack')
               PROVE  /\ Covered(stack', i - 1, stack'[i].saved)
                      /\ Exact(stack', i - 1, stack'[i].saved)
    BY DEF SavedCovered
  <2>1. i \in 1..Len(stack) /\ stack'[i].saved = stack[i].saved
    BY SettledFrames
  <2>2. i - 1 \in Nat /\ \A j \in 1..(i - 1) : stack'[j] = stack[j]
    BY <2>1, SettledFrames
  <2>3. Covered(stack, i - 1, stack[i].saved) /\ Exact(stack, i - 1, stack[i].saved)
    BY <2>1 DEF Books, SavedCovered
  <2>4. stack[i].saved \in World
    BY <2>1, SavedTypes DEF IInv
  <2>5. QED
    BY <2>1, <2>2, <2>3, <2>4, PrefixCovered
<1>2. Exact(stack', Len(stack') - 1, world')
  BY SettledFrames DEF Books, WorldCovered, Exact, world
<1>3. WorldCovered'
  BY <1>2, SettledFrames DEF WorldCovered
<1>4. LockedFresh'
  BY SettledFrames DEF Books, LockedFresh
<1>5. QED
  BY <1>1, <1>3, <1>4 DEF Books

LEMMA SettleElsewhere ==
    ASSUME IInv, stack # << >>, Settle, escrows' = escrows
    PROVE  \A d \in Ids \ {Top.id}, t \in Tokens :
              Claims(stack', Len(stack), world', t, d) = Claims(stack, Len(stack), world, t, d)
<1> SUFFICES ASSUME NEW d \in Ids \ {Top.id}, NEW t \in Tokens
             PROVE  Claims(stack', Len(stack), world', t, d)
                      = Claims(stack, Len(stack), world, t, d)
  OBVIOUS
<1>1. SameFrames(stack, Len(stack), stack', Len(stack), d)
  BY SettledFrames DEF SameFrames
<1>2. world'.escrows[d] = world.escrows[d] /\ Len(stack) \in Nat
  BY SettledFrames DEF world
<1>3. QED
  BY <1>1, <1>2, ClaimsSame

\* The token brings in what the lock waits for, or all but a unit of it.
LEMMA MoveInBooks ==
    ASSUME IInv, IInv', Books, MoveIn
    PROVE  Books'
<1> DEFINE c == Top.id
           e == escrows[c]
           n == Len(stack)
           short == IF e.token \in SkimTokens THEN 1 ELSE 0
<1>1. /\ TypeOK /\ stack # << >> /\ Settle /\ escrows' = escrows
      /\ Top.op = "lock" /\ ~Top.moved
      /\ balance' = [balance EXCEPT ![e.token] =
                        @ + (IF e.token \in SkimTokens THEN e.amount - 1 ELSE e.amount)]
      /\ world \in World /\ world' \in World
  BY DEF IInv, MoveIn, TypeOK
<1>2. /\ n \in Nat \ {0} /\ n \in 1..n /\ c \in Ids /\ Top = stack[n] /\ Top \in Frame
      /\ stack'[n].moved /\ Top' = stack'[n] /\ Top'.moved
      /\ Top'.id = c /\ Top'.before = Top.before
  BY <1>1, SettledFrames DEF Frame
<1>3. balance \in [Tokens -> Nat] /\ e.token \in Tokens /\ e.amount \in Nat
  BY <1>1, <1>2, WorldParts DEF Escrow
<1>4. \A i \in 1..n : stack[i].id = c => i = n
  BY <1>1, <1>2 DEF Books, LockedFresh
<1>5. \A i \in 1..n : /\ stack'[i].id = c => i = n
                      /\ stack'[i].id = stack[i].id /\ stack'[i].op = stack[i].op
  BY <1>1, <1>4, SettledFrames
<1>6. Awaited(stack, n, e, c) = e.amount
  BY <1>1, <1>2 DEF Awaited
<1>7. Awaited(stack', n, e, c) = short
  <2>1. Locking(stack', n, c)
    BY <1>1, <1>2, <1>5 DEF Locking
  <2>2. QED
    BY <1>2, <1>5, <2>1 DEF Awaited
<1>8. ~Owing(stack, n, c) /\ ~Owing(stack', n, c)
  BY <1>1, <1>2, <1>4, <1>5 DEF Owing
<1> DEFINE locked == IF e.status = "Locked" THEN e.amount ELSE 0
<1>9. ASSUME NEW t \in Tokens
      PROVE  /\ Claims(stack, n, world, t, c) = IF e.token # t THEN 0 ELSE locked - e.amount
             /\ Claims(stack', n, world', t, c) = IF e.token # t THEN 0 ELSE locked - short
  BY <1>1, <1>6, <1>7, <1>8 DEF Claims, world
<1>10. ASSUME NEW t \in Tokens
       PROVE  world'.balance[t] - world.balance[t]
                 >= Claims(stack', n, world', t, c) - Claims(stack, n, world, t, c)
  <2> HIDE DEF e, c, n
  <2>1. balance[t] \in Nat /\ world.balance[t] = balance[t] /\ world'.balance[t] = balance'[t]
    BY <1>3 DEF world
  <2>2. locked \in Int /\ short \in Int
    BY <1>3
  <2>3. CASE e.token = t
    <3>1. balance'[t] = balance[t] + (e.amount - short)
      BY <1>1, <1>3, <2>1, <2>3
    <3> HIDE DEF locked, short
    <3>2. QED
      BY <1>3, <1>9, <2>1, <2>2, <2>3, <3>1
  <2>4. CASE e.token # t
    BY <1>1, <1>3, <1>9, <2>1, <2>4
  <2>5. QED
    BY <2>3, <2>4
<1>11. Covered(stack', n, world')
  <2>1. Covered(stack, n, world)
    BY DEF Books, WorldCovered
  <2>2. \A d \in Ids \ {c}, t \in Tokens :
           Claims(stack', n, world', t, d) = Claims(stack, n, world, t, d)
    BY <1>1, SettleElsewhere
  <2> HIDE DEF n, c
  <2>3. QED
    BY <1>1, <1>2, <1>10, <2>1, <2>2, CoveredChange
<1>12. ShortMoved'
  <2> SUFFICES ASSUME e.token \in SkimTokens
               PROVE  balance'[e.token] = Top.before + (e.amount - 1)
    BY <1>1, <1>2 DEF ShortMoved
  <2>1. balance[e.token] = Top.before + 0 /\ Top.before \in Nat
    BY <1>1, <1>2 DEF Books, ShortMoved, Frame
  <2> HIDE DEF e
  <2>2. QED
    BY <1>1, <1>3, <2>1
<1>13. QED
  BY <1>1, <1>11, <1>12, BooksSettle

\* The token takes out what the frame owes, and no other frame owes it.
LEMMA MoveOutBooks ==
    ASSUME IInv, IInv', Books, MoveOut
    PROVE  Books'
<1> DEFINE c == Top.id
           e == escrows[c]
           n == Len(stack)
<1>1. /\ TypeOK /\ stack # << >> /\ Settle /\ escrows' = escrows
      /\ Top.op # "lock" /\ ~Top.moved
      /\ balance' = [balance EXCEPT ![e.token] = @ - e.amount]
      /\ world \in World /\ world' \in World
  BY DEF IInv, MoveOut, TypeOK
<1>2. /\ n \in Nat \ {0} /\ n \in 1..n /\ c \in Ids /\ Top = stack[n]
      /\ stack'[n].moved /\ Top' = stack'[n] /\ Top'.op = Top.op
  BY <1>1, SettledFrames DEF Frame
<1>3. balance \in [Tokens -> Nat] /\ e.token \in Tokens /\ e.amount \in Nat
  BY <1>1, <1>2, WorldParts DEF Escrow
<1>4. \A i \in 1..n : /\ stack'[i].id = stack[i].id /\ stack'[i].op = stack[i].op
                      /\ stack[i].op = "lock" => stack'[i] = stack[i]
  BY <1>1, <1>2, SettledFrames
<1>5. Awaited(stack', n, e, c) = Awaited(stack, n, e, c)
  BY <1>4 DEF Awaited, Locking
<1>6. Owing(stack, n, c)
  BY <1>1, <1>2 DEF Owing
<1>7. ~Owing(stack', n, c)
  <2> SUFFICES ASSUME NEW i \in 1..n, stack'[i].id = c,
                      stack'[i].op # "lock", ~stack'[i].moved
               PROVE  FALSE
    BY DEF Owing
  <2>1. i # n /\ i < n /\ stack'[i] = stack[i]
    BY <1>1, <1>2, SettledFrames
  <2>2. QED
    BY <1>1, <1>2, <2>1 DEF IInv, OwedOnce
<1>8. e.status # "Locked"
  BY <1>2, <1>6 DEF IInv, WorldSound, Sound, PaidOrOwing, world, Terminal
<1> DEFINE a == Awaited(stack, n, e, c)
<1>9. a \in Int
  BY <1>3 DEF Awaited
<1>10. ASSUME NEW t \in Tokens
       PROVE  /\ Claims(stack, n, world, t, c) = IF e.token # t THEN 0 ELSE e.amount - a
              /\ Claims(stack', n, world', t, c) = IF e.token # t THEN 0 ELSE 0 - a
  BY <1>1, <1>5, <1>6, <1>7, <1>8 DEF Claims, world
<1>11. ASSUME NEW t \in Tokens
       PROVE  world'.balance[t] - world.balance[t]
                 >= Claims(stack', n, world', t, c) - Claims(stack, n, world, t, c)
  <2> HIDE DEF e, c, n, a
  <2>1. balance[t] \in Nat /\ world.balance[t] = balance[t] /\ world'.balance[t] = balance'[t]
    BY <1>3 DEF world
  <2>2. CASE e.token = t
    <3>1. balance'[t] = balance[t] - e.amount
      BY <1>1, <1>3, <2>1, <2>2
    <3>2. QED
      BY <1>3, <1>9, <1>10, <2>1, <2>2, <3>1
  <2>3. CASE e.token # t
    BY <1>1, <1>3, <1>10, <2>1, <2>3
  <2>4. QED
    BY <2>2, <2>3
<1>12. Covered(stack', n, world')
  <2>1. Covered(stack, n, world)
    BY DEF Books, WorldCovered
  <2>2. \A d \in Ids \ {c}, t \in Tokens :
           Claims(stack', n, world', t, d) = Claims(stack, n, world, t, d)
    BY <1>1, SettleElsewhere
  <2> HIDE DEF n, c
  <2>3. QED
    BY <1>1, <1>2, <1>11, <2>1, <2>2, CoveredChange
<1>13. ShortMoved'
  BY <1>1, <1>2 DEF ShortMoved
<1>14. QED
  BY <1>1, <1>12, <1>13, BooksSettle

\* The stack without its last frame, in a state whose books balance without it.
LEMMA BooksPop ==
    ASSUME IInv, IInv', Books, stack # << >>, stack' = Pop,
           Covered(stack, Len(stack) - 1, world'), Exact(stack, Len(stack) - 1, world')
    PROVE  Books'
<1> DEFINE n == Len(stack)
<1>1. /\ n \in Nat \ {0} /\ Len(stack') = n - 1
      /\ \A i \in 1..(n - 1) : stack'[i] = stack[i] /\ i \in 1..n
      /\ world' \in World
  BY TopFrame DEF IInv, TypeOK
<1>2. SavedCovered'
  <2> SUFFICES ASSUME NEW i \in 1..Len(stack')
               PROVE  /\ Covered(stack', i - 1, stack'[i].saved)
                      /\ Exact(stack', i - 1, stack'[i].saved)
    BY DEF SavedCovered
  <2>1. i \in 1..n /\ stack'[i] = stack[i] /\ stack[i].saved \in World
    BY <1>1, SavedTypes DEF IInv
  <2>2. i - 1 \in Nat /\ \A j \in 1..(i - 1) : stack'[j] = stack[j]
    BY <1>1
  <2>3. Covered(stack, i - 1, stack[i].saved) /\ Exact(stack, i - 1, stack[i].saved)
    BY <2>1 DEF Books, SavedCovered
  <2>4. QED
    BY <2>1, <2>2, <2>3, PrefixCovered
<1>3. Covered(stack', n - 1, world') /\ Exact(stack', n - 1, world')
  <2>1. n - 1 \in Nat
    BY <1>1
  <2> HIDE DEF n
  <2>2. QED
    BY <1>1, <2>1, PrefixCovered DEF n
<1>4. WorldCovered'
  <2>1. \A j \in 1..(n - 2) : j \in 1..(n - 1)
    BY <1>1
  <2>2. Exact(stack', n - 2, world')
    BY <1>3, <2>1 DEF Exact
  <2>3. Len(stack') - 1 = n - 2
    BY <1>1
  <2>4. QED
    BY <1>1, <1>3, <2>2, <2>3 DEF WorldCovered
<1>5. LockedFresh'
  BY <1>1 DEF Books, LockedFresh
<1>6. ShortMoved'
  <2> SUFFICES ASSUME stack' # << >>
               PROVE  escrows'[Top'.id].token \notin SkimTokens
    BY DEF ShortMoved
  <2>1. stack' \in Seq(Frame)
    BY DEF IInv, TypeOK
  <2>2. Len(stack') \in 1..(n - 1)
    BY <1>1, <2>1, EmptySeq
  <2>3. Top' = stack'[Len(stack')]
    BY DEF Top
  <2>4. QED
    BY <1>3, <2>2, <2>3 DEF Exact, world
<1>7. QED
  BY <1>2, <1>4, <1>5, <1>6 DEF Books

\* A call returns when nothing is owed or awaited under its frame any more:
\* lock() has seen its amount come in, which a token that keeps a unit of it
\* cannot show.
LEMMA ReturnBooks ==
    ASSUME IInv, IInv', Books, Return
    PROVE  Books'
<1> DEFINE c == Top.id
           n == Len(stack)
<1>1. /\ TypeOK /\ stack # << >> /\ stack' = Pop /\ world' = world /\ Top.moved
      /\ Top.op = "lock" => balance[escrows[c].token] = Top.before + escrows[c].amount
      /\ world \in World
  BY DEF IInv, Return, ReceivedAll, world, TypeOK
<1>2. /\ n \in Nat \ {0} /\ n \in 1..n /\ n - 1 \in Nat /\ c \in Ids
      /\ Top = stack[n] /\ Top \in Frame /\ Top.before \in Nat
      /\ \A i : i \in 1..n <=> i \in 1..(n - 1) \/ i = n
  BY <1>1, TopFrame DEF TypeOK, Frame
<1>3. Top.op = "lock" => escrows[c].token \notin SkimTokens
  <2>1. escrows[c].amount \in Nat
    BY <1>1, <1>2, WorldParts DEF Escrow
  <2>2. (Top.op = "lock" /\ escrows[c].token \in SkimTokens) =>
           balance[escrows[c].token] = Top.before + (escrows[c].amount - 1)
    BY <1>1 DEF Books, ShortMoved
  <2> HIDE DEF c
  <2>3. QED
    BY <1>1, <1>2, <2>1, <2>2
<1>4. ASSUME NEW d \in Ids, NEW t \in Tokens
      PROVE  Claims(stack, n - 1, world, t, d) = Claims(stack, n, world, t, d)
  <2> DEFINE e == escrows[d]
  <2>1. Owing(stack, n - 1, d) <=> Owing(stack, n, d)
    BY <1>1, <1>2 DEF Owing
  <2>2. (\E j \in 1..(n - 1) : stack[j].id = d /\ stack[j].op = "lock" /\ ~stack[j].moved)
          <=> (\E j \in 1..n : stack[j].id = d /\ stack[j].op = "lock" /\ ~stack[j].moved)
    BY <1>1, <1>2
  <2>3. e.token \in SkimTokens => (Locking(stack, n - 1, d) <=> Locking(stack, n, d))
    BY <1>2, <1>3 DEF Locking
  <2>4. Awaited(stack, n - 1, e, d) = Awaited(stack, n, e, d)
    BY <2>2, <2>3 DEF Awaited
  <2>5. QED
    BY <2>1, <2>4 DEF Claims, world
<1>5. Covered(stack, n - 1, world)
  <2>1. Covered(stack, n, world)
    BY DEF Books, WorldCovered
  <2>2. \A t \in Tokens : world.balance[t] >= world.balance[t]
    BY <1>1 DEF World
  <2> HIDE DEF n
  <2>3. QED
    BY <1>1, <1>2, <1>4, <2>1, <2>2, CoveredSame
<1>6. Exact(stack, n - 1, world)
  BY DEF Books, WorldCovered
<1>7. QED
  BY <1>1, <1>5, <1>6, BooksPop

\* A call that reverts leaves the books as it found them.
LEMMA RevertBooks ==
    ASSUME IInv, IInv', Books, Revert
    PROVE  Books'
<1>1. TypeOK /\ stack # << >> /\ stack' = Pop
  BY DEF IInv, Revert
<1>2. Len(stack) \in 1..Len(stack) /\ Top = stack[Len(stack)] /\ Top \in Frame
  BY <1>1, TopFrame DEF TypeOK
<1>3. world' = stack[Len(stack)].saved
  <2>1. Top.saved \in World
    BY <1>2 DEF Frame
  <2>2. Top.saved = [escrows |-> Top.saved.escrows, balance |-> Top.saved.balance,
                     payouts |-> Top.saved.payouts, logs |-> Top.saved.logs]
    BY <2>1 DEF World
  <2>3. QED
    BY <1>2, <2>2 DEF Revert, world
<1>4. Covered(stack, Len(stack) - 1, world') /\ Exact(stack, Len(stack) - 1, world')
  BY <1>2, <1>3 DEF Books, SavedCovered
<1>5. QED
  BY <1>1, <1>4, BooksPop

\* Tokens nobody asked for only add to a balance, and not to that of a token
\* whose lock is under way and keeps part of it.
LEMMA DonateBooks ==
    ASSUME IInv, IInv', Books, NEW t \in Tokens, Donate(t)
    PROVE  Books'
<1>1. /\ TypeOK /\ stack' = stack /\ escrows' = escrows
      /\ balance' = [balance EXCEPT ![t] = @ + 1]
      /\ stack # << >> => escrows[Top.id].token \notin SkimTokens
      /\ world \in World /\ world' \in World /\ Len(stack) \in Nat
  BY DEF IInv, Donate, TypeOK
<1>2. balance \in [Tokens -> Nat]
  BY <1>1, WorldParts
<1>3. Covered(stack, Len(stack), world')
  <2>1. Covered(stack, Len(stack), world)
    BY DEF Books, WorldCovered
  <2>2. \A u \in Tokens : world'.balance[u] >= world.balance[u]
    BY <1>1, <1>2 DEF world
  <2>3. \A d \in Ids, u \in Tokens :
           Claims(stack, Len(stack), world', u, d) = Claims(stack, Len(stack), world, u, d)
    BY <1>1 DEF Claims, world
  <2>4. QED
    BY <1>1, <2>1, <2>2, <2>3, CoveredSame
<1>4. Exact(stack, Len(stack) - 1, world')
  BY <1>1 DEF Books, WorldCovered, Exact, world
<1>5. WorldCovered'
  BY <1>1, <1>3, <1>4 DEF WorldCovered
<1>6. SavedCovered' /\ LockedFresh'
  BY <1>1 DEF Books, SavedCovered, LockedFresh
<1>7. ShortMoved'
  BY <1>1 DEF ShortMoved, Top
<1>8. QED
  BY <1>5, <1>6, <1>7 DEF Books

LEMMA InitBooks ==
    ASSUME Init
    PROVE  Books
<1>1. IInv /\ world \in World
  BY InitInv DEF IInv, TypeOK
<1>2. stack = << >> /\ Len(stack) = 0
  BY DEF Init
<1>3. ASSUME NEW t \in Tokens
      PROVE  world.balance[t] >= Owed(stack, 0, world, t)
  <2> DEFINE f == [c \in Ids |-> Claims(stack, 0, world, t, c)]
  <2>1. \A c \in Ids : f[c] = 0
    BY <1>2 DEF Init, NoEscrow, world, Claims, Awaited, Locking, Owing
  <2>2. f \in [Ids -> Int] /\ IsFiniteSet(Ids)
    BY <2>1, EscrowAssumption
  <2>3. SumFunction(f) = 0
    <3> HIDE DEF f
    <3>1. Partial(f)[Ids] = 0
      BY <2>1, <2>2, PartialZero
    <3>2. QED
      BY <2>2, <3>1, SumIsPartial
  <2>4. balance[t] = 0
    BY DEF Init
  <2>5. QED
    BY <2>3, <2>4 DEF Owed, world
<1>4. WorldCovered
  BY <1>2, <1>3 DEF WorldCovered, Covered, Exact
<1>5. SavedCovered /\ LockedFresh /\ ShortMoved
  BY <1>2 DEF SavedCovered, LockedFresh, ShortMoved
<1>6. QED
  BY <1>4, <1>5 DEF Books

-----------------------------------------------------------------------------
(* The theorem *)

LEMMA NextBooks ==
    ASSUME IInv, IInv', Books, [Next]_vars
    PROVE  Books'
<1>1. CASE LockAny
  BY <1>1, LockBooks
<1>2. ASSUME NEW c \in Ids, NEW s \in Secrets, Claim(c, s)
      PROVE  Books'
  <2>1. /\ MayCall /\ escrows[c].status = "Locked" /\ PayOut("claim", c)
        /\ escrows' = [escrows EXCEPT ![c].status = "Claimed"]
    BY <1>2 DEF Claim, ClaimChecks
  <2>2. QED
    BY <2>1, SettlingBooks DEF Terminal
<1>3. ASSUME NEW c \in Ids, Refund(c)
      PROVE  Books'
  <2>1. /\ MayCall /\ escrows[c].status = "Locked" /\ PayOut("refund", c)
        /\ escrows' = [escrows EXCEPT ![c].status = "Refunded"]
    BY <1>3 DEF Refund, RefundChecks
  <2>2. QED
    BY <2>1, SettlingBooks DEF Terminal
<1>4. CASE MoveIn
  BY <1>4, MoveInBooks
<1>5. CASE MoveOut
  BY <1>5, MoveOutBooks
<1>6. CASE Return
  BY <1>6, ReturnBooks
<1>7. CASE Revert
  BY <1>7, RevertBooks
<1>8. ASSUME NEW t \in Tokens, Donate(t)
      PROVE  Books'
  BY <1>8, DonateBooks
<1>9. CASE Tick \/ UNCHANGED vars
  <2>1. /\ world' = world /\ stack' = stack
        /\ escrows' = escrows /\ balance' = balance
    BY <1>9 DEF Tick, vars, world
  <2>2. SavedCovered' /\ LockedFresh'
    BY <2>1 DEF Books, SavedCovered, LockedFresh
  <2>3. WorldCovered'
    BY <2>1 DEF Books, WorldCovered
  <2>4. ShortMoved'
    BY <2>1 DEF Books, ShortMoved, Top
  <2>5. QED
    BY <2>2, <2>3, <2>4 DEF Books
<1>10. QED
  BY <1>1, <1>2, <1>3, <1>4, <1>5, <1>6, <1>7, <1>8, <1>9 DEF Next

\* Of a state no frame is pending in, the books say what is locked.
LEMMA CommittedSolvent ==
    ASSUME IInv, Books
    PROVE  Solvent
<1> SUFFICES ASSUME NEW t \in Tokens
             PROVE  committed.balance[t]
                       >= SumFunction([c \in Ids |-> Held(committed.escrows[c], t)])
  BY DEF Solvent
<1>1. Covered(stack, 0, committed)
  <2>1. CASE stack = << >>
    BY <2>1 DEF Books, WorldCovered, committed
  <2>2. CASE stack # << >>
    <3>1. 1 \in 1..Len(stack)
      BY <2>2, EmptySeq DEF IInv, TypeOK
    <3>2. QED
      BY <2>2, <3>1 DEF Books, SavedCovered, committed
  <2>3. QED
    BY <2>1, <2>2
<1>2. committed.balance[t] >= Owed(stack, 0, committed, t)
  BY <1>1 DEF Covered
<1>3. ASSUME NEW c \in Ids
      PROVE  Claims(stack, 0, committed, t, c) = Held(committed.escrows[c], t)
  <2>1. committed.escrows[c].amount \in Nat
    BY CommittedSound DEF CommittedOK, World, Escrow
  <2>2. ~Owing(stack, 0, c) /\ Awaited(stack, 0, committed.escrows[c], c) = 0
    BY DEF Owing, Awaited, Locking
  <2>3. QED
    BY <2>1, <2>2 DEF Claims, Held
<1>4. [c \in Ids |-> Claims(stack, 0, committed, t, c)]
         = [c \in Ids |-> Held(committed.escrows[c], t)]
  BY <1>3
<1>5. QED
  BY <1>2, <1>4 DEF Owed

\* The contract always holds, of each token, the sum of what is locked in it.
THEOREM SolventAlways == Spec => []Solvent
<1>1. Init => Books
  BY InitBooks
<1>2. IInv /\ IInv' /\ Books /\ [Next]_vars => Books'
  BY NextBooks
<1>3. IInv /\ Books => Solvent
  BY CommittedSolvent
<1>4. QED
  BY <1>1, <1>2, <1>3, Invariant, PTL DEF Spec
=============================================================================
