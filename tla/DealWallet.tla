------------------------------ MODULE DealWallet ------------------------------
(***************************************************************************)
(* DealWalletApp (tclk-rail-evm/src/app/orchestrator.ts): the wallets of   *)
(* the payer and of the payee of one accepted contract, the room they      *)
(* share and the chain.  Both run the code; nobody else speaks of their    *)
(* contract.                                                               *)
(*                                                                         *)
(* A call of a wallet is a task that gives way at every await: for the     *)
(* mutex, for an answer of the chain's node, for a receipt, for the room   *)
(* server.  Any of these may fail.  A process may stop between two steps:  *)
(* what it held in memory is lost and the room is replayed.                *)
(*                                                                         *)
(* The deal is module Deal's; sequence numbers of records are module       *)
(* DealRoom's subject and left out.  The escrow holds the agreed terms and *)
(* is modelled by its status; clocks agree.                                *)
(***************************************************************************)
EXTENDS Deal, Sequences, SequencesExt

CONSTANTS
    Contract,     \* the contract both wallets hold
    Secret,       \* the payee's
    EvmRail,      \* "evm-htlc"
    NoDeal,       \* getDeal() finds nothing
    Tasks,        \* what may run at a time
    WalletOf,     \* [Tasks -> the wallet the task is of]
    Plans,        \* bound: the sets of calls and restarts of which a behaviour makes one
    Http,         \* the room is reached over HTTP, not in memory
    AutoArchive   \* config.autoArchive

payer == Payer(Contract)
payee == Payee(Contract)
Wallets == {payer, payee}
Keys == {"contract", "offer"}
Ops == {"sync", "verify", "lock", "reveal", "claim", "refund", "cancel", "archive"}

ASSUME WalletAssumption ==
    /\ Contract \in Contracts /\ EvmRail \in Contract.offer.rails
    /\ Secret \in Secrets /\ Sha256[Secret] = Contract.statement
    /\ WalletOf \in [Tasks -> Wallets]
    /\ Plans \subseteq SUBSET [wallet : Wallets, op : Ops \cup {"restart"}, key : Keys, time : Nat]
    /\ Http \in BOOLEAN /\ AutoArchive \in BOOLEAN
    /\ NoDeal \notin Deal

VARIABLES
    room,      \* Seq([frame, ts])
    deals,     \* each wallet's DealManager of the contract, or NoDeal
    seen,      \* seenRecordKeys of each wallet's adapter
    preimage,  \* the payee's session holds the secret
    queue,     \* who holds and who awaits the mutex of a key
    tasks,
    saved,     \* the outcome in each wallet's ArchiveStore, or "none"
    escrow,    \* the status on the chain
    pool,      \* the transactions not mined yet
    reverted,  \* the transactions mined without effect
    now,
    todo       \* what is left of the plan

memory == <<deals, seen, preimage>>
chain == <<escrow, pool, reverted>>
control == <<tasks, queue>>
vars == <<room, memory, control, saved, chain, now, todo>>

Deadline == Contract.offer.refundAfterMs

OfferFrame == [type |-> "offer", from |-> Contract.offer.from, offer |-> Contract.offer,
               id |-> Contract.offer]
AcceptFrame == [type |-> "accept", from |-> Contract.from, ref |-> Contract.offer,
                statement |-> Contract.statement, contract |-> Contract]

Frame(type, w, op) ==
    CASE type = "lock" -> [type |-> type, from |-> w, contract |-> Contract, rail |-> EvmRail,
                           ref |-> Contract]
      [] type = "reveal" -> [type |-> type, from |-> w, contract |-> Contract, secret |-> Secret]
      [] type = "receipt" -> [type |-> type, from |-> w, contract |-> Contract,
                              outcome |-> IF op = "claim" THEN "claimed" ELSE "refunded"]
      [] OTHER -> [type |-> type, from |-> w, contract |-> Contract]

\* What an operation tells the room once it is done.
Says == [op \in Ops |-> CASE op = "lock" -> <<"lock">>
                          [] op = "reveal" -> <<"reveal">>
                          [] op = "claim" -> <<"receipt">>
                          [] op = "refund" -> <<"refund", "receipt">>
                          [] op = "cancel" -> <<"cancel">>
                          [] OTHER -> << >>]

Task == [op : Ops \cup {"none"}, key : Keys, at : Nat, upto : Nat,
         says : Seq(Stages \cup {"cancel"}),
         pc : {"idle", "enter", "check", "search", "submit", "wait", "recheck", "verify",
               "send", "ingest", "save", "fetch", "records", "reconcile"}]

Idle == [op |-> "none", key |-> "contract", at |-> 0, upto |-> 0, says |-> << >>, pc |-> "idle"]

\* The payee accepted the payer's offer and both have met the other's record.
Accepted == applyAccept(NewDeal(Contract.offer), AcceptFrame)
OwnKey(n) == IF Http THEN <<0, n>> ELSE <<n, n>>

Init == /\ room = << [frame |-> OfferFrame, ts |-> 0], [frame |-> AcceptFrame, ts |-> 0] >>
        /\ deals = [w \in Wallets |-> Accepted]
        /\ seen = [w \in Wallets |-> IF w = Contract.from THEN {<<1, 1>>, OwnKey(2)}
                                     ELSE {OwnKey(1), <<1, 1>>, <<2, 2>>}]
        /\ preimage = TRUE
        /\ queue = [w \in Wallets |-> [k \in Keys |-> << >>]]
        /\ tasks = [t \in Tasks |-> Idle]
        /\ saved = [w \in Wallets |-> "none"]
        /\ escrow = "None" /\ pool = {} /\ reverted = {}
        /\ now = 0
        /\ todo \in Plans

-----------------------------------------------------------------------------
(* Tasks and the mutex *)

At(t, pc) == tasks[t].pc = pc
Op(t) == tasks[t].op
deal(t) == deals[WalletOf[t]]
found(d) == d # NoDeal /\ d.contractId = Contract

Go(t, pc) == tasks' = [tasks EXCEPT ![t].pc = pc] /\ UNCHANGED queue

\* Mutant: a task that throws keeps the mutex.
Keep(t) == UNCHANGED queue

\* runExclusive(): finally release(), of what the task holds.
Release(t) ==
    LET waiting(k) == queue[WalletOf[t]][k]
    IN  queue' = [queue EXCEPT ![WalletOf[t]] =
            [k \in Keys |-> IF waiting(k) # << >> /\ Head(waiting(k)) = t THEN Tail(waiting(k))
                                                                       ELSE waiting(k)]]

\* The call returns or throws.
End(t) == tasks' = [tasks EXCEPT ![t] = Idle] /\ Release(t)

\* The task joins the queue of the mutex of key.
Join(t, op, key) ==
    /\ tasks' = [tasks EXCEPT ![t] = [@ EXCEPT !.op = op, !.key = key, !.pc = "enter", !.says = Says[op]]]
    /\ queue' = [queue EXCEPT ![WalletOf[t]][key] = Append(@, t)]

Unlocked == [sync |-> "fetch", verify |-> "check"]

Call(t, c) ==
    /\ At(t, "idle") /\ c.wallet = WalletOf[t] /\ c.op # "restart"
    /\ todo' = todo \ {c}
    /\ \/ /\ c.op \in DOMAIN Unlocked
          /\ tasks' = [tasks EXCEPT ![t] = [@ EXCEPT !.op = c.op, !.pc = Unlocked[c.op]]]
          /\ UNCHANGED queue
       \/ c.op \notin DOMAIN Unlocked /\ Join(t, c.op, c.key)
    /\ UNCHANGED <<room, memory, saved, chain, now>>

\* What a call asks of the deal before its first await.
Admits(t) ==
    /\ found(deal(t))
    /\ CASE Op(t) = "lock"    -> deal(t).status \in {"ACCEPTED", "LOCKED"} /\ WalletOf[t] = payer
         [] Op(t) = "reveal"  -> /\ deal(t).status \in {"VERIFIED", "LOCKED"}
                                 /\ WalletOf[t] = payee /\ preimage
         [] Op(t) = "refund"  -> WalletOf[t] = payer
         [] Op(t) = "archive" -> isTerminal(deal(t))
         [] OTHER -> TRUE

First == [op \in Ops |-> CASE op = "reveal" -> "send" [] op = "archive" -> "save" [] OTHER -> "check"]

\* Mutant: nobody waits for the mutex.
EnterAtOnce(t) == /\ At(t, "enter")
                  /\ IF Admits(t) THEN Go(t, First[Op(t)]) ELSE End(t)
                  /\ UNCHANGED <<room, memory, saved, chain, now, todo>>

\* The mutex is ours once everybody who came before has left, ourselves included.
Enter(t) == LET waiting == queue[WalletOf[t]][tasks[t].key] IN
            /\ At(t, "enter")
            /\ Head(waiting) = t /\ ~Contains(Tail(waiting), t)
            /\ IF Admits(t) THEN Go(t, First[Op(t)]) ELSE End(t)
            /\ UNCHANGED <<room, memory, saved, chain, now, todo>>

-----------------------------------------------------------------------------
(* The chain *)

\* read(): an escrow that does not exist and a failed call are both null.
Null == "None"
Answers == {escrow, Null}

Goal == [lock |-> "Locked", claim |-> "Claimed", refund |-> "Refunded"]

\* The guards of a transaction.
Runs(k) == CASE k = "lock"   -> escrow = "None" /\ now < Deadline
             [] k = "claim"  -> escrow = "Locked" /\ now < Deadline
             [] k = "refund" -> escrow = "Locked" /\ now >= Deadline

\* It has its effect if they hold when it is mined and the funds can be moved.
Mine(k) == /\ k \in pool
           /\ pool' = pool \ {k}
           /\ \/ Runs(k) /\ escrow' = Goal[k] /\ UNCHANGED reverted
              \/ reverted' = reverted \cup {k} /\ UNCHANGED escrow
           /\ UNCHANGED <<room, memory, control, saved, now, todo>>

Elapse == /\ now < Deadline
          /\ now' = now + 1
          /\ UNCHANGED <<room, memory, control, saved, chain, todo>>

-----------------------------------------------------------------------------
(* Reading before acting *)

Becomes(t, d) == deals' = [deals EXCEPT ![WalletOf[t]] = d]

claimed(d) == IF d.status = "REVEALED" THEN applyClaim(d) ELSE d

\* The deal is refunded unless it ended before; a deal that cannot be, throws.
Refunding(t) ==
    \/ isTerminal(deal(t)) /\ Go(t, "send") /\ UNCHANGED deals
    \/ ~isTerminal(deal(t)) /\ CanRefund(deal(t), WalletOf[t], now)
       /\ Becomes(t, applyRefund(deal(t))) /\ Go(t, "send")
    \/ ~isTerminal(deal(t)) /\ ~CanRefund(deal(t), WalletOf[t], now) /\ End(t) /\ UNCHANGED deals

holds(t) == preimage /\ WalletOf[t] = payee

\* The first await of an operation: what the chain holds, as far as we can tell.
Checking(t, op, held) == At(t, "check") /\ Op(t) = op /\ held \in Answers

Checked == UNCHANGED <<room, seen, preimage, saved, chain, now, todo>>

CheckLock(t, held) == /\ Checking(t, "lock", held)
                      /\ Go(t, IF held = "Locked" THEN "verify" ELSE "submit")
                      /\ UNCHANGED deals /\ Checked

CheckClaim(t, held) == /\ Checking(t, "claim", held)
                       /\ IF held = "Claimed" THEN Becomes(t, claimed(deal(t))) /\ Go(t, "send")
                          ELSE UNCHANGED deals /\ Go(t, IF holds(t) THEN "submit" ELSE "search")
                       /\ Checked

CheckRefund(t, held) == /\ Checking(t, "refund", held)
                        /\ IF held = "Refunded" THEN Refunding(t)
                           ELSE UNCHANGED deals /\ Go(t, "submit")
                        /\ Checked

\* cancelDeal() cancels first and then tells the room.
CheckCancel(t, held) == /\ Checking(t, "cancel", held)
                        /\ IF held # "Locked" /\ CanCancel(deal(t), WalletOf[t])
                           THEN Becomes(t, applyCancel(deal(t))) /\ Go(t, "send")
                           ELSE UNCHANGED deals /\ End(t)
                        /\ Checked

\* verifyLock() takes no mutex.
CheckVerify(t, held) ==
    /\ Checking(t, "verify", held)
    /\ IF held = "Locked" /\ found(deal(t)) /\ deal(t).status = "LOCKED"
       THEN Becomes(t, markVerified(deal(t))) ELSE UNCHANGED deals
    /\ End(t)
    /\ Checked

SaysIn(n, type) == room[n].frame.type = type

\* claimFunds() without the secret looks for it in the room.
Search(t) == /\ At(t, "search")
             /\ IF \E n \in DOMAIN room : SaysIn(n, "reveal") THEN Go(t, "submit") ELSE End(t)
             /\ UNCHANGED <<room, memory, saved, chain, now, todo>>

-----------------------------------------------------------------------------
(* Transactions *)

wipes(t) == preimage' = (preimage /\ WalletOf[t] # payee)

\* Mutant: a receipt is all that a lock needs.
SettleUnverified(t) ==
    \/ Op(t) = "lock" /\ Go(t, "send") /\ UNCHANGED <<deals, preimage>>
    \/ Op(t) = "claim" /\ wipes(t) /\ Becomes(t, claimed(deal(t))) /\ Go(t, "send")
    \/ Op(t) = "refund" /\ Refunding(t) /\ UNCHANGED preimage

\* The rail's method has returned.
Settle(t) ==
    \/ Op(t) = "lock" /\ Go(t, "verify") /\ UNCHANGED <<deals, preimage>>
    \/ Op(t) = "claim" /\ wipes(t) /\ Becomes(t, claimed(deal(t))) /\ Go(t, "send")
    \/ Op(t) = "refund" /\ Refunding(t) /\ UNCHANGED preimage

\* What the rail asks for before it sends a transaction.
Sends(op, held) == CASE op = "lock"   -> held = Null /\ now < Deadline
                     [] op = "claim"  -> held = "Locked" /\ now < Deadline
                     [] op = "refund" -> held = "Locked" /\ now >= Deadline

\* The rail reads once more.  A claim or a refund already there is enough;
\* otherwise it refuses, or sends, and the node may fail to answer.
Submit(t) ==
    /\ At(t, "submit")
    /\ \E held \in Answers :
          \/ /\ Op(t) # "lock" /\ held = Goal[Op(t)]
             /\ Settle(t) /\ UNCHANGED pool
          \/ /\ Op(t) = "lock" \/ held # Goal[Op(t)]
             /\ Go(t, "recheck") /\ UNCHANGED <<deals, preimage, pool>>
          \/ /\ Sends(Op(t), held)
             /\ pool' = pool \cup {Op(t)}
             /\ \E pc \in {"wait", "recheck"} : Go(t, pc)
             /\ UNCHANGED <<deals, preimage>>
    /\ UNCHANGED <<room, seen, saved, escrow, reverted, now, todo>>

\* A receipt resolves whatever it says; waiting for it may time out.
Wait(t) == /\ At(t, "wait")
           /\ \/ Op(t) \notin pool /\ Settle(t)
              \/ Go(t, "recheck") /\ UNCHANGED <<deals, preimage>>
           /\ UNCHANGED <<room, seen, saved, chain, now, todo>>

\* Mutant: a read that fails counts as the effect.
RecheckTrusting(t) ==
    /\ At(t, "recheck")
    /\ \E held \in Answers : IF held \in {Goal[Op(t)], Null} THEN Settle(t)
                             ELSE End(t) /\ UNCHANGED <<deals, preimage>>
    /\ UNCHANGED <<room, seen, saved, chain, now, todo>>

\* After an error: the chain may hold the effect all the same.
Recheck(t) == /\ At(t, "recheck")
              /\ \E held \in Answers : IF held = Goal[Op(t)] THEN Settle(t)
                                       ELSE End(t) /\ UNCHANGED <<deals, preimage>>
              /\ UNCHANGED <<room, seen, saved, chain, now, todo>>

VerifyLock(t) == /\ At(t, "verify")
                 /\ \E held \in Answers : IF held = "Locked" THEN Go(t, "send") ELSE End(t)
                 /\ UNCHANGED <<room, memory, saved, chain, now, todo>>

-----------------------------------------------------------------------------
(* Telling the room *)

Said(t) == Append(room, [frame |-> Frame(Head(tasks[t].says), WalletOf[t], Op(t)), ts |-> now])

\* Mutant: the secret is wiped before it is sent.
SendWiped(t) ==
    /\ At(t, "send")
    /\ \/ /\ room' = Said(t)
          /\ tasks' = [tasks EXCEPT ![t].pc = "ingest", ![t].at = Len(room) + 1]
          /\ UNCHANGED queue
       \/ Http /\ room' \in {room, Said(t)} /\ End(t)
    /\ IF Op(t) = "reveal" THEN wipes(t) ELSE UNCHANGED preimage
    /\ UNCHANGED <<deals, seen, saved, chain, now, todo>>

\* The room server takes the record or not; over HTTP its answer may be lost.
Send(t) == /\ At(t, "send")
           /\ \/ /\ room' = Said(t)
                 /\ tasks' = [tasks EXCEPT ![t].pc = "ingest", ![t].at = Len(room) + 1]
                 /\ UNCHANGED queue
              \/ Http /\ room' \in {room, Said(t)} /\ End(t)
           /\ UNCHANGED <<memory, saved, chain, now, todo>>

\* ingestRecord() of a record of this contract by a wallet that holds d.
takes(d, r) == \/ r.frame.type = "offer"
               \/ r.frame.type = "accept" /\ d # NoDeal /\ Takes(d, r.frame, r.ts)
               \/ r.frame.type # "accept" /\ found(d) /\ Takes(d, r.frame, r.ts)

after(d, r) == IF r.frame.type = "offer" THEN NewDeal(Contract.offer) ELSE After(d, r.frame)

Remember(t, key) == seen' = [seen EXCEPT ![WalletOf[t]] = @ \cup {key}]

\* What follows the last record: the secret is wiped, the deal archived.
Finish(t) ==
    \/ /\ Tail(tasks[t].says) # << >>
       /\ tasks' = [tasks EXCEPT ![t].pc = "send", ![t].says = Tail(@)]
       /\ UNCHANGED <<queue, preimage>>
    \/ /\ Tail(tasks[t].says) = << >>
       /\ IF AutoArchive /\ Op(t) \in {"claim", "refund", "cancel"}
          THEN Join(t, "archive", "contract") ELSE End(t)
       /\ IF Op(t) = "reveal" THEN wipes(t) ELSE UNCHANGED preimage

Ingest(t) ==
    LET r == room[tasks[t].at] IN
    /\ At(t, "ingest")
    /\ \/ OwnKey(tasks[t].at) \in seen[WalletOf[t]] /\ Finish(t) /\ UNCHANGED <<deals, seen>>
       \/ /\ OwnKey(tasks[t].at) \notin seen[WalletOf[t]] /\ takes(deal(t), r)
          /\ Becomes(t, after(deal(t), r)) /\ Remember(t, OwnKey(tasks[t].at))
          /\ Finish(t)
       \/ /\ OwnKey(tasks[t].at) \notin seen[WalletOf[t]] /\ ~takes(deal(t), r)
          /\ End(t) /\ UNCHANGED memory
    /\ UNCHANGED <<room, saved, chain, now, todo>>

\* archiveDeal(): the export, the archiver and the store, any of which may fail.
Save(t) == /\ At(t, "save")
           /\ \/ saved' = [saved EXCEPT ![WalletOf[t]] = OutcomeOf(deal(t).status)]
              \/ UNCHANGED saved
           /\ End(t)
           /\ UNCHANGED <<room, memory, chain, now, todo>>

-----------------------------------------------------------------------------
(* sync() *)

Fetch(t) == /\ At(t, "fetch")
            /\ tasks' = [tasks EXCEPT ![t].pc = "records", ![t].at = 1, ![t].upto = Len(room)]
            /\ UNCHANGED <<room, memory, queue, saved, chain, now, todo>>

\* A refund that the room reports is taken at its word, at the deadline at least.
refuses(d, f) == f.type = "refund" /\ found(d) /\ ~isTerminal(d) /\ ~CanRefund(d, f.from, Deadline)

ahead(d, f) == CASE f.type = "receipt" /\ f.outcome = "claimed" /\ found(d) -> claimed(d)
                 [] f.type = "refund" /\ found(d) /\ ~isTerminal(d) -> applyRefund(d)
                 [] OTHER -> d

Stop(t) == End(t) /\ UNCHANGED seen

Advance(t) == /\ tasks' = [tasks EXCEPT ![t].at = @ + 1,
                              ![t].pc = IF tasks[t].at = tasks[t].upto THEN "reconcile" ELSE @]
              /\ UNCHANGED queue

\* The first record that throws ends the whole of sync().
Record(t) ==
    LET n == tasks[t].at
        r == room[n]
        d == ahead(deal(t), r.frame) IN
    /\ At(t, "records")
    /\ \/ refuses(deal(t), r.frame) /\ Stop(t) /\ UNCHANGED deals
       \/ /\ ~refuses(deal(t), r.frame)
          /\ \/ <<n, n>> \in seen[WalletOf[t]] /\ Becomes(t, d) /\ Advance(t) /\ UNCHANGED seen
             \/ /\ <<n, n>> \notin seen[WalletOf[t]] /\ takes(d, r)
                /\ Becomes(t, after(d, r)) /\ Remember(t, <<n, n>>) /\ Advance(t)
             \/ /\ <<n, n>> \notin seen[WalletOf[t]] /\ ~takes(d, r)
                /\ Becomes(t, d) /\ Stop(t)
    /\ UNCHANGED <<room, preimage, saved, chain, now, todo>>

reconciled(d, held) ==
    CASE held = "Locked" /\ d.status = "LOCKED" -> markVerified(d)
      [] held = "Claimed" -> claimed(d)
      [] held = "Refunded" /\ ~isTerminal(d) /\ CanRefund(d, payer, now) -> applyRefund(d)
      [] OTHER -> d

Reconcile(t) == /\ At(t, "reconcile")
                /\ \E held \in Answers :
                      IF found(deal(t)) THEN Becomes(t, reconciled(deal(t), held)) ELSE UNCHANGED deals
                /\ End(t)
                /\ UNCHANGED <<room, seen, preimage, saved, chain, now, todo>>

-----------------------------------------------------------------------------
\* The process of a wallet stops and starts again with nothing but its store.
Restart(c) ==
    /\ c.op = "restart"
    /\ todo' = todo \ {c}
    /\ deals' = [deals EXCEPT ![c.wallet] = NoDeal]
    /\ seen' = [seen EXCEPT ![c.wallet] = {}]
    /\ preimage' = (preimage /\ c.wallet # payee)
    /\ tasks' = [t \in Tasks |-> IF WalletOf[t] = c.wallet THEN Idle ELSE tasks[t]]
    /\ queue' = [queue EXCEPT ![c.wallet] = [k \in Keys |-> << >>]]
    /\ UNCHANGED <<room, saved, chain, now>>

Check(t) == \E held \in Answers : \/ CheckLock(t, held) \/ CheckClaim(t, held)
                                  \/ CheckRefund(t, held) \/ CheckCancel(t, held)
                                  \/ CheckVerify(t, held)

Step(t) == \/ Enter(t) \/ Check(t) \/ Search(t) \/ Submit(t) \/ Wait(t) \/ Recheck(t)
           \/ VerifyLock(t) \/ Send(t) \/ Ingest(t) \/ Save(t)
           \/ Fetch(t) \/ Record(t) \/ Reconcile(t)

Next == \/ \E t \in Tasks : (\E c \in todo : Call(t, c)) \/ Step(t)
        \/ \E k \in DOMAIN Goal : Mine(k)
        \/ Elapse
        \/ \E c \in todo : Restart(c)

Spec == Init /\ [][Next]_vars

\* The event loop runs whatever an await has been answered for, and every
\* request for an answer is answered or given up.
FairSpec == Spec /\ WF_vars(\E t \in Tasks : Step(t))

-----------------------------------------------------------------------------
(* Properties *)

Waits(t, key) == Contains(queue[WalletOf[t]][key], t)

\* Types of the state; a task under a mutex is in its queue, and at the head of it
\* once it has entered.
TypeOK ==
    /\ room \in Seq([frame : OfferFrames \cup DealFrames, ts : 0..Deadline])
    /\ deals \in [Wallets -> Deal \cup {NoDeal}]
    /\ seen \in [Wallets -> SUBSET (Nat \X Nat)]
    /\ preimage \in BOOLEAN
    /\ tasks \in [Tasks -> Task]
    /\ queue \in [Wallets -> [Keys -> Seq(Tasks)]]
    /\ saved \in [Wallets -> Outcomes \cup {"none"}]
    /\ escrow \in {"None", "Locked", "Claimed", "Refunded"}
    /\ pool \cup reverted \subseteq DOMAIN Goal
    /\ \A t \in Tasks : Op(t) \in DOMAIN Says \ DOMAIN Unlocked =>
          /\ Waits(t, tasks[t].key)
          /\ ~At(t, "enter") => Head(queue[WalletOf[t]][tasks[t].key]) = t

\* What ended on the chain, as far as the code can know it: it does not look at the
\* receipt, and takes a transaction mined without effect for one that had it.  A claim
\* is then still open or lost; after a refund nothing but another refund can come.
Ended(outcome) ==
    CASE outcome = "claimed"  -> escrow = "Claimed" \/ ("claim" \in reverted /\ escrow # "None")
      [] outcome = "refunded" -> \/ escrow = "Refunded"
                                 \/ "refund" \in reverted /\ escrow = "Locked" /\ now >= Deadline
      [] OTHER -> TRUE

Backed(f) == CASE f.type \in {"lock", "reveal"} -> escrow # "None"
               [] f.type = "refund" -> Ended("refunded")
               [] f.type = "receipt" -> Ended(f.outcome)
               [] OTHER -> TRUE

\* Whatever fails, is lost, or is called again: what a wallet tells the room of
\* the escrow has happened on the chain, or a transaction of its own that should
\* have made it so was mined without effect.
RoomTellsChain == \A n \in DOMAIN room : Backed(room[n].frame)

\* What a wallet holds or has stored about a deal agrees with the chain in the same
\* sense, also after a replay and in the wallet that only heard of it.  So one says
\* claimed and the other refunded only if a claim was mined without effect.
DealsTellChain == \A w \in Wallets :
    /\ saved[w] # "none" => Ended(saved[w])
    /\ found(deals[w]) =>
          /\ deals[w].status \in {"LOCKED", "VERIFIED", "REVEALED"} => escrow # "None"
          /\ isTerminal(deals[w]) => Ended(OutcomeOf(deals[w].status))

Public == \/ \E n \in DOMAIN room : SaysIn(n, "reveal")
          \/ escrow = "Claimed" \/ "claim" \in pool \cup reverted

\* The payee's only copy of the secret is not wiped before others can read it:
\* the funds could not be claimed any more.
SecretKept == [][preimage /\ ~preimage' => Public' \/ seen'[payee] = {}]_vars

\* Every call returns or throws; none holds a mutex for ever.
EveryCallEnds == <>[](\A t \in Tasks : At(t, "idle"))

\* As the wallet's tests have it, duplicate room frames are handled idempotently:
\* sync() does not stop at a frame that the room already had.
DuplicatesTaken == [][\A t \in Tasks :
    At(t, "records") /\ At(t, "idle")' /\ deals'[WalletOf[t]] # NoDeal =>
        \A n \in 1..(tasks[t].at - 1) : room[n].frame # room[tasks[t].at].frame]_vars
=============================================================================
