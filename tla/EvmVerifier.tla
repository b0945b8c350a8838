----------------------------- MODULE EvmVerifier -----------------------------
(***************************************************************************)
(* Settlement evidence from a chain (evm_verifier.py).                     *)
(* build_rpc_settlement_evidence asks a node for the chain id and then for *)
(* up to three receipts, one RPC call after the other, while the chain     *)
(* goes on and may drop its last blocks again.                             *)
(*                                                                         *)
(* The chain holds deployments of Htlc.sol (see Settlement for their       *)
(* rules) and nothing else that logs their events.  A transaction is its   *)
(* contents, which is what its hash stands for: after a reorganisation it  *)
(* may be mined again, with another outcome.                               *)
(***************************************************************************)
EXTENDS Naturals, Sequences, SequencesExt, FiniteSets

CONSTANTS
    Deployments,  \* addresses of deployed HTLC contracts
    Ids,          \* contract ids
    Terms,        \* terms of an escrow: [payer, payee, token, amount, hashlock, refund]
    Native,       \* the zero address, as a token
    SilentTokens, \* ERC-20 tokens that log no Transfer
    Secrets,
    Sha256,
    Txs,          \* transactions that may be sent: [to, calls]
    Requests,     \* arguments of build_rpc_settlement_evidence
    None,         \* Python's None
    MaxBlocks,    \* bound on the chain
    MaxReorgs     \* bound on the reorganisations

Call == [do : {"lock"}, at : Deployments, id : Ids, terms : Terms]
        \cup [do : {"claim"}, at : Deployments, id : Ids, secret : Secrets]
        \cup [do : {"refund"}, at : Deployments, id : Ids]

Log == [name : {"Transfer"}, address : {t.token : t \in Terms}, from : {t.payer : t \in Terms},
        to : Deployments, amount : {t.amount : t \in Terms}]
       \cup [name : {"Locked"}, address : Deployments, id : Ids, terms : Terms]
       \cup [name : {"Claimed"}, address : Deployments, id : Ids, secret : Secrets]
       \cup [name : {"Refunded"}, address : Deployments, id : Ids]

Event == [log : Log, block : 1..MaxBlocks]

ASSUME EvmVerifierAssumption ==
    /\ MaxBlocks \in Nat /\ MaxReorgs \in Nat
    /\ Sha256 \in [Secrets -> {t.hashlock : t \in Terms}]
    /\ \A tx \in Txs : tx.calls \in Seq(Call)
    /\ None \notin Deployments \cup Ids \cup Event \cup {"here"}

VARIABLES
    chain,     \* blocks of one transaction: [tx, ok, logs, escrows], oldest first
    reorgs,    \* how many reorganisations there have been
    request,   \* the arguments of the verification
    step,      \* the RPC call it makes next: "idle", "chain", "lock", "claim", "refund", "done", "failed"
    lock_event, claim_event, refund_event,
    rpcFailed, \* history: an RPC call failed
    asked      \* history: how many blocks there were when the verification began

chainVars == <<chain, reorgs>>
rpcVars == <<request, step, lock_event, claim_event, refund_event, rpcFailed, asked>>
evmVars == <<chainVars, rpcVars>>

-----------------------------------------------------------------------------
(* External: the chain *)

NoEscrow == [status |-> "None"]

EscrowsOf(c) == IF c = << >> THEN [x \in Deployments \X Ids |-> NoEscrow] ELSE Last(c).escrows

Runs(e, call, time) ==
    CASE call.do = "lock"   -> e.status = "None" /\ call.terms.refund > time
      [] call.do = "claim"  -> /\ e.status = "Locked" /\ time < e.terms.refund
                               /\ Sha256[call.secret] = e.terms.hashlock
      [] call.do = "refund" -> e.status = "Locked" /\ time >= e.terms.refund

Run(e, call) ==
    CASE call.do = "lock"   -> [status |-> "Locked", terms |-> call.terms, secret |-> None]
      [] call.do = "claim"  -> [e EXCEPT !.status = "Claimed", !.secret = call.secret]
      [] call.do = "refund" -> [e EXCEPT !.status = "Refunded"]

\* What a call logs: for a lock of tokens, the token's Transfer precedes the event.
LogsOf(call) ==
    CASE call.do = "lock" ->
           (IF call.terms.token \in SilentTokens \cup {Native} THEN << >>
            ELSE << [name |-> "Transfer", address |-> call.terms.token, from |-> call.terms.payer,
                     to |-> call.at, amount |-> call.terms.amount] >>)
           \o << [name |-> "Locked", address |-> call.at, id |-> call.id, terms |-> call.terms] >>
      [] call.do = "claim"  -> << [name |-> "Claimed", address |-> call.at, id |-> call.id,
                                   secret |-> call.secret] >>
      [] call.do = "refund" -> << [name |-> "Refunded", address |-> call.at, id |-> call.id] >>

Unrun(ok) == [ok |-> ok, escrows |-> EscrowsOf(chain), logs |-> << >>]

\* What a transaction has done, w, and one more call of it.
RunNext(w, call) ==
    LET place == <<call.at, call.id>>
    IN  IF w.ok /\ Runs(w.escrows[place], call, Len(chain) + 1)
        THEN [ok |-> TRUE, escrows |-> [w.escrows EXCEPT ![place] = Run(@, call)],
              logs |-> w.logs \o LogsOf(call)]
        ELSE Unrun(FALSE)

\* A transaction runs its calls in turn, all of them or none.
Execution(tx) ==
    LET after[k \in 0..Len(tx.calls)] ==
            IF k = 0 THEN Unrun(TRUE) ELSE RunNext(after[k - 1], tx.calls[k])
    IN  after[Len(tx.calls)]

Mine(tx) == /\ Len(chain) < MaxBlocks
            /\ \A i \in DOMAIN chain : chain[i].tx # tx
            /\ LET w == Execution(tx)
               IN  chain' = Append(chain, [tx |-> tx, ok |-> w.ok, escrows |-> w.escrows, logs |-> w.logs])
            /\ UNCHANGED <<reorgs, rpcVars>>

Reorganise == /\ reorgs < MaxReorgs
              /\ reorgs' = reorgs + 1
              /\ \E k \in 0..(Len(chain) - 1) : chain' = SubSeq(chain, 1, k)
              /\ UNCHANGED rpcVars

-----------------------------------------------------------------------------
(* Receipts and their events *)

\* parse_and_verify_erc20_transfer: the Transfer of the locked tokens is in the receipt.
erc20_transfer_in(logs, log) ==
    \E i \in DOMAIN logs : logs[i] = [name |-> "Transfer", address |-> log.terms.token,
                                      from |-> log.terms.payer, to |-> log.address,
                                      amount |-> log.terms.amount]

EmittedBy(log, htlc) == /\ log.name \in {"Locked", "Claimed", "Refunded"}
                        /\ htlc # None => log.address = htlc

\* Mutant: the native coin has to be transferred as well.
UnfundedAlways(logs, htlc) ==
    \E i \in DOMAIN logs : /\ EmittedBy(logs[i], htlc) /\ logs[i].name = "Locked"
                           /\ ~erc20_transfer_in(logs, logs[i])

\* A Locked event is only ever seen together with its Transfer; one without it,
\* whatever its contract id, ends the verification.
Unfunded(logs, htlc) ==
    \E i \in DOMAIN logs : /\ EmittedBy(logs[i], htlc) /\ logs[i].name = "Locked"
                           /\ logs[i].terms.token # Native
                           /\ ~erc20_transfer_in(logs, logs[i])

matching_events(logs, htlc, id, name) ==
    {i \in DOMAIN logs : /\ EmittedBy(logs[i], htlc)
                         /\ id # None => logs[i].id = id
                         /\ logs[i].name = name}

\* parse_and_verify_htlc_event accepts the receipt: it is of a transaction to the
\* expected contract that succeeded and logged exactly one such event.
HasEvent(r, htlc, id, name) == /\ r.ok
                               /\ htlc # None => r.tx.to = htlc
                               /\ ~Unfunded(r.logs, htlc)
                               /\ Cardinality(matching_events(r.logs, htlc, id, name)) = 1

TheEvent(r, block, htlc, id, name) ==
    LET log == r.logs[CHOOSE i \in matching_events(r.logs, htlc, id, name) : TRUE]
    IN  [log |-> log, block |-> block]

-----------------------------------------------------------------------------
(* build_rpc_settlement_evidence *)

NoRequest == [lock_tx |-> None, claim_tx |-> None, refund_tx |-> None,
              htlc |-> None, id |-> None, chain_id |-> None]

EvmInit == /\ chain = << >> /\ reorgs = 0
           /\ request = NoRequest /\ step = "idle"
           /\ lock_event = None /\ claim_event = None /\ refund_event = None
           /\ rpcFailed = FALSE /\ asked = 0

\* A request without the lock's hash or the chain's id is refused before any call.
Begin(r) == /\ step = "idle"
            /\ request' = r
            /\ step' = IF r.lock_tx = None \/ r.chain_id = None THEN "failed" ELSE "chain"
            /\ asked' = Len(chain)
            /\ UNCHANGED <<chainVars, lock_event, claim_event, refund_event, rpcFailed>>

Fail == step' = "failed" /\ UNCHANGED <<chainVars, request, lock_event, claim_event, refund_event>>

\* The node is of the chain "here".
FetchChainId == /\ step = "chain"
                /\ IF request.chain_id = "here"
                   THEN /\ step' = "lock"
                        /\ UNCHANGED <<chainVars, request, lock_event, claim_event, refund_event>>
                   ELSE Fail
                /\ UNCHANGED <<rpcFailed, asked>>

BlockOf(tx) == {i \in DOMAIN chain : chain[i].tx = tx}

\* Mutant: the claim is looked for at the contract the caller named, which may be none.
htlc_of_request == request.htlc

\* The contract the claim or the refund has to be of: that of the Locked event.
htlc_addr == IF lock_event = None THEN request.htlc ELSE lock_event.log.address
contract_id == IF lock_event = None THEN request.id ELSE lock_event.log.id

FetchLock == /\ step = "lock"
             /\ IF \E b \in BlockOf(request.lock_tx) :
                       HasEvent(chain[b], request.htlc, request.id, "Locked")
                THEN /\ \E b \in BlockOf(request.lock_tx) :
                           lock_event' = TheEvent(chain[b], b, request.htlc, request.id, "Locked")
                     /\ step' = "claim"
                     /\ UNCHANGED <<chainVars, request, claim_event, refund_event>>
                ELSE Fail
             /\ UNCHANGED <<rpcFailed, asked>>

FetchClaim == /\ step = "claim"
              /\ IF request.claim_tx = None
                 THEN /\ step' = "refund"
                      /\ UNCHANGED <<chainVars, request, lock_event, claim_event, refund_event>>
                 ELSE IF \E b \in BlockOf(request.claim_tx) :
                           HasEvent(chain[b], htlc_addr, contract_id, "Claimed")
                 THEN /\ \E b \in BlockOf(request.claim_tx) :
                            claim_event' = TheEvent(chain[b], b, htlc_addr, contract_id, "Claimed")
                      /\ step' = "refund"
                      /\ UNCHANGED <<chainVars, request, lock_event, refund_event>>
                 ELSE Fail
              /\ UNCHANGED <<rpcFailed, asked>>

\* The lifecycle and ordering checks come with the last receipt.
InOrder(event) == event # None => event.block >= lock_event.block

FetchRefund ==
    /\ step = "refund"
    /\ IF request.refund_tx = None
       THEN /\ step' = IF InOrder(claim_event) THEN "done" ELSE "failed"
            /\ UNCHANGED <<chainVars, request, lock_event, claim_event, refund_event>>
       ELSE IF \E b \in BlockOf(request.refund_tx) :
                 HasEvent(chain[b], htlc_addr, contract_id, "Refunded")
       THEN /\ \E b \in BlockOf(request.refund_tx) :
                  /\ refund_event' = TheEvent(chain[b], b, htlc_addr, contract_id, "Refunded")
                  /\ step' = IF claim_event = None /\ b >= lock_event.block THEN "done" ELSE "failed"
            /\ UNCHANGED <<chainVars, request, lock_event, claim_event>>
       ELSE Fail
    /\ UNCHANGED <<rpcFailed, asked>>

\* rpc_call raises: the connection, the answer or its JSON.
RpcFails == /\ step \in {"chain", "lock", "claim", "refund"}
            /\ step = "claim" => request.claim_tx # None
            /\ step = "refund" => request.refund_tx # None
            /\ rpcFailed' = TRUE
            /\ UNCHANGED asked
            /\ Fail

EvmNext == \/ \E tx \in Txs : Mine(tx)
           \/ Reorganise
           \/ \E r \in Requests : Begin(r)
           \/ FetchChainId \/ FetchLock \/ FetchClaim \/ FetchRefund \/ RpcFails

EvmSpec == EvmInit /\ [][EvmNext]_evmVars

settlement_status == IF claim_event # None THEN "claimed"
                     ELSE IF refund_event # None THEN "refunded" ELSE "locked"

-----------------------------------------------------------------------------
(* Properties *)

\* Types of the state; evidence is of a lock, and of at most one way to settle it, also when
\* the chain was reorganised between two receipts.
EvmTypeOK == /\ \A i \in DOMAIN chain : /\ chain[i].tx \in Txs /\ chain[i].ok \in BOOLEAN
                                         /\ chain[i].logs \in Seq(Log)
             /\ reorgs \in 0..MaxReorgs
             /\ request \in Requests \cup {NoRequest}
             /\ step \in {"idle", "chain", "lock", "claim", "refund", "done", "failed"}
             /\ {lock_event, claim_event, refund_event} \subseteq Event \cup {None}
             /\ rpcFailed \in BOOLEAN
             /\ step = "done" => lock_event # None /\ None \in {claim_event, refund_event}

Evidenced == EscrowsOf(chain)[<<lock_event.log.address, lock_event.log.id>>]

\* On a chain that drops no blocks, the evidence is of one escrow of one contract: it
\* has the terms the Locked event was read with, and it is claimed with the secret, or
\* refunded, exactly as the evidence says, also if it was settled between two RPC calls.
Authentic == step = "done" /\ reorgs = 0 =>
    /\ Evidenced.status # "None"
    /\ Evidenced.terms = lock_event.log.terms
    /\ settlement_status = "claimed" =>
          Evidenced.status = "Claimed" /\ Evidenced.secret = claim_event.log.secret
    /\ settlement_status = "refunded" => Evidenced.status = "Refunded"

\* What a deal wallet does with an escrow: transactions of one call, straight to the contract.
Plain(tx) == tx # None => /\ Len(tx.calls) = 1
                          /\ tx.to = tx.calls[1].at
Done(tx, what) ==
    tx # None => \E b \in BlockOf(tx) : b <= asked /\ chain[b].ok /\ chain[b].tx.calls[1].do = what
SameEscrow(tx, other) == tx # None => /\ tx.calls[1].at = other.calls[1].at
                                      /\ tx.calls[1].id = other.calls[1].id

\* A settlement that wallets made before the verification began is never refused, unless
\* an RPC call fails, the chain drops blocks or the token logs no Transfer.
NeverRefused ==
    LET r == request
    IN  /\ step = "failed" /\ ~rpcFailed /\ reorgs = 0
        /\ r.chain_id = "here" /\ r.lock_tx # None
        /\ Plain(r.lock_tx) /\ Plain(r.claim_tx) /\ Plain(r.refund_tx)
        /\ Done(r.lock_tx, "lock") /\ Done(r.claim_tx, "claim") /\ Done(r.refund_tx, "refund")
        /\ SameEscrow(r.claim_tx, r.lock_tx) /\ SameEscrow(r.refund_tx, r.lock_tx)
        /\ r.htlc \in {None, r.lock_tx.to} /\ r.id \in {None, r.lock_tx.calls[1].id}
        => r.lock_tx.calls[1].terms.token \in SilentTokens
=============================================================================
