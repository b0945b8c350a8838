# tc-ledger in TLA+

A verification development for `mrchandu1462-ux/tc-ledger`: TLA+ modules translated from the source, the TLC
runs that check them on small instances, and theorems about them that TLAPS checks. `PROJECT.json` maps
every definition to the lines it models and lists the runs, the mutants that each property catches, the
hazards and the theorems.

## 1. The system

Two parties who only know each other's DID agree on a deal in a chat room, lock the payment in a hash
time-locked contract on an EVM chain, exchange the secret for the payment, and keep a verifiable archive of
what was said.

| Component | State | Operations | What makes it correct |
|---|---|---|---|
| `Htlc.sol`, the settlement contract | `escrows`, token balances, event log | `lock`, `claim`, `refund`, `getEscrow` | one payout per escrow, to the right party, in the right window; always solvent; log and storage agree |
| `rail.ts`, its client (`utils.ts`, `types.ts`, `resolver.ts`) | none of its own: a sequence of awaits per call | `lock`, `verifyLock`, `claim`, `refund`, `read` | a call that resolves tells the truth about the chain |
| `deal.ts`, `DealManager` | one deal record and its status | `createOffer`, `applyAccept` … `applyReceipt`, `markVerified` | a status has the evidence it claims; terms are frozen; terminal is terminal |
| `transport.ts`, transports and `RoomDealAdapter` | the room's transcript; deals by offer and by contract; delivered keys | `sendSigned`, `fetchMessages`, `ingestRecord`, `sync` | the deals are what the transcript says, whatever is delivered twice or interrupted |
| `app/orchestrator.ts`, `DealWalletApp` | adapter, per-key mutexes, preimages | `createOffer`, `acceptDeal`, `lockFunds`, `verifyLock`, `revealSecret`, `claimFunds`, `refundDeal`, `cancelDeal`, `archiveDeal`, `sync` | what a wallet believes agrees with the chain and with the other wallet |
| `app/session.ts`, `WalletSession` | keys, preimages (memory only) | create, get and clear a preimage | a preimage lives until it is of no more use |
| `app/store.ts`, `ArchiveStore` | archive files and an index file | `saveArchive`, `loadArchive`, `listArchives` | the index names what is on disk, across crashes |
| `app/server.ts`, `DealWalletServer` | sync flag, message cache, sessions | HTTP routes, `triggerSync` | syncs do not overlap and recover |
| `archiver.ts` | none | `archiveDeal`, `verifyDealArchive`, Merkle inclusion | an archive verifies iff it was built from the export |
| `ledger.py` | none, but reads a file that grows and overwrites an artifact | Merkle roots of exports, inclusion and consistency proofs, `commit`, `verify-…` | a valid proof shows what it says, an honest one is valid; a commitment can be reproduced |
| `cross_verify.py` | none | reads a transcript or archive, binds it to settlement evidence, judges; judges a stored proof again | conformant means signed, agreed and settled as agreed; nothing is guessed; the verdicts agree |
| `bundle.py` | the archive it writes | `create_bundle`, `verify_bundle` | a bundle that is accepted holds what was verified, whatever changed meanwhile |
| `evm_verifier.py` | none, but several RPC calls to a chain that goes on | `build_rpc_settlement_evidence`, `parse_and_verify_htlc_event` | evidence is of one escrow as it is; a plain settlement is not refused |
| `tc_live_indexer.py` | none, but many requests to rooms that go on | discover, fetch, verify, count, date | totals are of what was fetched, the status of the end of the scan |
| `tc_indexer_server.py` | the result cache, shared by request threads | `do_GET`, `prune_cache` | fresh answers, a bounded cache, every request answered |
| `site/` | the page | renders results | presentation only |

The wallet drives everything: it sends signed records to the room through the transport, ingests its own and
the others' records into `DealManager`s through the adapter, calls the rail, reconciles the deals with the
chain in `sync()`, and hands a finished deal to the archiver and the store. The rail is the only part that
talks to the contract. The Python side reads the room's export and the chain and never writes either.

What is hard in it: calls that nest through token and ETH callbacks and revert; sequences of awaits between
which the chain moves; clocks in milliseconds and seconds; a room that delivers records again under other
sequence numbers; a wallet that ingests its own records ahead of the room's order; a mutex per key, two keys
per deal; crashes that lose the preimages; one bad record in front of all the others; evidence that is
fetched in several requests from a chain, a room or a file that changes in between; trees whose size is no
power of two, with proofs made by somebody else; a cache that threads prune and fill at once. `PROJECT.json`
lists each of these under `hazards`, at its line.

## 2. Plan

Settlement first, since the money is there, then what talks about it.

1. `Escrow`, `Settlement` (abstract), `Htlc` (implements it), with `HtlcProofs` — done.
2. `HtlcRail` over `Settlement`, with `HtlcRailProofs` — done.
3. `Deal` (DealManager as operators), `DealRoom` (transcript, adapter, `sync`), with `DealProofs` and
   `DealRoomProofs` — done.
4. `Merkle`, `Inclusion`, `Consistency`, `Commitment`, together `LedgerCommands`, for `ledger.py`, with
   `LedgerProofs` — done.
5. `EvmVerifier`, `CrossVerify` over it, `Bundle` over both, `Transcript`, together `Evidence`, with
   `EvidenceProofs` — done.
6. `Indexer`, `IndexerServer`, together `LiveIndexer`, with `IndexerProofs` — done.
7. `DealWallet`: the wallets, the room and the chain together; crashes and restarts; the mutexes; `sync` and
   its reconciliation, with `DealWalletProofs` — done for an accepted contract.
8. Open: `createOffer` and `acceptDeal` in `DealWallet`; the archiver and the store's files.

The safety properties of the passing runs are proved (section 6); what is only model-checked is named at its
end. Worth proving next: the invariants of `DealWallet` again, once `createOffer` and `acceptDeal` are in
it.

## 3. The modules

### Escrow, Settlement, Htlc

`Escrow` holds the constants and the escrow record of `Htlc.sol:27-36` with its events. Tokens are ETH
(`Native`), tokens that move exactly what they are asked to, and tokens that keep a unit of every transfer.

`Settlement` is what the contract promises: per id one lock, then at most one of a claim with the secret
strictly before the deadline or a refund at or after it, with the payment and the log entry in the same
step. One transaction may advance several ids and may even lock and claim one (a token may call `claim`
while `lock` waits for it), but it can never lock and refund one.

`Htlc` is the contract call by call. `lock`, `claim` and `refund` run their checks and effects in one step
and push a frame for the external call they end with; the token or the recipient may then call any function
again, move the funds (`MoveIn`, `MoveOut`), return (`Return`, with `lock`'s balance check) or fail
(`Revert`, which restores what the frame saved). A nested revert is caught by the outsider or travels
outwards through further `Revert`s, so both cases are behaviours. `committed` is what the rest of the chain
sees: the state before the pending transaction. A call whose checks fail changes nothing and has no step.

| Definition | Code |
|---|---|
| `escrows`, `logs` | `escrows` and the events |
| `balance`, `payouts` | what token contracts and the EVM keep about the contract |
| `stack` | the EVM call stack, reduced to calls waiting for an outsider |
| `Lock`, `Claim`, `Refund` | the functions of the same name |
| `MoveIn`/`MoveOut`, `ReceivedAll` | `_safeTransferFrom`/`_safeTransfer`, the balance difference in `lock` |

Left out: gas and the EVM's depth limit beyond `MaxDepth`, 256-bit overflow of amounts (a token's total
supply fits its own type), and a skimming token that also calls back: for such a token the balance
difference counts what nested calls brought in as well.

### HtlcRail

Clients call the rail on one contract id over `Settlement`'s variables. Each await is a step boundary:
`Read`, `Submit`/`SubmitFails`, `Receipt`/`ReceiptFails`, `Recheck`. The node and viem are external and
modelled from their use: `writeContract` simulates first and may throw after the transaction was sent; a
receipt arrives for a reverted transaction too; it may never arrive. Transactions wait in a pool and are
mined in any order, with their effect or as reverted ones: the guard may no longer hold by then, and any
transfer of funds, in or out, may fail although the simulation went well. The payer of an escrow is the
account that sent the lock, whoever the terms name. Time is in milliseconds and the contract's clock in
seconds (`MsPerSecond`, 2 in the runs so that rounding matters); each client's clock has a skew. Other
accounts may lock, claim and refund the id as well, under `Alien` terms too.

### Deal, DealRoom

`Deal` is `DealManager`: for every apply method a predicate that says when it accepts a frame (its guards,
in the order of the code folded into one condition; a repetition of what was done last is accepted) and a
function that gives the new record. `recordLedgerSequence` is the only bookkeeping kept. `Takes` and `After`
dispatch on the kind of frame as `ingestRecord` does.

Offer and contract ids are hashes of what they identify, so they are modelled by it: an offer is its own id,
and a contract id is the offer with who accepted it and with which statement. The frozen terms of a deal
(`projectLockTerms`) are then fields of its contract id and cannot disagree with it.

`DealRoom` is the room and one member's `RoomDealAdapter` on it. Everybody else posts any of `Posts` at any
time. The member's two tasks share the adapter and give way at each `await`:

| Definition | Code |
|---|---|
| `room` | `rooms` of `InMemoryTechnocoreTransport`, or what the room server keeps |
| `deals`, `byOffer`, `byContract`, `seen` | the deals, `dealsByOffer`, `dealsByContract`, `seenRecordKeys` |
| `sync` | the task inside `sync()`: `Fetch`, then `Skip`, `Resolve`, `Ingest` or `Abort` per record |
| `own` | a record the wallet has sent and not ingested yet: `Send`, `IngestOwn`, `LoseAnswer` |
| `Verify`, `Claim`, `Refund`, `Cancel` | what `orchestrator.ts` calls on a deal it holds |
| `now` | `Date.now()` |

`sync()` that meets an accept awaits the address resolver between looking the deal up (`Resolve`) and
applying the frame to what it found (`Ingest`). A record that is refused throws before its key is remembered
and ends the whole `sync()` (`Abort`). With `Http` the sender does not know its record's number: it ingests
it under 0 and meets it again.

Assumptions: a signed message is unique by its nonce, an id cannot be named before it was published
(`Sayable`: it is a hash with a nonce in it), the wallet has one record of its own on the way at a time, and
all members have one clock. The offer's author may post it again only if `Posts` says so. Canonical JSON,
the codec and signatures are abstracted: a frame that does not decode is `malformed`, one with a wrong
author fails `WellFormed`.

### DealWallet

Two wallets of one accepted contract, each running `DealWalletApp`, share a room and a chain. A call is a
task; every `await` is a step boundary, named by the task's `pc`:

| Definition | Code |
|---|---|
| `queue`, `Enter`, `Join`, `Release` | `AsyncLock.runExclusive`, `withContractLock`: first come, first served, per key, not reentrant |
| `Check…` | the first `await` of each operation: what the chain holds, `null` for a failed call too |
| `Submit`, `Wait`, `Recheck`, `Settle` | the rail's method, its receipt (mined with its effect, mined without it, also because a payout failed, or given up) and the wallet's own recheck after an error |
| `VerifyLock`, `Search` | `verifyLock` after a lock, the search of the room for a revealed secret |
| `Send`, `Ingest`, `Finish` | `sendSigned`, `ingestRecord` of the own record, and what follows: the next frame, wiping the secret, `archiveDeal` |
| `Fetch`, `Record`, `Reconcile` | `sync()`: the transcript, each record with what sync does before it is ingested, reconciliation with the chain |
| `Save` | `archiveDeal` inside its mutex |
| `Restart` | the process ends: deals, delivered keys, the secret and the running calls are gone |

The deal is module `Deal`'s, so a wallet accepts or refuses a frame exactly as `DealRoom`'s adapter does;
sequence numbers are left to `DealRoom`. `getDeal` also finds a deal by its offer id, under which a cancel
takes another mutex (`Keys`). A plan says which calls and restarts happen; in which order, by which task and
interleaved how is open.

### Merkle, Inclusion, Consistency, Commitment

`Merkle` has the trees of `ledger.py`: levels in which an odd node is promoted, the root and the audit path
as recursive functions that climb from level to level, the expected sides of a path as one that climbs on
sizes alone, and RFC 6962's consistency proofs. Hashes are constants constrained by `HashAssumption`: a
digest that was committed comes out of a hash only if the one preimage known for it went in, and what it
covers (`Span`) is what its parts cover. `Inclusion` and `Consistency` are the two verifiers, one step per
round of their loops; the proof they are given is honest or made up: any line, index, sizes and digests,
known ones or an `Unknown` one. `Commitment` is the `commit` command: it reads the export once as bytes and
once as text while the room is still captured into it, line by line or within the last line (`Capture`,
`Begins`: a line that is torn when it is read may be whole when it is read again), empties the artifact's
file and writes it, and may stop in between. The two readers do not make the same of every line: the one of
text also splits at carriage returns and strips Unicode spaces (`ReadAlike`).

### EvmVerifier, CrossVerify, Bundle, Transcript

`EvmVerifier` has a chain with several deployments of the contract, whose transactions are sequences of
calls that run together or not at all (`Mine`), and reorganisations (`Reorganise`). `Begin` … `FetchRefund`
are the RPC calls of `build_rpc_settlement_evidence` in their order; any of them may fail (`RpcFails`), and
the chain goes on between them.

`CrossVerify` adds the transcript's agreement, what the caller anchors and settlement documents: `VerifyRpc`
and `VerifyDocument` judge with every check of `verify_cross_layer`, each a set of failures, `VerifyProof`
judges the stored proof again as `verify_standalone_proof` does. `Bundle` goes on from a proof:
`CopyTranscript` and `FetchReceipt` read everything a second time, the file may be rewritten (`Rewrite`) and
the chain reorganised, and `VerifyBundle` judges what is left of the archive after somebody has put other
contents in the place of a member, of its digest in the manifest, or of both with each other (`Damage`), or
other names in the manifest, which no digest covers (`Misname`). A transcript is an export, or a deal
archive, whose file (`file_of`) is not the export its root is of. Lines may be blank, end in CRLF, or not be
UTF-8, which the cross verifier skips and the bundle's verifier refuses.

`Transcript` is `parse_export_lines`, line by line: signatures, frames bare, in prose, quoted or fenced,
offers by id, accepts with or without their contract id, and the choice of one agreement (`Select`).

### Indexer, IndexerServer

`Indexer` is one scan: discovery as JSON or text, then each room's generation and export, while members post
and rooms drop their oldest records; a request may fail anywhere. Records are verified and counted, and the
status is the age of the last one at the end. `IndexerServer` is `do_GET` of a threading server around the
module's dictionary. Every read of the global `_RESULT_CACHE` begins a step of its own, each lookup of the
sort among them, and between any two of them other threads may bind a new dictionary or change the bound
one, also one that is iterated over; so the slice that is evicted may be of more, fewer or a negative number
of keys, and any of the lookups and deletions may miss its key. What one thread does to the copy that nobody
else has yet is one step. An entry has the time the code dates it by and, as history, when its request
began.

## 4. The runs

| Run | Question |
|---|---|
| `htlc_calls` | Do payments, logs, solvency, finality and the promise survive every nesting of calls and reverts, also with a token that keeps part of a transfer? |
| `rail_pool` | Do `lock`, `verifyLock`, `claim` and `refund` tell the truth, and do the clocks agree, when transactions wait in a pool? |
| `rail_claim_reverted` | Does `claim()` always? No: see findings. |
| `room_casts` | Has every status its evidence, do deals only move forward, do numbers name their records, do records take effect in order, and is an offer closed once, when the wrong party or a second time says it, and the server numbers records later and loses answers? |
| `room_closed_twice` | Is an offer closed once over HTTP without exception? No: see findings. |
| `wallet_calls` | Does what wallets say and hold agree with the chain, is the secret kept until others can read it, and does every call end, whatever fails, races or restarts? |
| `wallet_archive` | Does every call end with automatic archiving? No: see findings. |
| `wallet_duplicates` | Does `sync()` take a frame the room already had? No: see findings. |
| `ledger_commands` | Are inclusion and consistency proofs sound and complete, and is what `commit` wrote accepted again? |
| `evm_receipts` | Is evidence of one escrow as it is, and are plain settlements accepted? |
| `evidence` | Is an agreement traced and never guessed, does conformant mean settled as agreed, do both verifiers and a bundle agree, does a bundle hold what was verified? |
| `indexers` | Are totals, status and cached answers right, is the cache nearly bounded and taken back, does every request end? |

`MCLedger`, `MCEvidence` and `MCIndexers` extend `LedgerCommands`, `Evidence` and `LiveIndexer`, which put
components that share no state side by side; a behaviour of such a run is of one of them (in `MCEvidence`:
of `Transcript`, of `CrossVerify` or of `Bundle`), the others stay in their initial states.

Bounds, and why they are enough:

* `htlc_calls`: two ids, two accounts, ETH, an exact and a skimming token, amounts 1 and 2, three nested
  calls, block timestamps on either side of the deadline. Two escrows are what it takes to pay one with the
  funds of the other, three levels to have a nested call revert inside a nested call. Ids, accounts and
  (secret, digest) pairs are symmetric.
* `rail_pool`: two clients with two calls each — a call, its retry and a competitor's — and instants past
  the deadline on both sides of the rounding.
* `room_casts`: three members, one offer, four records per behaviour. A cast is a deal from its offer on
  with frames by the wrong party, of the wrong rail or with the wrong secret; or a contest of two accepts,
  one of them said again, with cancels and garbage; or an offer that is said twice and accepted by two.
  `OneCast` keeps a behaviour to one of them. Instants 0 to 2 put the records of the first before, at and
  after the deadlines; the other casts are in time, up to 1 and at 0.
* `wallet_calls`: five plans. Claims: lock, reveal, claim and sync with a restart of the payee. Refunds:
  lock, refund, sync, archive and a restart of the payer. Races: lock and refund against reveal and claim.
  Cancels: lock and refund against cancels by either wallet, one under the offer's id. Repeats: two locks,
  verify and two syncs. The payer runs two calls at a time, the payee one. The deadline is at instant 1.
* `ledger_commands`: exports of up to seven lines for honest proofs, so that promotion happens on every
  level of a tree of depth three; made-up proofs of up to four elements with sizes from none to above the
  export's; two words for lines, so that exports differ in any one line. (For consistency the old export has
  up to three lines and the new one up to four.) Commits are of up to two lines, of every class, of those
  the two readers do not read alike, and torn ones: one line to be wrong and one before it that shifts its
  place are what indices and counts can disagree on.
* `evm_receipts`: three blocks and one reorganisation: lock, settlement and one transaction more, with a
  batch of two locks and one of two claims at two deployments.
* `evidence`: two blocks, one transaction differing from the agreed terms in each field; five lines of two
  offers with their accepts. A bundle is made of a deal whose chain is reorganised once, or whose file is
  rewritten in each way line terminators matter, emptied or removed, or whose lock was sent by a relay, or
  whose transcript is a deal archive or has a line that is not UTF-8; one of these at a time. Where nothing
  else went wrong, one change of the archive follows: another transcript, receipts of another lock or claim,
  another proof, a refused one or another report, alone or with the digest, or other names. Milliseconds are
  ten to the second, and a timestamp above 100 is one in milliseconds.
* `indexers`: two rooms and three posts, instants that put a record inside and outside the window; three
  requests that begin in a fixed order, at most two of them in flight at a time, and three keys over a full
  cache of two entries with a lifetime of one instant (`Held`: the entries requests before them left). Two
  are what it takes to overlap, and the third is there to overlap with what they left, or to find the cache
  over its bound alone and take it back. TLC reaches the errors at the copy, the sort, the deletion and the
  lookup, a negative slice, and an eviction by one thread while another sorts.

Exceptions that a property names are exceptions of the code: `ResolvesUnlessReverted` (a call whose own
transaction was mined as a reverted one; of a refund it still says that nothing but a refund can follow),
`RoomTellsChain` and `DealsTellChain` in the same sense (`Ended`: the wallet has said or holds claimed
although its claim was mined without effect, or refunded although its refund was, and then only a refund can
come), `ClosedOnceUnlessRedelivered` and `Forward` (an offer ingested under two keys, because the own copy
came late or because it was said twice), `Authentic` and others while `reorgs = 0` (evidence is not checked
for depth), `VerdictsAgree` for exports with `Ordinary` lines and locks sent straight to the contract
(`SentDirectly`; the bundle of a deal archive never passes, which the property says), `BundleHolds` for a
transcript that was emptied and a proof packed again with its digest, `CommitHolds` unless the export grew
between the two reads, and for lines both readers read alike (of exit 0 it says, also when the export grew,
that only a last line that was torn when it was committed may be invalid), `NearlyBounded` (each request
that inserts while it overlaps with others may exceed the capacity by one, until a request that nothing
overlaps with has pruned the cache: `burst`).

Fairness. `wallet_calls` checks `EveryCallEnds` under weak fairness of "some task that can go on does": the
event loop runs every continuation whose await was answered, and requests to node and room are answered or
time out. Nothing is assumed of mining, time or new calls; plans are finite, so the property says that no
call gets stuck, not that deals get settled. `indexers` checks `Ends` under weak fairness of each request's
next step: the operating system schedules every thread, and a scan ends. The latter assumes more than the
code's timeout, which is per socket operation: a peer that sends a byte now and then can keep a scan for as
long as it likes, and is assumed away. All other properties are safety properties. Deadlock is not checked,
since bounded clocks, plans and files let every model stop.

Each property is checked to fail under a mutated definition (`mutants`); the mutated forms stand beside the
definitions they replace, under a comment that starts with "Mutant".

## 5. Findings

* `claim()` in `rail.ts` resolves when a receipt arrives and does not look at its status. If the claim is
  mined after the deadline, or its payout fails, it reverts, yet the call resolves; the wallet then records
  CLAIMED, wipes the preimage and tells the room. `SECURITY-FINDINGS.md:36` says a failed claim is
  re-checked. `rail_claim_reverted` shows the behaviour. The same omission is there in `refund()` and
  `lock()`. A refund whose payout fails when it is mined (`Htlc.sol:160`) resolves too, and the wallet posts
  refund and receipt while the escrow is still locked; only a refund can happen to it then, so it can be
  repeated on the chain. The wallet's `lockFunds` verifies afterwards.
* Over HTTP an offer can be closed by two contracts in one wallet. `sendSigned` returns sequence number 0
  and the delivery key holds the number (`transport.ts:544`), so the sender's own offer is delivered under
  two keys, and an offer always makes a new deal in the place of the old one (`transport.ts:619`). If a
  concurrent `sync()` ingests the offer and an accept of it before the sender gets its answer, the late copy
  replaces the accepted deal and another accept closes the offer again. `tests/transport.test.ts:359` says
  "handles duplicate message delivery idempotently without state corruption", of one record delivered twice
  under one number. `room_closed_twice` shows the behaviour.
* With `autoArchive`, `claimFunds`, `refundDeal` and `cancelDeal` never return: they call `archiveDeal`
  inside the mutex that it waits for. `wallet_archive` shows it for a refund.
* A second `lockFunds` posts a second lock frame. A wallet that has verified the first one refuses it, and
  since a refused record is never remembered, every later `sync()` of that wallet ends there and nothing
  after it is seen. `tests/orchestrator.test.ts:389` tests the repetition with a wallet that has not
  verified yet, where it is harmless. `wallet_duplicates` shows the behaviour.

Noticed while modelling, without a run: a cancel that reads the chain before a lock is mined cancels a deal
whose funds get locked, and a cancel under the offer's id takes another mutex than the lock; `refundDeal` on
a deal that is only ACCEPTED refunds on the chain and then throws; a late lock frame or a receipt without
its reveal stops `sync()` for good. A commit counts lines with a reader that splits at carriage returns and
fails at bytes that are not UTF-8, and its artifact is then refused (`ledger.py:559`). Deadlines that differ
are at most a warning (`cross_verify.py:889`), and `verify_cross_layer` never compares lock and claim times
with each other; the archive branch calls the inclusion verifier with parameters it does not have
(`cross_verify.py:463`); `--chain-id` is not used when a proof is judged again (`cross_verify.py:1372`); an
offer posted again takes the place of the accepted one (`cross_verify.py:533`). A bundle's root is
recomputed over normalised lines (`bundle.py:424`), and is not compared at all when no line is left: a
bundle whose transcript was emptied before it was copied can be conformant. The bundle of a deal archive
(`.json`) is refused though its proof is conformant, since the file's own lines are hashed; so is one of an
export with a line that is not UTF-8 (`bundle.py:413`), which the cross verifier skips. `bundle.py:242` says
of `verify_bundle` "Fails closed on any tampering": the room, contract id and time in the manifest are under
no digest and compared with nothing (`bundle.py:188`), and nothing signs the manifest, so members packed
again with their digests are judged as what they then are. A bundle is checked with the contract's address
always, its proof was made with the address the caller gave, which may be none: a lock that a relay sent to
the contract makes a conformant proof and a bundle that is refused. Verified records without a readable
timestamp give NO DATA (`tc_live_indexer.py:408`); eviction is by age, not by use. `tc_indexer_server.py:14`
says "Bounded LRU/TTL result cache (maximum 100 entries, 30s TTL)", and
`docs/live-integration-boundary.md:147` "LRU-bounded to 100 entries"; requests that overlap insert after
they have evicted (`tc_indexer_server.py:216`) and exceed it. `NearlyBounded` says by how much and for how
long, and TLC reaches states with the bound exceeded.

## 6. What is proved

`HtlcProofs` proves, for any sets of ids, addresses, tokens, amounts, timestamps and secrets, any function
as hash and any bounds:

* `TypeCorrect`: `Spec => []TypeOK`
* `PaidOnceAlways`: `Spec => []PaidOnce`
* `LogTellsAlways`: `Spec => []LogTellsStatus`
* `SettledIsFinal`: `Spec => SettledForever`
* `KeepsPromise`: `Spec => Promise`, the refinement of `Settlement`

from the named assumptions `EscrowAssumption` and `HtlcAssumption`. The invariants speak of the committed
state, the steps of the current one, so the inductive invariant `IInv` adds: the state saved in every frame
is sound (`SavedSound`); the current state is sound except that an escrow may still be owed the payment of a
frame on the stack whose funds have not moved (`WorldSound`), and no escrow is owed two (`OwedOnce`); and
from each saved state to the next and to the current one, every id evolved the way one transaction may move
it (`Legal`). The last part is what makes the refinement go through: when the outermost frame returns, the
step from the saved state to the current one is a `Transact` of `Settlement`.

It also proves `SolventAlways` (`Spec => []Solvent`) for any finite set of ids: of each token the contract
holds at least what is locked. In the middle of a transaction it may hold less, so the invariant (`Books`)
balances what it holds against what is locked, what pending claims and refunds have still to pay out, and
what pending locks have still to bring in, in the current state and in every state a frame may restore. A
token that keeps part of a transfer leaves the books one short until `lock`'s balance check reverts it, and
nothing else runs in between (`ShortMoved`). The sums over ids need induction over a set; it is done by
minimal counterexample, with the library's theorem about well-founded orders, which needs no operator as a
parameter.

`HtlcRailProofs` proves, for any clients, calls, skews of clocks, pools and instants, from
`EscrowAssumption` and `RailAssumption`:

* `ResolvesAlways`: `RailSpec => []ResolvesUnlessReverted`
* `VerifiedStaysAlways`: `RailSpec => []VerifiedStays`

The invariant (`RailInv`) says what a task may rely on at each `pc`: the transaction it waits for is in the
pool with the arguments of its call, or mined with the effect its receipt tells, or with none; a refund is
only ever sent when nothing but a refund can happen any more. The deadline in seconds is the one in
milliseconds rounded up, and the lemmas about quotients say what the client's clock then proves of the
contract's.

`DealRoomProofs` proves, for any sets of members, offers, statements and messages, with either transport and
for any length of transcript, from `DealAssumption` and `RoomAssumption`:

* `RoomTypeCorrect`: `Spec => []TypeOK`
* `RegisteredAlways`: `Spec => []Registered`
* `BackedAlways`: `Spec => []Backed`
* `InOrderAlways`: `Spec => []InOrder`
* `EvidencePointsAlways`: `Spec => []EvidencePoints`
* `ClosedOnceAlways`: `Spec => []ClosedOnceUnlessRedelivered`
* `ForwardAlways`: `Spec => Forward`

`TypeOK /\ Registered` is inductive. Its core is that a deal, once bound to a contract, is never bound to
another (`AfterBound`), so that the map by contract stays true when an accept is applied to a deal that was
looked up before the resolver answered. `Backed` needs in addition that no record is from the future, that
what the wallet has yet to ingest is in the room, and that only an accept waits for the resolver
(`Grounded`): a reveal does not compare the frame's contract with the deal's, and is right only because the
deal was found under it. The other four (`OrderInv`) rest on three facts more: a record's number is its
position, also in the wallet's copy of its own, unless that has none yet (`Numbered`); everything before the
record `sync()` is at has been ingested (`Passed`); and every deal was made by an offer ingested under a key
of its own (`Offered`). The last one is the whole argument for one contract per offer and for statuses that
only move forward: both fail exactly when one offer has two deals. What each method of a deal keeps and
changes is stated once, in `DealProofs`, for this module and the next.

`DealWalletProofs` proves, for any accepted contract, any number of tasks per wallet, any set of calls and
restarts, either transport, with and without archiving, from `DealAssumption` and `WalletAssumption`:

* `RoomTellsChainAlways`: `Spec => []RoomTellsChain`
* `DealsTellChainAlways`: `Spec => []DealsTellChain`
* `SecretKeptAlways`: `Spec => SecretKept`
* `WalletTypeCorrect`: `Spec => []TypeOK`

None of the first three is inductive: what a wallet says and holds depends on where its tasks are, on what
is still to be mined and on what it hears from the room. The inductive invariant `IInv` adds: a record is
only said once it has happened or its transaction was mined without effect (`RoomFine`), so hearing it
again, after a restart or from the other wallet, teaches a deal nothing else; a task that waits for a
receipt has its transaction unmined, in effect, or reverted (`TasksFine`); and a refund is only ever sent
when nothing else can happen to the escrow any more, so that after a refund mined without effect it is
refunded or can only be (`Asked`). The mutex is not among its parts: these three hold without it, since
every operation looks at the chain again before it speaks. Mutual exclusion itself is the last part of
`TypeOK`: a call that has entered is the head of the queue of its key. Its invariant (`Turns`) follows every
task through the queues of its wallet: whoever ends leaves the head only, whoever joins is behind all
others.

`LedgerProofs` proves of the ledger, for any exports, lines, trees of any shape and depth, claimed sizes and
proofs, from `HashAssumption`, `ExportsAssumption` and `CommitmentAssumption`:

* `IncludedAlways`: `InclusionSpec => []Included`
* `InclusionCompleteAlways`: `InclusionSpec => []InclusionComplete`
* `ExtensionAlways`: `ConsistencySpec => []Extension`
* `ConsistencyCompleteAlways`: `ConsistencySpec => []ConsistencyComplete`
* `HonestAcceptedAlways`: `CommandsSpec => []HonestAccepted`, both kinds of proof
* `CommitHoldsAlways`: `CommitSpec => []CommitHolds`
* `InclusionTypeCorrect`, `ConsistencyTypeCorrect` and `CommitTypeCorrect`, the three type invariants,
  together `LedgerTypesCorrect`

A proof accepted under a trusted root is of one of its lines because a committed digest has the claimed line
under it as long as the path is followed (`Traces`). That it is the line at the claimed index, and that an
honest path is accepted, needs the trees themselves. The invariant (`ClimbInv`) says where in the tree the
verification is (`At`): on some level of the tree over the export, at some node of it, whose path is what is
left of the proof and whose sides are the sides still expected. With an honest path the digest computed so
far is that node's. With any path, if it is that node's and the root is committed, the verification began
with the line of the index: of a committed hash the preimages are unique, so equal digests have been equal
all the way down. A promoted node gives a level in which the path has no step, so one step of the verifier
may climb several levels (`Promoted`, `Joined`, `Ascend`). Levels, paths and sides are recursive functions
on sequences; that such a function exists, and that a property can be carried up along it, is proved once
(`Recursion`, `FallsInduction`) by minimal counterexample over the lengths, and used for all of them.

That an honest consistency proof is accepted relates two programs that have nothing in common but RFC 6962:
`_subproof` halves the tree and works its way down, `verify_consistency_proof_artifact` shifts the bits of
two indices and goes up. What they share is the path of the old tree's last leaf in the new tree. `EvenUp`
and `EvenPart` say that of an old tree of even size the proof is that of the next level up, with half the
size; so it is enough to look at odd sizes, where the proof is the last leaf, unless it is the whole old
tree, followed by the siblings on its way up (`IsAudit`, `OddPart`). That is shown half by half: a path in
one half of a tree, and then the root of the other, is the path in the tree (`AboveSplit`), also where the
halves are not equal, because the first half is a power of two and goes up to a single node by itself
(`HalvesUp`, `RootSplit`). Taking away the odd bits of the index is going up to the level where that size is
odd (`Beginning`). From there the verification keeps to a level of either tree (`InBoth`): the same nodes,
but for the last of the old level and the one in its place in the new, which are `fn` and `sn`; left to read
are the siblings above (`HonestAt`). Where both levels end with that node, neither has a sibling there, and
the loop that strips bits goes up past them (`Skip`); when nothing is left to read, both levels are single
nodes, the roots (`AtTop`).

`Extension` needs no trees (`Tracks`): if lines were committed under both digests computed so far, those
under the one of the new tree extend those under the one of the old. Its type invariant has a fact of the
code in it, that the old tree's index never passes the new tree's on any level, which goes through the two
loops that strip bits (`Stripping`). `CommitHolds` rests on the two readers counting alike (`SameCounts`): a
bijection between the lines of a class and their places in the text. Its invariant (`CommitInv`) says whose
counts the command holds at each `pc`, and that what was read last is what was read first with lines
appended and its last line, if that was torn, gone on with (`Counted`): without a line of a class in the one
there is none in the other, but for that line.

These proofs changed the model too. `Included` had said that a valid proof is of some line, and now says at
which index; the hash assumption had no unique preimages and did not support that; `verify_export` counts
places in the text; and two kinds of line were missing on which the readers disagree, without which
`CommitHolds` held for too simple a reason.

`EvidenceProofs` proves of the evidence modules, for any lines, frames, deployments, transactions, requests,
transcripts, documents, anchors and files, from `EvmVerifierAssumption`, `CrossAssumption` and
`BundleAssumption` (the types of the constants, `None` being none of them, and an execution's calls being a
finite sequence):

* `AgreementTracedAlways` and `NeverGuessesAlways`: `ReadSpec => []AgreementTraced` and `[]NeverGuesses`
* `AuthenticAlways` and `NeverRefusedAlways`: `EvmSpec => []Authentic` and `[]NeverRefused`
* `ConformantIsSettledAlways` and `StandaloneAgreesAlways` of `CrossSpec`, where nothing is bundled
* `BundledIsSettledAlways`, `VerdictsAgreeAlways` and `BundleHoldsAlways`: `BundleSpec =>
  []ConformantIsSettled`, `[]VerdictsAgree` and `[]BundleHolds`

and the type invariants of the four. The invariant of `Transcript` says what the parser keeps of the lines
it has read (`OffersKept`, `AcceptsKept`): all offers by their ids and, for every accept, an element of its
own. `Authentic` needs one of the chain, not of the verifier (`ChainInv`): what the logs of a block say of
an escrow is what the chain holds of it ever after (`Told`, `AllTold`), which is proved along a
transaction's calls by minimal counterexample; and one of the verification (`Phases`, `Sourced`): every
event it holds is in the logs of the transaction it asked about and of the lock's escrow. For `NeverRefused`
the invariant (`Accepting`) is that a verification of a plain settlement has not failed. Bundles are judged
after a reorganisation as well, where `Sourced` says nothing: there the proof rests on the fact that what a
successful transaction logs is a matter of its calls alone, whatever chain it runs on (`Logged`,
`LoggedOnce`), so a receipt fetched later shows the event that was caught (`Caught`, `FoundAgain`) or none.
The invariant of a proof (`CrossInv`) says that it is of the evidence that was found, or of a document, and
the verdict of it; that of a bundle (`BundleInv`) what was copied and fetched; an archive whose members and
digests agree has either both changed or neither (`ChangeShows`).

The attempts changed the model. `AgreementTraced` had compared the parties of an agreement in a way that
fails when somebody accepts his own offer; `VerdictsAgree` and `BundleHolds` gained the exceptions named in
section 4, which no run had met before; transactions have become sequences of calls whose execution is a
function, and lines are filtered by one, so that both can be reasoned about.

`IndexerProofs` proves of the server, for any requests, keys, instants, capacity and lifetime, and every
interleaving of the threads, from `ServerAssumption` (the cache that was found was within its capacity):

* `FreshAlways`: `ServerSpec => []AnswersFresh`
* `BoundedAlways`: `ServerSpec => []NearlyBounded`
* `AloneAnsweredAlways`: `ServerSpec => []AloneAnswered`

and of a scan, for any finite set of rooms and any exports, from `IndexerAssumption`, that its total is the
number of the verified records, and what the details of the rooms add up to unless a room was named twice
(`CountsAgreeAlways`), and `StatusIsOfTheEndAlways` (`ScanSpec => StatusIsOfTheEnd`). The server's invariant
(`ServerInv`) is about the dictionaries rather than the threads: each one that is bound, or that some thread
may yet bind, is within the capacity and the current burst (`Within`), so it does not matter which of them a
late thread binds; no entry's request began before the time it is dated by, so an answer that passes the
check on the one is as fresh by the other; and a request that has met no other is the only one in flight and
finds everything as it left it (`Alone`).

The evidence modules' and the indexer's types hold together as well (`EvidenceTypesCorrect`,
`IndexerTypesCorrect`), for `Evidence` and `LiveIndexer`, which put the modules of the parts side by side.

Only model-checked is liveness (`EveryCallEnds`, `Ends`): it rests on fairness, and so on ENABLED, which is
out of the prover's reach.

## 7. Not modelled

See `components` in `PROJECT.json` for each part and the reason. In particular: `createOffer` and
`acceptDeal` of the wallet (their frames are `DealRoom`'s), the archive store's files, the archiver and the
wallet's HTTP server; `format_verification_report` and other printing, JSON schemas, limits of ZIP
containers, HTTP routing, CORS and the browser pages; key handling and cryptography (signatures and hashes
are taken to be what they promise).
