# Verification of Prime Server

Prime Server stores erasure-coded blobs with paid storage providers. A contract
on the Flare chain coordinates who stores which shard and escrows the payment; a
gateway (the "coordinator") encodes blobs, places shards, reads them back and
rebuilds what is lost; providers keep shards on disk and sign acknowledgements; a
confidential-compute side (FCC) re-wraps keys for wallets the owner grants.

This directory holds TLA+ modules translated from the code, TLC configurations
that check them on small instances, and theorems that TLAPS proves for every value
of the constants. `PROJECT.json` maps each definition to its source lines and lists
runs, mutants, findings, hazards and theorems.

## Running

    tlc -workers 2 -config MCRegistry_settlement.cfg MCRegistry
    tlc -workers 2 -config MCRegistry_ledger.cfg MCRegistry
    tlc -workers 2 -config MCFcc.cfg MCFcc
    tlc -workers 2 -config MCAgreement.cfg MCAgreement
    tlc -workers 2 -config MCGateway.cfg MCGateway
    tlc -workers 2 -config MCShards.cfg MCShards
    tlc -workers 2 -config MCNode.cfg MCNode
    tlc -workers 2 -config MCQueue_safety.cfg MCQueue
    tlc -workers 2 -config MCQueue_liveness.cfg MCQueue
    tlc -workers 2 -config MCRegistry_finalized.cfg MCRegistry     # finds a violation
    tlc -workers 2 -config MCQueue_restart.cfg MCQueue             # finds a violation
    tlc -workers 2 -config MCQueue_idempotent.cfg MCQueue          # finds a violation
    tlapm RegistryProofs.tla; tlapm AccessProofs.tla; tlapm RecoveryProofs.tla
    tlapm ShardProofs.tla; tlapm NodeProofs.tla; tlapm FccProofs.tla
    tlapm GatewayProofs.tla; tlapm AgreementProofs.tla

## 1. Inventory

### Components

| Component | Source | State | Operations |
|---|---|---|---|
| On-chain registry: storage and payment | `contracts/src/PrimeServerRegistry.sol` | balance, coordinators, price, fees, providers, blobs, names, policies, payments, placements, acknowledgements, claim markers | setCoordinator, setNativePricing, withdrawProtocolFees, registerProvider, setProviderStatus, the createBlob family, assignShard, acknowledgeShard, finalizeBlob, claimProviderSettlement, refundPaidBlob, startRecovery, reassignShard, recordRebuiltShard |
| On-chain registry: confidential access | same file, 273–394 | wallet grants, nonces, access requests, controllers | setConfidentialAccessController, setBlobWalletAccess, authorizeConfidentialAccess, recordConfidentialAccessResult |
| FCC sender and result verifier | `contracts/src/fcc/` | extension and machine ids, request per instruction | requestPrivateKeyRewrap, requestConfidentialCompute, submitResult, recordAccessResult |
| Operational store | `rpc/src/operational-store.mjs` | one JSON file: objects, recovery jobs, event cursors; its in-memory copy; a promise chain as lock | putObject, listObjects, enqueue/claim/complete/failRecovery, setCursor |
| Recovery coordinator | `rpc/src/recovery-coordinator.mjs` | none of its own | processNext, recoverBlob |
| Gateway server | `rpc/src/server.mjs`, `auth.mjs`, `ack-context.mjs` | challenges; everything else in store and registry | PUT and POST blob, GET, recover, settle, sessions, FCC proxy, ciphertext for enclaves |
| Registry clients | `rpc/src/flare-registry.mjs`, `memory-registry.mjs` | none; an in-memory copy of the contract's storage rules | one call per contract function |
| Event indexer | `rpc/src/event-indexer.mjs` | next block, known events | ready, poll |
| Storage provider | `provider/src/` | shard file and metadata file per shard; signing key | PUT shard, GET shard |
| FCC handlers | `fcc/src/`, `fcc/live/` | none | rewrap and compute, one request at a time, twice: simulated and deployed |
| Client SDK | `sdk/src/` | none | prepare, encrypt, register, upload, read, confidential access |
| Node process | `scripts/prime-server-node.mjs`, `providers.mjs` | child processes, poll timer, state file | start, stop, poll |
| Web interface | `ui/src/` | the loaded view, the flow of the page | explorer, upload, confidential access |
| Deployment and demo scripts | `scripts/` | – | – |

### How they interact

* A wallet registers a blob on chain, paying into escrow; it then PUTs the
  ciphertext to the gateway, which reads the registration from the chain, encodes,
  calls `assignShard`, sends each shard to its provider, and has each provider's
  account call `acknowledgeShard`; then `finalizeBlob` and the store's `putObject`.
* `POST /v1/blobs/:id/recover` goes through the recovery coordinator to the job
  queue in the operational store and from there to `rebuildBlob`, which performs
  `startRecovery`, `reassignShard`, upload, `acknowledgeShard`,
  `recordRebuiltShard` for every missing shard.
* Providers claim with `claimProviderSettlement`, the owner takes a refund with
  `refundPaidBlob`, the admin withdraws fees; these share one balance.
* A wallet signs an access intent; anybody brings it to the registry, the wallet has
  the FCC sender publish an instruction for it, an enclave answers (for a computation
  it fetches the ciphertext from the gateway), and anybody brings the signed answer to
  the verifier, through which the sender, a controller of the registry, consumes the
  intent. A selected wallet fetches the ciphertext from the gateway with an intent
  that is not consumed yet.
* The node process spawns the providers, serves the gateway and polls the indexer,
  whose cursor is in the operational store. The explorer reads the contract's events
  from an indexing service and the blobs from the chain.
* All requests of the gateway run interleaved on one event loop, every `await`
  being a point where others run; the chain, the providers and the gateway crash and
  restart independently of each other.

### What is hard, and what makes each part correct

* **Registry, payment.** Long sequences of legal calls by four kinds of actors over
  one balance. Correct: it always holds exactly what it owes; each shard's reward and
  reserve are paid once whoever holds it; no rounding remainder blocks the fee; the
  reserve stays until expiry; refund and settlement exclude each other.
* **Registry, storage.** Finalization compares two counters; recovery opens a whole
  blob to reassignment. Correct: an Active blob has every shard acknowledged by its
  holder; a finalized blob's shards are always placed.
* **Confidential access.** A relay by anybody, an enclave that does not ask again.
  Correct: an intent is consumed once, before its deadline, by its controller, for a
  wallet that is still allowed, with the answer to an instruction for it; what the
  enclave releases was sealed for this blob and use.
* **Recovery queue.** Leases, retries, crashes with a job running. Correct: one worker
  at a time inside the lease; a finished job stays finished; a job is eventually
  finished; a restart loses nothing that was acknowledged.
* **Gateway.** Remote calls with a crash or failure between any two, transactions
  that are mined late or reverted unseen. Correct: an acknowledgement on chain has
  its file behind it; the index names only finalized blobs; a retry completes what a
  failed attempt began.
* **Indexer.** Correct: every block is scanned exactly once per process and skipped by none.
* **Provider.** Correct: what was acknowledged is served, and signed by one key.
* **Node process.** Correct: no child outlives its launcher; a stop comes to its end.
* **What is computed twice** (price, policy, enclave, substitute registry, explorer).
  Correct: the two agree.

`PROJECT.json` lists the hazards line by line, with the properties that cover them.

## 2. Plan

Order: the component holding money first, then what calls it.

| # | Module | State |
|---|---|---|
| 1 | `NativeQuote` – the price and its split, pure operators | done, proved |
| 2 | `Totals` – sum of a function over 1..n as a recursive function | done, proved |
| 3 | `PrimeServerRegistry` – storage and payment half of the contract | done, proved |
| 4 | `ConfidentialAccess`, `OneTimeAccess` – the other half of the contract, and what it promises of an intent | done, proved, with the refinement |
| 5 | `RecoveryQueue` – store and coordinator: jobs, leases, write failures, crash and restart | done, safety proved |
| 6 | `FccAccess` – sender, verifier, enclave and clients composed with ConfidentialAccess | done, proved, with the refinement |
| 7 | `Gateway` – uploads, settlement, rebuilds and the index, composed with the registry and the providers' files | done, safety proved, with the refinement |
| 8 | `ShardStore` – a provider's files and identity under concurrency and kills | done, proved |
| 9 | `EventIndexer`, `WalletSessions`, `ProviderProcesses`, composed in `NodeProcess` | done, safety proved |
| 10 | `Preparation`, `Enclaves`, `MemoryRegistry`, `Explorer` – what is computed in two places, compared in `MCAgreement` | done, proved |
| 11 | `StorageEscrow` – abstract: a payment per blob that is open, paid out once per shard, or returned; the registry implements it under a refinement mapping | left: its content is in LedgerOnlyGrows, SettlementMatchesMarkers and RefundedNeverSettled, which are proved |
| 12 | Paging of listings and byte ranges | left: stateless, see "Not modelled" |

Every invariant and every action property of the passing runs is proved (section 5);
what is left of the plan are the two rows marked so. Worth proving next: the refinement
of row 11, and with it that gateway and access half implement the escrow too.

## 3. What each module models

### PrimeServerRegistry

One step is one transaction, which is atomic. Every function of the contract writes all its
state before it transfers value; a callee that calls back therefore sees the state after the
step, and its call is the next step. A revert changes nothing: each `revert` is a missing
conjunct of a guard.

| Variable | Contract |
|---|---|
| `now` | `block.timestamp`, moved by `Tick` |
| `balance` | `address(this).balance` (the contract has no receive function; ether forced in by other means is not modelled) |
| `coordinators`, `pricing`, `withdrawableProtocolFees`, `nextProviderId` | the storage variables of those names |
| `providers`, `providerIdByOperator` | the mappings; endpoint and metadata left out |
| `blobs`, `blobNames`, `blobIdByOwnerName`, `blobPolicies`, `blobPayments` | the mappings; commitments and sizes left out, since the contract only stores them |
| `placement`, `acknowledgements` | `placement`, and the pairs for which an acknowledgement exists |
| `providerSettlementClaimed`, `providerReserveClaimed` | the markers under `GLOBAL_SETTLEMENT_PROVIDER_ID`, as a set of shards per blob |

Actions carry the functions' names. `CreateBlobRecord` is `_createBlob`, used by the
three families of registration. `claimProviderSettlement` takes an array of indices;
the model takes a set, because the loop sets a marker at the first occurrence and a
repeated index then adds nothing. The marker mappings have a provider id as key, but
the code only ever uses id 0 (`GLOBAL_SETTLEMENT_PROVIDER_ID`), so the model has one
set of shards per blob. `_createPaidBlob` returns an overpayment after `_createBlob` and all
its own writes.
What each function asks of its arguments is an operator of its own (`MayAssignShard`,
`MayClaimSettlement`...), so that the in-memory registry can be compared with the contract call by
call and the gateway's `estimateGas` can ask without calling.
Short operators preceded by a "Variant" are one-line conditions of the code given a
name; the variant is what a plausible mistake there would be, and PROJECT.json's
mutants put it in place to show that the property notices.

### NativeQuote, Totals

`NativeQuote` is `quoteNativePayment` and `_modeMultiplierBps` on the naturals:
the arithmetic of the contract is checked, so an overflow reverts and reaches no
state. `Totals` sums obligations by a recursive function over 1..n (a RECURSIVE
operator would take the module out of the prover's reach).

### ConfidentialAccess, OneTimeAccess

`ConfidentialAccess` extends `PrimeServerRegistry` with the remaining variables and
functions of the contract. Its next-state relation contains every step of the
registry, so grants and intents meet expiry, recovery and registration as they do on
chain.

| Variable | Contract |
|---|---|
| `confidentialAccessControllers`, `selectedBlobWallets` | the mappings to bool, as sets |
| `confidentialAccessNonces` | the mapping of that name, per blob and wallet |
| `confidentialAccessRequests` | the requests whose `requester` is set |
| `consumed` | those whose `consumed` flag is set |

The contract keys a request by its EIP-712 digest, a function of the six signed
fields, which it then stores; the model's record of these fields is its own key. The
requester and the deadline decide who may use it when; the device commitment only
tells intents apart. Any wallet may sign any intent at any time and anybody may
bring it, so `AuthorizeConfidentialAccess` is offered every intent in every state,
in particular those recorded or consumed before. Recording clears the flag
(`consumed \ {r}`), as the code's write of a fresh struct does: that this never
happens to a consumed intent is a property (`AccessIsOneTime`), not an assumption.

`OneTimeAccess` has a counter and a set of served numbers per pair of blob and
wallet. The refinement maps the counter to the nonce and the set to the nonces of
consumed intents.

### RecoveryQueue

| Variable | Code |
|---|---|
| `mem`, `disk` | `state.recoveryJobs` in memory and in the file; `NoJob` where there is no entry |
| `pc`, `asked`, `working`, `found`, `answer` | the local state of one call of `recoverBlob`: where it awaits, its blob, the job it claimed, what `recover` returned, what it returns or throws (`Failure`) |
| `missing` | blobs some shard of which a read would find missing |
| `overrun` | history: blobs a worker of which outlived its lease since the last restart |
| `crashes`, `writeFailures`, `losses`, `failures` | counters for the bounds `MaxCrashes`, `MaxWriteFailures`, `MaxLosses`, `MaxFailures` |

The store's promise chain (`lock`) lets in one operation at a time and readers wait for it,
so an operation with its write is one step. The write fails (`NotSaved`) after the mutator
has changed the memory; the file is then the old one or, when only the `chmod` after the
rename failed, the new one. A crash during an operation is a crash before it or after it,
because the file is replaced by a rename. `Failed` always queues again, as its one caller
does (`retry: true`). Creation times are an order number; jobs enqueued in one millisecond
keep that order in the code too, because the sort is stable. A lease is held or expired;
`ExpireLease` is the passing of time, and nothing happens at it until a claim looks.
`Rebuild` and `RebuildFails` are the outcome of `rebuildBlob`, whose own steps are in
`Gateway`. The workerId, the attempts counter, reasons and error texts decide nothing and
are left out.

### FccAccess

Extends `ConfidentialAccess`; the sender is a controller. `envelopes` holds per blob
what its key envelope has sealed in it (the contract knows only its hash),
`instructions` what was sent with the machine it went to, `results` the enclave's
answer to each, `flows` what each wallet's client is at: prepare, authorize, fetch the
ciphertext (two steps, since the gateway looks at the registry twice), request, wait,
submit. `OthersSubmit` is anybody bringing intents and results at any time. The
variable `entitled` in an instruction records for ReleasedIsEntitled what held when it
was sent. `MachineLeaves` takes the verifier's machine out of the machine registry.

### Gateway

Extends `PrimeServerRegistry` with the server's requests. A request is a record with
its kind (Put, Post, Rebuild), the step it awaits, and what it remembers of the last
read (`placed`, `acked`). A contract call is three steps: `Submit` after the estimate
accepts it (`Passes`; or `Refuse`, which ends the request),
then `Mine` or, when the state has moved on, `Revert`, which the code does not notice.
A request that is answered or cut off with a transaction under way leaves an
"Orphan", which is mined or reverted later.

The gateway is not the only caller of the contract. An owner registers blobs
(`OwnerRegisters`) as the SDK does: paid, one shard per configured provider. At any time
he may make the six calls the contract lets him make as well as the coordinator
(`OwnerIntervenes`: assign, finalize, refund, start a recovery, reassign, record). Time
passes beside both (`Passing`).

A rebuild begins only as `recoverBlob` lets it (`BeginRebuild`), so each blob has a job:
one that succeeded is answered as it was and rebuilds nothing, a failed one is queued
again, and one that was running when the process ended stays "running" (`LeftRunning`)
until the worker of another blob's queued job happens to take it over.
The queue itself, with leases and with jobs oldest first, is `RecoveryQueue`'s subject: here
any queued job may be next, and a lease does not run out while its worker is at it.

| Variable | Code |
|---|---|
| `requests` | the local variables of `placeEncodedBlob`, `settleProviderClaims`, `rebuildBlob`, `readBlob` per request |
| `registered` | how far the start has got with registering providers; requests wait for it |
| `files`, `lost` | what the providers store, as ShardStore serves it; what they lost |
| `index`, `indexFile` | the store's objects in memory and in the file |
| `jobs` | the status of each blob's recovery job ("queued" also before there is one) |
| `faults`, `ownerCalls` | counters for the bounds `MaxFaults` (failing calls, failing writes, crashes), `MaxOwnerCalls` |
| `cut`, `interrupted` | history: blobs cut off after finalizeBlob, or between startRecovery and recordRebuiltShard |
| `byOwner` | history: which of the owner's six calls was made for which blob |

### ShardStore

One provider. Each file operation is a step, since Node lets other requests in at
every await; `data`, `tmp`, `meta` are the three files of a shard, `fd` the file a
handle points to (a rename moves the file under an open handle). A file that is being
written by two, or was being written when the process died, is `Torn`. `LoadIdentity`,
`GenerateIdentity`, `SaveIdentity` are the start.

### EventIndexer, WalletSessions, ProviderProcesses, NodeProcess

`EventIndexer` scans blocks in windows, a block standing for its events, and persists
the cursor through the store (`cursorMem`, `cursorDisk`). `WalletSessions` is
`PrimeAuthManager`: `BeginSession` reads the challenge, `EndSession` is what follows
the await. `ProviderProcesses` has both launchers (`launcher` is "node" or "suite"),
their children and who listens on which port. `NodeProcess` composes the three: one
process whose end takes the events and challenges in memory with it, whose timer polls,
and whose signal handlers exist only after the first poll.

### Preparation, Enclaves, MemoryRegistry, Explorer

These state what the code does in two places. `Preparation` is the policy, expiry, size and
envelope of library and page; `Enclaves` the two enclaves as functions from a message to an
answer; `MemoryRegistry` the test substitute beside the contract, every call being made on
both (`OnChain` is a call on the contract that may be refused) and the two being compared in
what `getBlob` shows (`ChainGetBlob` is `flare-registry.mjs`, which lists every shard and
the acknowledgement of its present holder; the substitute lists placed shards only and
everyone's acknowledgements); `Explorer` the page's load in steps (events, fold, one read
per blob) while the chain moves. Events come in the order of their blocks, so an answer of
the service is a stretch of the log from which the ends outside the blocks asked for are
cut; the fold starts from nothing, and a load is either oldest first (`Legacy`) or newest
first (`Page`). The service may be behind the node in both: a load sees the events up to one
of them (`indexed`), while the number of the latest block comes from the node. `MCAgreement`
compares them: three subjects are questions, each an initial state, two have behaviours.

## 4. Runs

Amounts are counted in units of 10^11 wei (the default rate is 10), since TLC's
integers are 32 bits wide; the theorems have no such limit. The registry's clock takes three
values: registration, the expiry one day later, and a block after it, so that
"at the expiry" and "after the expiry" differ, which they do in the code (`>=` for
the reserve, `>` for the refund).

| Run | Instance | Shows |
|---|---|---|
| `settlement` | 1 blob, 1–2 shards, 2 providers (symmetric), recovery and reassignment | TypeOK, SettlementMatchesMarkers, SettledExactlyWhenAllPaid, ReserveHeldUntilExpiry, ActiveFullyAcknowledged, RefundedNeverSettled (171 654 states) |
| `ledger` | 2 blobs of one shard, 1 name, an owner who is also the provider and before that coordinator and back, payment short/exact/over, price changes to (1, 100%), an invalid price, withdrawals of any amount | Solvent, NameIndexAgrees, LedgerOnlyGrows (441 467 states) |
| `fcc` | 1 blob of either encrypted mode with an envelope sealed for either, its owner and another wallet, 2 machines, 2 instructions, deadlines and clock at three times | ConsumedHasResult, ReleasedIsEntitled, DoneIsConsumed, AccessIsOneTime (279 992 states) |
| `agreement` | quotes, preparations and messages around every boundary; 2 blobs and 2 providers on both registries; an explorer that looks back 2 blocks of 4, 2 events to a page | PoolSplitsEvenly, PriceIsLeastCovering, PreparedIsServed, EnclavesAgree, MemoryAgrees, ExplorerShowsIndex (659 245 states) |
| `gateway` | 1 blob, 2 providers of which either suffices to read, 2 requests; 1 fault (failed call, failed write or crash) and 1 loss, or 1 call of the owner and time for a refund | AcksAreBacked, IndexedIsFinal, ReportedIsSettled, RecoveringHasRebuild, UploadsFinish, LostIsRebuilt (161 880 states) |
| `shards` | 1 shard, 2 contents, 3 requests, 2 kills, 1 loss | AckedIsServed, OneSigningKey (586 153 states) |
| `node` | 2 children, 2 troubles, 5 blocks, 2 wallets, 1 challenge, 2 calls; chain and clients busy in different behaviours, since they share only the life of the process | NoOrphans, ScannedOnce, NothingSkipped, TokensAreSigned, OneSessionPerChallenge, StopCompletes, CatchesUp (101 763 states) |
| `recovery_jobs` | 2 blobs, one never rebuildable, 2 requests at a time (symmetric), 1 crash, 1 failed write, 1 failed rebuild, 1 loss, leases unbounded | AloneUntilOverrun, DurableAnswers, FinishedIsFinal (410 668 states) |
| `recovery_progress` | 2 blobs, 2 requests, 1 crash, 1 failed rebuild | JobsFinish, EveryRequestEnds under RetrySpec (49 534 states) |
| `recovery_after_restart` | 1 blob, 1 request, 1 crash | violation of JobsSurviveRestart |
| `recovery_mixed_answers` | 2 blobs, 2 requests, 1 failed rebuild | violation of RepeatedAnswersAgree |
| `refund_then_finalize` | 1 blob, 1 shard | violation of FinalizedIsClaimable |

Why the bounds suffice: what a provider is paid depends on one blob, so one blob of two
shards and two providers has every interleaving of two holders of a shard with a claim on
part of the shards; blobs share only the balance, the fee counter, the price and the names,
so two blobs show one being paid out of the other's money. In `ledger` a wallet is
coordinator only in the first block and before there is a provider (`DelegatesEarly` in
`MCRegistry`): what matters there is how it registers names before, meanwhile and
afterwards; `settlement` has an owner becoming coordinator at any time. Rate 1 makes the
immediate reward zero, the smallest case of the split. The blob and provider counts are
bounds on counters of the model only (`NumBlobs`, `MaxProviders`, `MaxShards`), and the
theorems hold for all of them.

For the access half, blobs do not interact and wallets of a blob share only the grants, so
one blob with an owner and one other wallet has every case of entitlement; two instructions
are one intent sent twice, or two intents, on two machines of which the verifier trusts one.
For the queue, two blobs give an older and a younger job and two requests a worker and its
rival; the counters bound faults, and each single fault already meets every other in any
order. Leases may run out any number of times. For the gateway, requests meet only at one
blob (its placement, its status, its index entry), two of them give every overtaking of an
upload or rebuild by another, and one fault meets each of their steps; with two shards of
which one suffices, a rebuild has one to read and one to restore. A call of the owner
(`MaxOwnerCalls`) and the passing of time meet each of their steps too, but not in one
behaviour with a fault or a loss (`Bounded` in `MCGateway`), because the liveness properties
would then take too many states. The four invariants were also checked with faults and
owner's calls, two together (1.6 million states), and their theorems have no bounds. With one blob
a job that a crash left running is never taken over, the case for which LostIsRebuilt has an
exception. For a provider, shards share no file but the identity; a third request is a
reader while two write. For the indexer, five blocks in windows of two give a partial
window, a poll of two windows and a second poll. Where a cfg says `CHECK_DEADLOCK FALSE`,
the system stops when nobody asks anything more or its bounds are used up, or the launcher
cannot start again; the comment there says which.

**Fairness.** The contract assumes none: it moves when somebody calls it. The queue's
`Fairness` says that store calls and rebuilds return (file operations and requests with time
limits), that leases run out (time passes), and that a request that is polling again and
again reaches its deadline: strong fairness of `GiveUp`, since the loop tests the clock at
its head on every round. `RetrySpec` adds clients that ask again for every blob, which the
code does not ensure; it is the premise of "can be retried", since without a request nothing
drives the queue. The gateway's `Fairness` says that the event loop takes each request
further, that sent transactions are mined, that the container restarts the process
(`deploy/aws/bootstrap.sh`), and, as the premise of both liveness properties, that clients
ask again: strongly fair, because other requests may hold the two slots in between. For
uploads this is said of every blob; for rebuilds only that some rebuild begins that
`recoverBlob` allows, because which job a request runs is not up to it. The node's says that
processes run, the timer fires, calls are answered and a launcher that ended is started
again. Crashes, failures and losses are never fair.

**Findings with a run.**

* `refund_then_finalize`: `architecture.md` describes the payment as
  "escrowed before upload, claimable after finalization". After the expiry the owner of
  a fully acknowledged Pending blob may take the refund and then still finalize it:
  the blob is Active, is served and may be recovered, while its payment is Refunded
  and no provider can claim. RefundedNeverSettled (passing, proved) shows the other
  side: no money is paid twice.
* `recovery_after_restart`: a job that was running when the process died is running
  in the file. `recoverBlob` claims only if the status reads "queued", and only a
  claim looks at leases; so all later requests for the blob poll and time out, unless a
  new job of another blob happens to cause a claim. A claim whose write failed has the same
  effect without a crash.
* `recovery_mixed_answers`: a request returns the result of whichever job it ran; with
  two blobs in the queue this may be another blob's.

**What the passing properties except.** Each is the strongest statement the code
satisfies; the exception names a limit of the code.

* Queue. A failed job goes back under its old creation time and every request runs the
  oldest job: with a blob in `Broken`, younger jobs never run (so JobsFinish is checked
  without one). A succeeded job is final for `recoverBlob` too: when its blob loses a
  shard again, the old result is returned and nothing is rebuilt. A late worker that
  fails queues the job although the next worker holds a fresh lease, so
  AloneUntilOverrun says "until some lease was outlived".
* Gateway. An upload cut off after `finalizeBlob` is never indexed: the retry gets 409
  (`cut` in UploadsFinish), and so is one whose owner finalizes it himself (`byOwner`) or that
  expires first. A rebuild cut off between `startRecovery` and
  `recordRebuiltShard` leaves the blob Recovering, which every later `startRecovery`
  refuses (`interrupted` in LostIsRebuilt, RecoveringHasRebuild); the owner can do the same
  with a `startRecovery` of his own, or by reassigning the shard a rebuild is about to
  record (`OwnerRecovers`). A shard lost after the blob's job succeeded, or while a job
  that a crash left running stands in the way, is not rebuilt (LostIsRebuilt is about blobs
  whose job is queued, and excepts `LeftRunning`). A claim that is
  reverted because a rebuild opened a recovery between its estimate and its block is
  reported settled, since `write` does not look at the receipt's status
  (ReportedIsSettled is about Active blobs).
* Provider. Two contents of a shard being written at once share one temporary path, and
  metadata is written in place, although `SLICES.md:88` has it that "the daemon uses atomic
  writes": the parts may disagree (`mixed`, `cut` in AckedIsServed). Torn metadata answers
  500 for ever. A provider that lost the data and kept the metadata answers every upload
  from the metadata, so the shard never comes back (LostIsRebuilt is about losing both). A
  start killed while it writes `identity.json` cannot be repeated.
* Node. The health check does not ask who answers on a port. A signal that comes
  before the handlers are set, or a second one, ends the process at once, and outside
  a container its children live on; the suite forgets a child whose health it waited
  for in vain, and all of them when the state file cannot be written (`leaked` in
  NoOrphans). Without a configured deployment block, a process that ends before it
  saved a cursor skips the blocks until the next start (NothingSkipped).
* Sessions. Two calls that verify one challenge at once both get a session
  (OneSessionPerChallenge excepts `doubled` nonces).
* Access. The wallet may be deselected after the instruction was sent and the key is
  still released; only the record is refused (ReleasedIsEntitled speaks of when it was sent).
  Whoever relays the result first consumes the intent, and a client that has not yet
  fetched the ciphertext gets 403.
* Preparation. A mode or policy given as a number from 3 to 255 passes `policy.mjs:23`
  and is refused by the contract. A file within 28 bytes of 2 MiB cannot be encrypted,
  because nonce and tag come on top.
* In-memory registry. It accepts a shard index beyond the blob's shards, registrations
  without shards, past their expiry or in a coordinator's name, and a second
  finalization; the comparison does not go there. It lists former holders'
  acknowledgements, which the client of the contract does not, and no shards without a
  holder, which that client lists under provider 0; MemoryAgrees compares what is
  left when the substitute shows a blob as that client does (`AsTheChainShows`).
* Explorer. From the paged source (newest first) a provider's deactivation is undone
  by its older registration, and a blob whose name cannot be read is "Unnamed blob";
  the window of 75 000 blocks hides older blobs (ExplorerShowsIndex speaks of the
  window, and of order where it matters). The page names the node's latest block and,
  apart from it, the last block it got an event of (`indexedBlock`); the service may be
  behind, so between the two there may be blobs it does not show.

**Read off the code while modelling, without a run.** `client.mjs:293` and `App.tsx:358`
wait for a result with `response.ok`, which is true of the 202 that `server.mjs:297` answers
while it is pending (`docs/agent-integration.md:173`: "A result can remain `202 pending`"),
so the wait ends at once and the submission fails. A key package of the simulated enclave
carries a `responseCommitment` which the deployed one's does not; EnclavesAgree says that
they agree up to it. The explorer counts a recovery at its start and again at its record,
and shows a shard as acknowledged when its index is below the acknowledgement count. The
gateway filters expired objects after it cut the page (`server.mjs:434`), takes a blob
without expiry for expired in GET, PUT and listing although the upload accepts it (435,
443). `listObjects` sorts by locale and compares its cursor by code unit.

## 5. Proofs

Assumptions are the named ASSUMEs of the modules and nothing else; TLC evaluates them on
every run. For the registry: the admin is an account, address(0) is not, sizes and times are
positive naturals, the deployed price is one setNativePricing accepts. For access: wallets
and controllers are accounts. For the queue: there are finitely many blobs, the bounds are
naturals, an error and a missing answer are no results. For shards: there is a shard, and
the marks for missing and torn files are no contents. For the node: windows, lifetimes and
the first block are positive, the chain has a block after the first, there is a provider,
and the mark for nobody is no wallet. For the FCC flow: owners are wallets, the verifier's
machine is a machine, its only controller is the sender, and a call may send no value. For
the gateway: owners are accounts other than the admin (who is the coordinator whose key the
server holds), the configured providers are the operators of the registry, one per shard,
the code decodes from at least one and at most all of them, a call may send no value, and
the bounds are naturals. For the explorer: the deployment block is a natural or not
configured, the window a natural, and a page holds at least one event.

* `RegistryProofs!Invariance`: `Spec => []IInv`. The other theorems about the registry
  follow from it. The module begins with the two lemmas it rests on. The sum of a function
  on 1..n is a natural when its values are, changes by the difference when one value
  changes, and stays when none does: ordinary induction on n over a fixed statement. And
  `QuoteSplits`: for every size, number of shards, mode, duration and price, pool = shards
  × (reward + reserve) without remainder, where the reserve is the one a claim finds by
  division; the reserve is positive and at least a tenth.
* `AccessProofs!AccessInvariance`, on top of `RegistryUndisturbed`: the whole contract
  implements the registry's specification, which carries every theorem of
  `RegistryProofs` over to it.
* `RecoveryProofs!Invariance`: the same for the queue.
* `ShardProofs`: WellTypedInvariant, SignedByIdentityInvariant and
  ShardsConsistentInvariant, with one lemma per file operation.
* `NodeProofs`: three invariants, one per component of the node (IndexerInvariance,
  SessionInvariance, ChildrenInvariance), because each component's steps leave the
  others' variables alone or reset them at a start.
* `FccProofs!AccessUndisturbed`: the whole flow implements the contract's
  specification, which carries the invariants of registry and access over to it;
  FccInvariance adds what clients and instructions hold.
* `GatewayProofs!RegistryUndisturbed`: the gateway, with its late and reverted transactions,
  crashes and losses, implements the registry's specification; `GatewayInvariance`
  (`GatewaySpec => []GInv`) adds what each request knows.
* `AgreementProofs`: five arguments, one per subject of `MCAgreement`. Three are about
  all questions and not only those of the run (PriceIsLeast, PreparedServed,
  EnclavesAnswerAlike), from which the run's invariants follow; the substitute registry
  and the explorer have behaviours and inductive invariants (InStep; LogSound, LoadSound
  and ViewSound).

| Theorem | Property |
|---|---|
| TypeCorrect | TypeOK |
| Solvency | Solvent |
| PaidOncePerShard | SettlementMatchesMarkers |
| FeeAfterAllPaid | SettledExactlyWhenAllPaid |
| ReserveHeld | ReserveHeldUntilExpiry |
| RefundExcludesSettlement | RefundedNeverSettled |
| ActiveIsAcknowledged | ActiveFullyAcknowledged |
| FinalizedIsPlaced | FinalizedShardsPlaced |
| LedgerMonotone | LedgerOnlyGrows |
| AccessTypeCorrect | AccessTypeOK |
| NonceIdentifies | NonceIdentifiesIntent |
| IntentsFit | IntentsFitPolicy |
| OneTime | AccessIsOneTime (`AccessSpec => Tickets!Spec`) |
| TypeCorrect (RecoveryProofs) | TypeOK |
| LeaseExcludes | AloneUntilOverrun |
| AnswersDurable | DurableAnswers |
| FinishedStays | FinishedIsFinal |
| NamesAgree | NameIndexAgrees |
| SignsWithOneKey | OneSigningKey |
| ServesWhatItAcknowledged | AckedIsServed |
| ScansOnce | ScannedOnce |
| SkipsNothing | NothingSkipped |
| ServesTheSigner | TokensAreSigned |
| OneSessionEach | OneSessionPerChallenge |
| LeavesNoOrphans | NoOrphans |
| ResultsConsume | ConsumedHasResult |
| FinishedIsConsumed | DoneIsConsumed |
| EntitledRelease | ReleasedIsEntitled |
| BackingInvariance | AcksAreBacked |
| IndexInvariance | IndexedIsFinal |
| ReportInvariance | ReportedIsSettled |
| RecoveryInvariance | RecoveringHasRebuild |
| PoolsSplit | PoolSplitsEvenly |
| PricesCover | PriceIsLeastCovering |
| PreparationsServed | PreparedIsServed |
| MessagesAgree | EnclavesAgree |
| SubstituteAgrees | MemoryAgrees |
| IndexShown | ExplorerShowsIndex |

Why the inductive invariant looks as it does. `Solvent` alone is not inductive: a claim
lowers the balance by what it pays, and the books only balance if that is at most
what is still owed for this blob. So one needs what is settled as a function of the
markers (SettledByMarkers), markers confined to the blob's shards with the reserve
never before the reward (SoundMarkers), and a pool that is exactly shards × (reward +
reserve) (SoundTerms, established at registration by QuoteSplits). The fee is
released by comparing amounts; that this means "all shards paid" needs the reserve to be
positive (SoundTerms again, SettledWhenAllPaid). Registration overwrites a payment record,
which is harmless because an unregistered id is Blank. ActiveFullyAcknowledged needs
that while a blob is Pending all its acknowledgements are current and the counter is
their cardinality (Acknowledged): placement is write-once in that status, and a set of
as many acknowledged shards as there are shards is all of them. FinalizedShardsPlaced
needs that no shard is placed with an id not yet assigned (ProvidersKnown). The balance
is a natural because it is a sum of obligations, each a natural (settled within pool).

For the access half: that a consumed intent is never recorded again needs that every
recorded nonce lies below the next one (NonceIdentifiesIntent, which is inductive
with the types), and serving maps to serving a fresh number because two intents of a
pair with one nonce are the same. IntentsFitPolicy needs two facts about the registry's
steps: policies are sound combinations (PoliciesSound), and a registered blob keeps
its owner and policy (OwnersKept).

For the queue: the file is never ahead of the memory and agrees with it on everything
it calls succeeded (FileSound), which makes finished jobs survive both a failed write and a
crash. While a blob's leases were respected its worker's job reads running-and-held or
succeeded (WorkersHold), so no mutator queues it but the worker's own. A rebuild that is
about to be recorded has a result of its own blob (FoundIsOwn), and so has every succeeded job,
so that the blob an answer names is the blob whose job succeeded.

NameIndexAgrees needs that the owner of a blob is an account (OwnersAreAccounts), since
an entry made under one owner must be told from those of all others.

For shards: AckedIsServed speaks of the time when nobody writes, so the invariant says what
the files may be while somebody does. Consistent names, per shard, what a temporary file can
hold and who holds it open (TmpHasWriter), that metadata is only written once its data is in
place (DataBeforeMeta), that a content which is acknowledged, about to be, or named by the
metadata is on disk and the only one being written (Known, KnownIsKept), and that metadata
met by a second writer was acknowledged or is about to be (MetaIsAcked). Two contents at
once, or a kill during a second write, break exactly this; those shards are set apart by
`mixed` and `cut`.

For the node: a process that is `ready` is in a phase in which it may poll, and has
loaded the cursor of the file (ReadyInPhase, CursorIsLoaded); a window ends at the block the
poll saw, which is no further than the chain (WindowsFit). A session needs that
a challenge that gave its session is gone and nobody verifies it (ChallengesUsedUp), and
that calls and tokens go back to a challenge for the same wallet, issued no longer ago than
a challenge lasts (IssuedInTime). A child alive is in its launcher's list, awaited by it, or
one of those it leaked (ChildrenKept).

For the FCC flow: an instruction was sent to an entitled wallet for a use that fits the
blob, a success opened an envelope that fits both, and the owners and policies this rests on
do not change afterwards (InstructionsSound, BlobsKept); a result once given stays
(SuccessesStay), and so does a consumed intent (ConsumedStays).

For the gateway: none of the properties is inductive, because each depends on what a request
that awaits something believes. GInv therefore says, request by request, which of its
beliefs still hold: what it addresses is registered (Addresses), what it will have
acknowledged is in the provider's files or was lost from them (Stored, which makes
AcksAreBacked inductive), a PUT of a Pending blob knows the placement where it is set and
the acknowledgements up to its shard (Uploads: another upload may overtake it, and the owner
may place a shard elsewhere before it, but nothing unplaces a shard of a Pending blob, and
an acknowledgement counts for the provider the shard is with when it is mined), a claim
whose estimate succeeded has been paid in the meantime or would still be (Claims: this is
why a revert that nobody looks at leaves ReportedIsSettled true of Active blobs), and one
rebuild of a blob runs at a time, with its job marked running; the shard it restores stays
with its provider unless an earlier rebuild was cut off or the owner takes a hand
(Rebuilds). Of the registry it needs that shards of an Active blob with one provider are
paid together (PaidTogether, in BlobsServe). `WorldMovesOn` states what no step takes back,
of the chain or of the files; one lemma per step shows that the step moves the world on, and
one per conjunct that the other requests' knowledge survives such a move. Interference is so
dealt with once and not for each pair of steps. A call through the gateway is a step any
caller of the contract could make (CallsAreSteps), which is the refinement.

For the price: ⌈a/b⌉ is the least number of units of b that covers a, and each of the three
roundings of the quote is one of these. For the substitute registry: ShowsChain alone is not
inductive, because it compares only what is shown; InStep relates also the names taken, the
provider ids given out and the contract's counter of acknowledgements, which the substitute
recounts (CountsAcks). Each call is then accepted by both or by neither. For the enclaves:
both run the same conditions in another order, so the answers are compared case by case
(sealed or not, bound or not, released or not), up to the field that only one of them has
(Committed). Each adds up a field with a fold of its own; FoldsAddUp shows that both are the
total of the prefix sums, whatever order they take. For preparations: PreparedServed goes
from the mode and policy the library accepts, to an encrypted policy the contract registers,
to the envelope (SealedIsAnswered), for any size, time, name and key.

For the explorer: the registry moves on while it reads, so what makes the page true is that
the log only grows, in the order of blocks, that each blob is created once with its name in
the same block, and that a provider is registered before its status changes (LogSound).
At every moment of a load, what has been read is a stretch of the log cut at
blocks (LoadSound): from the first event to the end of the pages while they are
fetched (PagesSound), the whole stretch before the fold, and after it what such a stretch
teaches (FoundSound). Events mined later have later blocks and cannot change what it means.
ViewSound says the same of what is shown. For the fold,
KnownAfter says what is known after the first k events as a function of the last
event about each blob and provider.

NonceIdentifiesIntent, IntentsFitPolicy, FinalizedShardsPlaced and the two type
invariants of access and queue are proved and no longer checked by a run of their own:
they are steps of the arguments for properties the runs do check. The inductive invariants
of gateway, substitute and explorer were checked by TLC on the instances of the runs before
they were proved.

Only model-checked: the liveness properties (UploadsFinish, LostIsRebuilt, StopCompletes,
CatchesUp, JobsFinish, EveryRequestEnds), which need fairness and ENABLED and so are out of
the prover's reach, and the violation runs, whose properties are false. Induction
over data with an operator as parameter is out of reach too, so nothing here is proved of a
recursive definition in general. The sum of `Totals` is a recursive function over a fixed
definition; the folds of `Enclaves` and `Explorer` take a step that is fixed in the module,
so that the recursion they stand for can be shown to exist by extending it by one index at
a time (FoldLonger, FoldExists), and their values by ordinary induction on the length.

## 6. Not modelled

* Keccak commitments, EIP-712 signatures, AES, the Clay code and identity keys: opaque
  values compared for equality; their strength is not a question of states.
* Rendering, routing and wallet selection of the UI, and the demo scripts: no protocol
  state of their own; `registry-abi.mjs`
  and the vendored contract interfaces are data.
* Gas, transaction ordering fees and chain reorganisations.
* Listing pages, byte ranges, headers and HTTP framing: one request, no state; their
  faults are described above and left to tests.
* The one-time configuration of the FCC contracts, and the access checks of the
  in-memory registry, which nothing in the gateway calls in another order than on chain.
* Provider deactivation while the gateway works (the registry's own runs have it), operators
  the gateway has no configuration for, and registrations it turns down at once: without a
  payment, or with another number of shards than it has providers.
* A lease that runs out under a live rebuild of the gateway (`RecoveryQueue` has it, with the
  rebuild as one step), and a server started without a recovery coordinator, which calls
  `rebuildBlob` directly.
* In `PROJECT.json`, a hazard without a property says why it has none.
