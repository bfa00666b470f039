# TLA+ models of HolonAgentService

HolonAgentService is a personal agent backend with a fixed-bounty market on an EVM chain.
A buyer publishes a task, providers apply with signed offers, the buyer selects one, and the
job's money sits in an ERC-8183 escrow contract until the evaluator accepts the delivery,
rejects it, or the deadline passes. Verification reports and demo services are paid per
request (x402). This directory models the parts where money and promises change hands, and
the parts whose steps interleave: contracts, Node protocol server, Python marketplace
backend, browser pages and the operators' scripts that are cut off and run again.

Run a model with `tlc -config <cfg> <module>`, check a proof with `tlapm <module>.tla`.
`PROJECT.json` lists every run, every modelled definition with its source lines, and the
hazards with the properties that cover them.

## 1. Inventory

| Component | State | Operations | Hard behaviours | What makes it correct |
|---|---|---|---|---|
| Task escrow contracts (`contracts/src/MainnetCanaryEscrow.sol`, `TaskEscrow.sol`) | jobs, `totalEscrowed`, token balance | create, set provider, set budget, fund, submit, complete, reject, claimRefund | calls of four roles in any order, budget changed while a fund waits to be mined, deadline | solvency, exact counter, caps, frozen terms, one settlement per job, refund always possible |
| Paid verification (`protocol/verification-payments.mjs`) | journal file per authorization, map of pending runs | challenge, call, run | concurrent identical calls, crash between record and settle, late facilitator | settle asked once, report on disk first, report only when paid, capacity |
| x402 demo payments (`protocol/payments.mjs`, `server.mjs`) | journal per nonce, `current`, serial queue | call | lost RPC answers, retries, reverted transfers, crash | served only if paid, charged buyers recoverable, binding kept |
| Market (`backend/marketplace/mvp.py`, `mvp_store.py`) | tasks, applications, orders | create/close task, apply, withdraw, select | handlers that read, await the chain, and write | tables agree, one order per task, offers stand, withdrawn offers are not sold |
| Orders (same files) | orders, tx_intents, deliveries, chain read-model | create/broadcast/reconcile intent, sync, create delivery | stale snapshots, late and repeated reconciles, two creates, overlapping uploads, crash between two writes | linked job is the agreed one, nothing shown that did not happen, final outcomes, order catches up |
| Browser wallet client (`frontend/js/views/xlayer.js`, `protocol/wallet.mjs`) | localStorage: pending transaction, idempotency keys | runIntent, resumePending | closed tabs, failed requests, reverts, several tabs | an open transaction can be resumed, the page is given back |
| Wallet authentication (`backend/marketplace/xlayer_auth.py`, `mvp_store.py`; `connect` of `xlayer.js`) | nonces, sessions, request window; the cookie and the page's account | challenge, verify, logout, rate limit | nonce consumed before an await, expiry, two tabs with one cookie, a background refresh during sign-in | one session per signed challenge, window bound, the account acted as is the one connected |
| Delivery storage (`mvp_storage.py`, `restore-mvp-ipfs.py`) | files, pins, CAR | persist, pin, export, restore | partial failure, retry | put-if-absent, restore equals what was pinned |
| Chain client, event scan (`protocol/chain.mjs`, `logs.mjs`, `backend/marketplace/xlayer.py`) | anchor, cached logs | readState, scan | reorganisations, head read after jobs, overlapping reads | the cache is the chain's history, a snapshot lacks nothing |
| Deployment (`protocol/chain.mjs`, `mainnet-canary.mjs`, `deployment.mjs`) | progress file, manifest, transaction records | deploy, resume, register agents | crash between send and checkpoint, dropped transactions, reorganisation | nothing created twice unless a record was lost, the manifest is true |
| Canary proof, acceptance run (`run-mainnet-canary-proof.mjs`, `demo-testnet.mjs`) | evidence, journal of signed transactions | pay, run the job, publish | stopped anywhere and run again, nonces used elsewhere | one charge, no second transaction, published before sent |
| Operator scripts (`fund-okx-ai-selftest-buyer.mjs`, `swap-mainnet-canary-usdt0-to-usdc.mjs`, `verify-mcp-paid.mjs`, `update-agent-endpoints.mjs`) | report, authorization, journal | fund, swap, pay, update | a transaction that outlives its command | repeated only after a cut, one charge, nothing outside the journal |
| Verification of deliveries (`protocol/verification*.mjs`, `analysis-contract.mjs`) | calls in progress | verify, analyse | reads of different blocks, capacity, deadline, a reorganisation in between | a report is true of the chain |
| Analysis service (`deploy/analysis/server.mjs`) | one active slot | analyse | bodies still arriving, timeout, aborted client | one model process, slot freed on every path |
| Chat page (`frontend/js/views/chat.js`, `stream.js`) | transcript, context, composer | send, stream, abort, change of mode | a reply that ends after the mode changed | the transcript is of one session |
| Marketplace page (`frontend/js/views/xlayer.js`) | data, timer, action in progress | load, poll, paint, act | a refresh that began before an action ends after it; leaving and coming back | shows what it loaded, after an action what was read after it, one timer |
| Sovereign data pod (`backend/sovereignty/`) | grants, audit log, pod files | grant, revoke, read, bridge | expiry, several writers | no read without a live grant |
| MetaLife simulation (`backend/metalife/`) | balances, state file | ticks, trades | long runs | conserved balances |
| Dialogue engine (`backend/engine/`) | memory, ontology | chat, learn | streamed retries | deduplication |
| Personal backend (`backend/main.py`, `identity.py`, ...) | history, profile files | HTTP routes | read-modify-write of files | no lost update |
| Website authentication (`backend/website_auth.py`) | key and token caches | authenticate | stale cache entries | staleness bounds |
| Verifying and packaging scripts, vendored registry | none of their own | - | - | - |

How they interact. The page asks the backend to prepare a transaction (`/intents`); the backend
asks the Node protocol server for calldata and chain facts (`/prepare`, `/state`, `/receipt`); the
user's wallet sends the transaction to the escrow contract; the page reports the hash
(`/broadcast`) and asks for the outcome (`/reconcile`); independently an open page polls `/chain`, which
replaces the backend's copy of the chain state. The payment servers talk to a facilitator or to
the token contract. Nobody holds a lock across these hops: every component works from reads that
may be stale by the time it writes, which is where the models spend their states.

## 2. Modules

| Module | Models | Notes |
|---|---|---|
| `Escrow` | both escrow contracts; `Capped` chooses which | one action per external function; adds the clock, ERC-20 balances, identity owners, signed but unmined funding transactions |
| `PaymentPromise` | abstract: what an escrow promises a payer and a payee | refined by `Escrow` |
| `SalePromise` | abstract: what a paid endpoint promises its callers | refined by `VerificationPayments` and `X402Payments` |
| `PartialSums` | sums over jobs | a recursive function |
| `EscrowProofs` | lemmas about the sums, theorems about `Escrow` | |
| `VerificationPayments`, `VerificationPaymentsProofs` | paid verification, and theorems | one action per stretch between two awaits |
| `X402Payments`, `X402PaymentsProofs` | the x402 seller, its serial queue, the chain's single use of a nonce, and theorems | anybody may use a signed authorization first (`UseOutside`): the token asks nothing of the caller |
| `Market`, `MarketProofs` | tasks, applications, selection, and theorems | a handler is split at each await |
| `Orders`, `OrdersProofs` | one order after its selection: rows, intents, delivery, and the job it follows; theorems | uses the contract's status transitions only |
| `WalletClient`, `WalletClientProofs` | the page's wallet code between localStorage, the intents and the chain, and theorems | uses the intents' states only; a mined transaction may also differ from what was prepared |
| `Deployment` | `deploy`, `deployMainnetCanary`, `registerAgents`: progress file, manifest, transactions | a command stops anywhere; the pool drops, a block is reorganised |
| `CanaryProof` | the canary proof: jobs, payment, evidence and its seed from the chain | |
| `OperatorScripts` | the acceptance run on the test network and its journal | nonces of the account, other uses of it |
| `BuyerFunding`, `TokenSwap` | scripts that fund the test buyer and swap its tokens | no journal: what they repeat, and after what |
| `PaidSelfTest` | the paid call of the MCP tool by the test buyer | the service is what `VerificationPayments` shows of it |
| `EndpointUpdate` | the move of the agents' endpoints | a journal for each origin |
| `EventScan` | `readState`: anchor, tail, cached logs, jobs | a chain that grows and forks under two readers |
| `DeliveryVerification` | `verifyXLayerDelivery` and its report | each read of the chain is a step |
| `AnalysisService` | the slot of the model process, and the analysis of a report | |
| `ChatPage` | the chat page between its stream, the modes and the composer | one action per callback or stretch between awaits |
| `MarketPage` | loading, polling, painting and actions of the marketplace page | a refresh reads, assigns what it read, waits for the wallet's balance and paints: four steps |
| `WalletAuth` | sign-in: tabs, wallet, cookie, nonces, sessions | |
| `MCComponents` | the modules from `Deployment` to `WalletAuth`, one per behaviour, with all their parameters | `Components.cfg` gives the values |
| `ServiceProofs` | theorems about the services, the pages and the readers of the chain in `MCComponents`, and about the types of all of it | `AnalysisService` to `WalletAuth`, `EventScan`, `DeliveryVerification`; extends `OperatorProofs` |
| `OperatorProofs` | theorems about the operators' commands in `MCComponents` | `Deployment` and the six scripts |
| other `MC*` | symmetry sets for the runs | `WalletClient` is run directly |

`Orders` composes the market's backend with the escrow: its `Transitions` are the status changes
of `Escrow` (who may call what is checked there), and its jobs may change at any time through other
callers. `WalletClient` composes the page with the intents of `Orders`. `PaidSelfTest` uses of the paid
verification what `VerificationPayments` shows: an authorization is settled once and answered alike.
`MCComponents` puts thirteen modules side by side: they share no state in the code (different processes,
files and accounts), so an interleaving of two of them shows nothing that neither shows alone, and a
behaviour is of one of them while the others keep their initial state.

Correspondence. State is named after the code: `jobs`, `totalEscrowed`; `journal`, `pending`;
`current`; `tasks`, `apps`, `orders`; `order`, `intents`, `delivery`; `keys` and `pending` for the two kinds of
localStorage entries. A guard is a `require`, an early return or a raised error (the step does not
exist); a call that can fail half way has an action for the failure (`CheckFails`, `SettleNotWritten`,
`BroadcastLost`, `DeliveryFails`, `ReconcileRefused`, `Fails`). `Crash` clears what is in memory and
keeps what is on disk. Three handlers of `Orders` write twice in transactions of their own, or write after
several reads; a crash between two writes is an action of each (`CrashInBroadcast`, `CrashInReconcile`,
`CrashInDelivery`). Amounts are small numbers, documents, hashes, requests and signatures are
model values; a transaction is named by the intent it was prepared for or by its position.

## 3. Runs

| Run | Checks | Shows |
|---|---|---|
| `escrow_jobs` | Solvent, CounterExact, CapsHold, PromiseKept, EscrowedIsSettled | two jobs under one aggregate cap: each job's money is kept apart, the contract refines `PaymentPromise`, and no money stays in it |
| `escrow_roles` | TypeOK, TermsFrozen, ChargedAsSigned | one job with an identity that changes hands, a deliverable, budgets around the cap: from funding on its terms stand, and the deadline separates payment from refund |
| `verification_payments` | TypeOK, AskedOnce, AskedIsRecorded, ReportIsPaid, WithinCapacity, SaleKept, EveryCallAnswered | three calls, three authorizations, a crash: one settlement, one report, and a refinement of `SalePromise` |
| `x402_safety` | TypeOK, SaleKept, BroadcastsJournalled, RecoverableIfAnswered | three calls, a lost answer, a crash, an authorization that somebody else uses first: a refinement of `SalePromise` |
| `x402_lost` | PaymentRecoverable (violated) | finding 1 |
| `market_safety` | TypeOK, TablesAgree, OfferStands | three overlapping requests: the tables agree, a withdrawn offer is not sold, a settled task is not touched |
| `market_race` | OthersInvalid (violated) | finding 2 |
| `orders` | TypeOK, LinkedIsOurs, NeverAhead, OutcomeKept, CatchesUp | late reconciles, stale snapshots, a crash at any point or between two writes of a handler |
| `orders_delivery` | SubmitsTheDelivery | two uploads overlap |
| `wallet_client` | TypeOK, OpenIsResumable, ReleasedIfConfirmable | failed requests, closed tabs, a lost hash, a revert, a mismatch: the page is given back whenever the backend can still confirm its transaction |
| `components` | TypeOK, DeploymentSound, ScriptsSound, ScanSound, VerifiedIsTrue, AnalysisSound, ChatSound, MarketPageSound, SignInSound | the thirteen modules of `MCComponents`; each property is the conjunction of what their modules promise |
| `wallet_reverted` | PendingReleased (violated) | finding 3 |

Bounds. Two jobs are enough for one job's money to pay for another's, and an aggregate cap of one
budget makes them compete for it. Two accounts suffice for all role splits that the contract's checks
tell apart: roles are compared only with the caller, and an evaluator who is neither client nor
provider behaves, for money, like an account that gains nothing. Deadlines up to 2 give "before", "at"
and "after". `Capped = FALSE` (TaskEscrow) is covered by the theorems. Verification uses one authorization
more than `Capacity`, so that the bound is reached; two bindings tell a retry from a replay, two reports
tell the recorded one from another. `MaxOutside = 1`: one authorization is used by somebody else (none in
`x402_lost`, whose violation needs none). x402 needs two transactions of one nonce and a third call to see a
retry fail. The market needs two offers and three requests so that a withdrawal, a selection and an
application overlap. Orders: two intents are a create and one later action or two creates, with every status
reachable through other callers of the contract (`OutsideStep`); a third intent in `orders_delivery` gives two
creates and a submission. `Window` is 1 or 2 so that a job leaves the list (100 in the code). In
`WalletClient` four transactions allow an operation, its repetition and another operation in between, and one
of them reverts and one differs from what was prepared (`MaxMismatches`). A run that stops at its bounds says so in its cfg.

`components`, whose bounds are in `Components.cfg`. `Deployment`: three commands, one fault (a transaction dropped
or reorganised) and six transactions, so that a command is cut off, resumed and cut off again; `Reviewed` and
`Other` are token addresses outside the deployer's own. `CanaryProof`, `BuyerFunding`, `PaidSelfTest`, `TokenSwap`: four
commands. `OperatorScripts`: three steps with the delivery after the first, two transactions more than steps,
one outside use of the account. `EndpointUpdate`: two agents, two moves. `EventScan`: two readers, blocks up
to 3 with chunks of 2 and a tail of 1 (the code's tail covers the RPC's lag, as `TailCoversLag` asks), two
forks so that a block returns at the same height with other events; checked once with three reads
(241 000 states). `DeliveryVerification`: two calls for one place, two forks; a call with a payment and a call
with a job and a digest. `AnalysisService`: three clients for one slot. `ChatPage`: two replies, one change of
mode; checked once with two (334 000 states). `MarketPage`: three versions of the data, three visits. `WalletAuth`:
two tabs, two addresses, windows and lifetimes of one or no tick, so that every expiry falls within the
bound; checked once with more time and no bound on changes of the wallet (12.8 million states).
Symmetry is declared over interchangeable model values; in
`verification_payments`, which checks a liveness property, only over sets that neither the fairness nor the
property names.

Fairness. `escrow_jobs`: time passes, and somebody calls `claimRefund`, which needs no role, once it is
enabled (`ClaimRefund` stays enabled: nothing else can be done to an expired escrowed job except
`reject`, which also releases the money). `verification_payments`: each await of a run ends: `waitBounded`
limits the facilitator to 20 s, the RPC and IPFS requests have timeouts, and waiters are resumed by the
promise they wait for. `orders`: an open page polls `/chain` every 30 s and the request has a 25 s
timeout. `wallet_client`, `wallet_reverted`: transactions are mined, requests return or fail a bounded
number of times, and the user who sees "Resume pending" presses it again and again (strong fairness,
since the button is away while an attempt runs). Nothing is assumed of a wallet that is asked to sign, of
reverts, of other users or of crashes.

## 4. Findings

1. `x402_lost`, `protocol/payments.mjs:102`. The code recovers a broadcast whose answer was lost by scanning for
   the nonce's use. A retry that comes before the first transfer is mined finds nothing, overwrites the
   entry and broadcasts again; the second transfer reverts, its hash is the recorded one, and the buyer,
   charged by the first, is refused for good. `RecoverableIfAnswered` shows that, of the buyers charged by the
   seller's own transactions, only a lost answer does this.
2. `market_race`, `backend/marketplace/mvp.py:521`. `apply` reads the task as open, awaits the chain twice and inserts: after
   a selection in between an application stays "active" on a selected task.
3. `wallet_reverted`, `frontend/js/views/xlayer.js:183`. `waitForReceipt` is called without `onMined` and throws on a reverted
   transaction before the pending record is removed: the page refuses every later action. The test of
   `waitForReceipt` expects the callback to release it.

Limits that no text of the repository contradicts, and that the properties exempt by name:

- x402: `transferWithAuthorization` (`contracts/src/DemoUSD.sol:18`) does not ask who calls it. When somebody else uses the
  authorization first, the seller's transaction reverts, the entry names it, and `payments.mjs:90-92` refuses every
  retry before the event scan: the buyer has paid and is not served, with no answer lost. `RecoverableIfAnswered`
  therefore speaks of buyers whom the seller's own transactions have charged.
- Wallet page: `resumePending` (`xlayer.js:196`) keeps the idempotency key, so the next run of the operation is given the
  finished intent and is bound to a hash that the backend refuses; it takes one failed request, with no revert.
  A created job that differs from the frozen order is answered with "mismatch" (`mvp.py:738-760`): the page throws, keeps
  its pending transaction, and later broadcasts are refused (`mvp.py:711-712`). `CanBeConfirmed` exempts both, and reverts.
- Two tabs share localStorage but check it before the wallet prompt and write it after (`OpenIsResumable` is false of
  two tabs).
- Marketplace page: between `loadData` (`xlayer.js:143`) and painting (146-147) a refresh awaits the wallet's balance, with no
  timeout (144). Until the wallet answers, the page holds new data and shows the old, and other refreshes and the
  action in progress wait behind it. `PaintedIsLoaded` allows exactly this interval.

Seen while modelling, and not contradicted by a text that a run could quote:

- `fund-okx-ai-selftest-buyer.mjs` calls itself one-time (line 3), but a command cut off after its transfer has
  left no record of it and, once the agent has spent, the next command funds again (lines 110-120, 159-167).
  `swap-mainnet-canary-usdt0-to-usdc.mjs` refuses a duplicate only once its evidence exists (line 122). The models
  count the cuts: nothing is repeated without one.
- `update-agent-endpoints.mjs`: a journalled transaction whose nonce was used elsewhere can never be mined, and
  neither this update nor another can then be finished without editing the journal (lines 25-29, 59-65).
- `xlayer.js`: a forced refresh restores the draft captured when it began; a failed refresh after an action makes
  `perform` report an error although the work was done (line 158); a refresh in the background may change
  `account` in the middle of `connect` (lines 77-88, 109-110), which `ConnectedAs` excludes by name (`overtaken`).

## 5. Proofs

TLAPS proves, for every value of the constants (under the named assumptions listed below), every
safety property that a passing run checks. An invariant is proved from an
inductive one that conjoins it with what the code relies on without saying it; the proof has one lemma per
action, and the theorem adds the initial states and the implication.

- `EscrowProofs`: `TypeCorrect`, `SolventAlways`, `CounterExactAlways`, `CapsHoldAlways`. The inductive invariant `FundsInv`
  conjoins the type invariant, `Solvent`, `CounterExact`, `CapsHold` and `Roles`: the slots beyond `jobCount` were never
  written, and clients and the providers who submitted are accounts. Without it a new job might find its
  slot escrowed, and a settlement might pay the contract itself. The total is
  a recursive function over the jobs; the first part of the module proves that changing one summand changes the
  total by the difference and that a summand is at most the total, by induction on the number of jobs
  (written as a least counterexample, so that no lemma takes an operator). From the same invariant follow
  `TermsFrozenAlways` (terms stand from funding on; delivery and payment come before the deadline, a refund from
  it on) and `ChargedAsSignedAlways` (action properties) and `PromiseKeptAlways`: the contract implements
  `PaymentPromise`, each external function a step of the promise or a stutter.
- `VerificationPaymentsProofs`: `PaymentTypes`, `AskedOnceAlways`, `AskedIsRecordedAlways`, `ReportIsPaidAlways`, `SaleKeptAlways`. None of the
  invariants is inductive: that the facilitator is asked once depends on there being one run per
  authorization, hence on `pending`, and on a run starting only while nothing is on disk. `PaymentInv` says
  what each call knows in each phase (`CallKnows`), what an answered report implies (`ReportPaid`) and what the
  journal says of the facilitator (`JournalKnows`). `WithinCapacityAlways` adds that the entries of `pending` are
  those of the calls that run, so that counting the one bounds the other. `SaleKeptAlways` is the refinement of
  `SalePromise`: the first write of a record reserves its report, the facilitator's grant charges, the second write
  sells, and an answer with a report serves, every other step being a stutter. It needs one fact more (`SaleInv`):
  while nothing is on disk the facilitator knows nothing of the authorization, or a charge might find no
  report reserved.
- `X402PaymentsProofs`: `X402Types`, `ServedIsPaidAlways`, `BroadcastsJournalledAlways`, `RecoverableAlways`, `SaleKeptAlways`. `X402Inv` adds
  that one call at a time is in progress (`OneAtATime`, the serial queue), what that call knows of its entry in each
  phase (`CallKnows`: without "no transaction is recorded while it settles" a second broadcast would not be
  counted) and what an entry knows of the chain (`EntryKnows`): an authorization has at most as many broadcasts as
  answers were lost, and one more once the entry names one. Recoverability of a buyer charged by the seller
  follows by counting: if nothing was lost there is one broadcast, so the one that charged is the one the entry
  names, whatever others send. The other theorems hold for authorizations that others use as well. For the
  refinement of `SalePromise`, `SaleInv` adds that a call about to write an entry brings the request the entry names
  already, if any, and that every transfer was broadcast for a named entry: so the entry that a retry writes over
  still names the same request, and a mined transfer, however late, charges for it. The promise says what a
  charged buyer can be served, not that he is: finding 1 keeps it. `ServedIsPaid`, which also says that a served
  entry names the transfer that charged, is only proved.
- `MarketProofs`: `MarketTypes`, `TablesAgreeAlways`, `OfferStandsAlways` (an action property). `MarketInv` adds the unique
  index on the signed terms (`SignedOnce`), that orders name rows (`OrdersOfRows`) and what a handler still knows after
  its await (`RequestKnows`): the row it read keeps its terms, though not its status, which is why the
  transaction of `select` asks again.
- `OrdersProofs`: `OrdersTypes`, `LinkedIsOursAlways`, `NeverAheadAlways`, `SubmitsTheDeliveryAlways`, `OutcomeKeptAlways` (an
  action property). `OrdersInv` says what a mined transaction did to its job (`MinedKnows`), that an intent's
  calldata is bound once and its outcome is a function of it (`IntentKnows`), that every status in a snapshot is one
  its job has had (`SnapshotKnows`), and that the manifest on disk is written once (`DeliveryKnows`). Each part is
  kept by a crash between two writes too, which leaves the first of them. `NeverAhead` needs
  all of them: an order learns its status from a receipt or from a snapshot, either as old as you like.

- `WalletClientProofs`: `WalletTypes` for any number of tabs, and `OpenIsResumableInOneTab`: with one such page (`OneTab`)
  an open transaction whose hash was given is the one stored. `ResumeInv` says that the page asks the wallet only
  while nothing is stored and follows what is stored from then on (`PageKnows`). The hypothesis is needed: two
  tabs look for a stored transaction before either prompt, and the second overwrites what the first stored
  (section 4). The run has one tab too.
- `ServiceProofs`. `AnalysisSoundAlways`: the slot is taken exactly while one process runs. `MarketPageSoundAlways`:
  `PageInv` orders what was loaded, painted and acted on, gives a forced refresh to its action, and says what a
  refresh that waits for the wallet's balance has assigned and has not painted yet. `SignInSoundAlways`:
  `SignInInv` says what each tab knows in each phase of signing in and that a challenge, once consumed, is of one
  session. `ChatSoundAlways`: `ChatInv` has one reply at a time that streams, and all of one session.
  `VerifiedIsTrueAlways`: `VerifyInv` says of each call what it has read and of which fork, and hence what its verdict
  rests on after the blocks below it were replaced. `ScanSoundAlways`: `ScanInv` says that the cached pages are the
  chain's up to the anchor as long as the anchor's block stands, and what a reader holds after each read.
- `OperatorProofs`. `DeploymentSoundAlways`: `DeployInv` has the live transactions at addresses in the order of their nonces,
  what the command in progress and the manifest know of them, and that what is in no record was lost by a
  command that stopped. `ScriptsSoundAlways` conjoins an invariant for each script:
  `ProofInv` (canary proof): all transactions of a job's steps are of the one job of the files, its state is by
  them and shows what was paid (`JobInv`); a file names what succeeded, and one creation (`FilesKnow`); what a command
  has behind it at each stage (`StageKnows`); each transaction is recorded, waited for or lost (`ProofRemembers`).
  `ScriptInv` (acceptance run): what is in the pool is in the journal, and the file is the journal at every point a
  command may stop. `EndpointInv`: entries name the transactions of their origin, and every transaction that can
  still be mined is named. `FundingInv`, `SwapInv`: fundings made or under way are at most the cuts, and one more once one
  is committed. `TestInv`: the journalled authorization is the only one that was posted.

- `ComponentTypesAlways` (last of `ServiceProofs`): every component of `MCComponents` keeps its type. A type here says
  more than the kind of a value: that an index kept in one place names something that exists in another (the
  transaction of a journal's entry, the job of a file, the block of a cached anchor, the session of a cookie, the
  version a page has painted), and that what is counted stays below what bounds it. So it needs the invariants above,
  and what each adds to its bounds: cuts are fewer than commands while a command runs (`SwapBounded`), balances and
  fundings together come of the swaps (`Balanced`, `OnceACommand`), addresses are below the nonces of the account
  (`AddressesBounded`), pages of a scan are in order and within its head (`PagesOrdered`, `ReaderTyped`), a verification
  in progress holds one of the slots (`VerifyTyped`), and a session's address is one that asked for a challenge
  (`ChallengeRecorded`). Each component has three lemmas: its first state (`..Init`), a step (`..Step`), and that both
  invariants give its `TypeOK`.

Assumptions: each module's named `ASSUME` (bounds are naturals, at least 1 where a block, an application or a
listed job must exist; the markers for "nothing" differ from real values), and for the components
`ComponentsAssumption`: the tokens of a deployment are none of its own contracts, the tail of the scan covers the lag of
the RPC's nodes (as the code's constants are chosen to), the limits and lifetimes of the backend are naturals,
the acceptance run funds its job at one of its steps, and bounds are naturals, at least 1 where a chain has a first
block and a first fork. `Components.cfg` meets them, and
TLC evaluates them on every run. The bounds are parameters of the theorems, so what is proved holds whatever
they are.

A step of `MCComponents` is a step of one component or leaves its variables alone, so each is proved about by
itself, and its theorem holds of a behaviour in which all of them run as well.

Only model-checked: liveness (`EscrowedIsSettled`, `EveryCallAnswered`, `CatchesUp`, `ReleasedIfConfirmable`: TLAPS has
no rule for fairness here). `OpenIsResumable` is proved for one tab and is false of two
(section 4).

## 6. Not modelled

Rendering, formatting, HTTP plumbing, validation of texts, key files and packaging have no state worth
a model. The vendored identity registry is used as its owner table. Reentrancy is excluded by
`nonReentrant` and a token fixed at deployment. Amounts, allowances and gas are left out where no property
depends on them. The personal backend, the dialogue engine, the data pod and the simulation are outside the
market and the chain; `PROJECT.json` gives the reason for each component.

Simplifications of the newer modules: the gas of two roles is funded in one stage of `Deployment`; an agent's
registration is kept in the manifest without its transaction; the buyer's transactions of `OperatorScripts` do
not revert; a script is run by one command at a time; the gas top-up of `TokenSwap` is one step, since it comes
from another account; in `WalletClient` the wallet neither replaces a transaction nor drops it; contents of files,
reports and replies are the few cases their readers tell apart.

## 7. Plan

Next modules: delivery storage (put-if-absent files, pins, restore), the marketplace's event read-model, the
caches of the website's authentication, the data pod's grants. Two tabs of `WalletClient` need a promise the
code makes of them.
