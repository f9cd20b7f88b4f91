# A verification project for CasperLaunch

CasperLaunch puts real-world assets on the Casper network: an asset becomes a token, its
holders share the rental income by weight, weights are traded on a secondary market, and the
holders vote. This directory holds TLA+ specifications of the program, TLC configurations
that check them on small instances, and theorems that TLAPS proves for instances of any
size.

    tlc -workers 2 -config MCRwaNft.cfg MCRwaNft      # model-check
    tlapm RwaNftProofs.tla                            # prove

## 1. The system

### Inventory

| part | state it keeps | operations | how it interacts |
|---|---|---|---|
| RWA-NFT contract (`contracts/rwa-nft`) | owners, balances, metadata, approvals, KYC list, total supply | mint, transfer, approve, set_metadata, set_kyc, burn, queries | called by wallets, by the mint route and by the compliance agent (set_kyc) |
| Yield distributor contract (`contracts/yield-distributor`) | pool, holders' weights and their sum, pending claims, a purse | deposit, distribute, claim, register_holder, update_share, remove_holder, queries | called by the yield agent, the settlement and offering routes, and by the escrow contract in the middle of its buy |
| Trade escrow contract (`contracts/trade-escrow`) | listings, a purse, the hash of the yield contract | list, buy, cancel, refund, get_listing | calls `register_holder` of the yield contract |
| Governance contract (`contracts/governance`) | proposals, deadlines, tallies, recorded votes, voting weights, executed flags | create_proposal, vote, execute, set_voting_weight, queries | weights are set by the admin as tokens move |
| Secondary market (`api/orders`, `api/casper/settle-trade`, `trade/page.tsx`, `orders/page.tsx`) | orders and cap table in the database (Neon Postgres), holders on chain | list, buy, settle, cancel | awaits a payment and two chain transactions between reading and writing the database; no transaction spans two statements |
| Escrow routes (`escrow-list`, `escrow-list-agent`, `escrow-buy`) | the same orders | list, buy | submit a call of the escrow contract and write the order's row; `escrow-buy` sells an order next to `settle-trade` |
| Share offering (`api/casper/offer-shares`, the form of `assets/[id]/page.tsx`) | holders on chain and in the database, the five steps the form shows | offer | whitelists, waits for the chain, registers issuer and investor, reports each step on a stream that the form follows |
| Token store and sync (`lib/db.ts`, `api/tokens`, `api/casper/sync`, `lib/migrate.ts`) | tokens in the database, a flag per server instance | upsert, patch, sync, seed | all writers go through one merge; the flag, which is stale after 60 s, keeps the syncs of one instance apart |
| Deploy status (`lib/casper-rpc.ts`, `lib/casper-cli.ts`, `submit-*`) | none | submit, poll, wait | used by every route that writes to the chain |
| Mint pipeline (`chat/page.tsx`, `api/casper/mint`, `api/kyc/whitelist`) | the page, a draft in the browser, requests in flight | describe, pay, review, anchor, attest, mint | token ids are the clock in seconds; ends in the token store |
| x402 gate, AI extraction, IPFS upload (`lib/x402.ts`, `api/ai/tokenize`, `api/ipfs/upload`) | none | pay, check a payment, extract, upload | steps of the mint pipeline |
| Yield agent (`api/agent/yield-monitor`, `instrumentation.ts`, `agent/page.tsx`) | a timer and a store per copy of the module | start, stop, tick | reads the pool, submits distribute |
| Compliance agent (`api/agent/compliance-monitor`, `compliance/page.tsx`) | a timer, flags (50 at most), counters | start, stop, tick | reads the token store, flags wallets, submits set_kyc(false) |
| Off-chain votes (`api/governance`, `governance/page.tsx`) | proposals with tallies, and votes | propose, vote, submit | the second vote ledger next to the contract |
| Transaction builders (`build-tx`, `make-*`, `delegate`, `yield-claim`, `register-holder`) | none | build, sign, submit | between the wallet, the agent's key and a node |
| Wallet (`lib/wallet-context.tsx`, `lib/casper-wallet.ts`) | the key the page believes in | connect, sign, events of the extension | every page |
| Settings (`api/settings`, `settings/page.tsx`) | a table of keys and values | load, save, revoke | nothing else reads it |
| Indexer, price and network proxies, the other pages | none that matters here | | stateless, or presentation |

### What is hard

* **Serial but long.** A contract call is one atomic transaction, so within a contract the
  difficulty is not interleaving but sequences: mint the same id twice, burn and mint again,
  distribute with no holders, change a weight between two votes. Several ledgers are kept by
  hand next to each other (owners and balances and supply; pool, pending and purse; weights
  and their sum; votes and tallies), and each must follow the others through every sequence.
* **Control given away.** `buy` of the escrow calls another contract in the middle; that
  contract may revert or call back.
* **Numbers.** Integer division of the pool, saturating subtraction, wrapping tallies,
  milliseconds against seconds, a sentinel that is also a value.
* **Handlers that go on with what they were rendered with.** An event handler of a page
  keeps the values of its rendering across an await, a second handler starts meanwhile, and
  the server goes on with a request whose page was loaded again.
* **Nothing keeps ticks apart.** The timers of the agents start a tick whether or not the
  last one has ended; the transactions they submit are executed some time later, or fail.
* **Awaits.** The routes outside the contracts read the database, wait for the chain for
  minutes, and write back what they computed from the old read. Any call may fail, or
  succeed and lose its answer, and nothing is rolled back.

`PROJECT.json` lists each of these hazards at the line where it bites, with the properties
that would notice it.

### What makes each part correct

* RWA-NFT: balances and supply follow the owner map; a token only comes to a whitelisted
  account; an approval serves once and is the owner's; the supply stays within its cap.
* Yield distributor: the purse covers pool and pending; the divisor is the sum of the weights;
  what is pending stays its owner's and is paid in the end; a distribution strands less than
  one mote per holder.
* Trade escrow: a trade is an atomic swap whatever the called contract does; nothing is
  pending and nothing in escrow between transactions; the seller of a filled listing was paid.
* Governance: tallies are the sums of the recorded votes; votes are final; only existing
  proposals are executed.
* Secondary market: no weight moves without a payment on record; a filled order is backed by
  one whole settlement and names its buyer; the cap table adds up, covers what is on offer
  and is what the trades made it.
* Escrow routes: a buyer who was told that an order is his is on record for it.
* Token store: a status belongs to the hash next to it; the hash is the last one recorded;
  no writer empties what it does not know.
* Mint pipeline: an asset is minted once; a mint is not refused by the contract unless its
  recipient was revoked meanwhile; the link on the chain and the hash in the stored row are
  of one document; a draft is enough to go on with.
* Offer form: it claims nothing that was not done.
* Votes: the tallies count every vote once, and as one.
* Agents: deposits reach the holders, expired attestations are revoked, what is recorded of
  them is true, the panels come to show what is.
* Transactions: the key of the page is the wallet's, and every wait for the chain ends.
* Settings: saving changes what was set, and nothing else.

## 2. The modules

| module | stands for |
|---|---|
| `RwaNft` | the RWA-NFT contract |
| `RwaNftFresh` | the same contract as the mint dialogue uses it: no id is minted twice |
| `TokenLedger` | abstract: one owner per token, counts determined by the owners |
| `RwaNftProofs` | theorems about the three |
| `YieldDistributor` | the yield distributor contract and its purse |
| `TradeEscrow` | the escrow contract, its purse and the transaction around it |
| `AtomicSwap` | abstract: an offer is open, sold or withdrawn; a sale is one step |
| `Governance` | the governance contract |
| `Market`, `MarketProofs` | listing, buying, settling and cancelling orders, offers and sync, on the orders and the cap table of one token; theorems about it |
| `Wizard` | the mint pipeline: page, draft, handlers, and the requests they wait for |
| `OfferPage` | the offer form and the stream of the route it follows |
| `Settings` | the settings page and its table |
| `DeployStatus` | what the nodes may answer about a transaction (used by the next two) |
| `TokenStore` | the tokens table and everything that writes it |
| `Transactions` | from a click to a result of the chain: keys, signatures, submission, waiting |
| `Votes` | proposals and votes in the database, statement by statement |
| `Orders` | the row of an order under both routes that sell it |
| `YieldAgent` | the yield agent together with `YieldDistributor`, the contract it works for |
| `ComplianceAgent` | the compliance agent, the KYC list and the list of flags |
| `StatusPanel` | the panel that the pages have for an agent |
| `Sums` | laws of sums of functions over finite sets, used by the proofs |
| `TradeEscrowProofs` | theorems about `TradeEscrow`, and that it implements `AtomicSwap` |
| `GovernanceProofs` | theorems about `Governance` |
| `Pages`, `PagesProofs` | `Wizard` next to `OfferPage`, `Settings` and `Transactions`; theorems about the four |
| `Database`, `DatabaseProofs` | `TokenStore` next to `Votes` and `Orders`; theorems about the three |
| `Agents`, `AgentsProofs` | `YieldAgent`, and so `YieldDistributor`, next to `ComplianceAgent` and `StatusPanel`; theorems about them (none about the panel) |
| `MC...` | the small instances that the `.cfg` files name |

`YieldAgent` extends `YieldDistributor` and steps with its actions: deposits, claims and
changes of weight go on while ticks are in flight. `Pages` (wizard,
offer form, settings, wallet), `Database` (tokens, votes, orders) and `Agents` (the two
agents, a panel) put parts next to each other that share no state in the code. Their
theorems are about the specification of each part; for TLC, `MCPages`, `MCDatabase` and
`MCAgents` join the parts so that a behaviour is one of a single part (`which`) and the
others stay where they start. Composing them would only multiply states.

### How state and actions correspond to the code

*One action per entry point.* A Casper transaction that reverts leaves no trace, so an
action is a call that succeeds; its guard is the conjunction of the checks that would have
reverted, its primed variables are the maps that the entry point writes. Query entry points
change nothing and appear as operators (`Owned`, `Live`, `GetVote`) where a property is
about them.

*Maps.* The contracts key their maps by the text form of an id or account hash, which is
injective, so the models use ids and accounts. An absent entry is represented by the value
every reader takes for it (0 for balances, pending, tallies and weights; `NoAccount` for
owners and approvals), except in `holders` of the distributor, where a registered weight of
0 and no entry differ.

*History variables.* `approvedBy` (RwaNft: who made an approval), `minted` (RwaNftFresh),
`deposited` and `paid` (YieldDistributor), `cast` (Governance: the weight a vote was cast
with) and the field `paid` of a listing (TradeEscrow) record what a property needs to refer
to; no guard of a contract reads one, except that `minted` expresses the rule that ids are
fresh and `deposited` carries the bound.

*The escrow's buy* is split where it calls the yield contract: `BuyLock` and `BuyRelease`.
The local variables of the code that survive the call are in a frame on `stack`; `saved` is
the state to which `Revert` returns, because a revert in any nested call undoes the whole
transaction. If `Reentrant`, the called contract may call any entry point of the escrow
before it returns, with `get_caller` still the account that started the transaction.

*A request of the server* (`Market`) is a record `req[r]`: its `pc` names what it does next,
the other fields are the local variables it keeps across an await. One action is what
happens up to the next await. `holders` is the cap table as a function of its entries: of
the wallets, and of `Twin` while the issuer has two. `Goes` lets each of them also be the
last, with its effect but without the answer; `Fail` lets the request die before it. The cap
table is one value that `upsertToken` replaces (a single statement in the code);
`updateOrder` is one statement per column, so `RecordBuyer` and `RecordPayment` are two
actions. A page is what it last loaded (`view`) and the listing it is creating (`selling`).
Of a registration on the chain only that a node accepted it is modelled (`sent`). History
variables: `booked` (the request has written the cap table) and `calm`, explained with the
run.

*A handler of a page* (`Wizard`) is a record `op[o]`: where it is (`pc`), what it was
rendered with (`snap`), whose wallet was connected (`who`), and whether anybody still waits
for its answer (`heard`). `saveDraft` writes `snap` and the overrides of the call, not the
page as it is. `MayDescribe`, `MayAnchor`, `MayAttest`, `MayMint` and `MayReset` are the
controls that the page offers. Loading the page again ends its handlers; a mint goes on at
the server. Outside the page, and so in `lasting`, are the payments and extractions, the
whitelist of the contract with the submissions to it that nobody awaits (`listed`, `sent`),
the mint transactions with their fates (`minted`) and the rows that the page stores with the
hash of the document (`kept`). The set_kyc that a mint waits for is executed (`ExecuteKyc`)
while others are, and while the compliance agent revokes (`RevokeKyc`); `ExecuteMint` is the
contract's check of the recipient.

*A tick, a scan, a task* (`YieldAgent`, `ComplianceAgent`, `TokenStore`) is a record of what
was read and where it stands, as a request is in `Market`. Any of them may fail or die at an
await.

*The chain* is, outside the contracts' own modules, a fate for each transaction ("pending",
"success", "failure") that a step of its own decides at any time; `getDeployStatus` is the
set of answers a question may get about it.

*Disturbances.* Some properties are false in general, because the code does not try to keep
them under every interleaving. Such a module keeps a history variable (`seen`, `disturbed`,
or the fields `informed` and `overtaken` of a save in `Settings`) of the circumstances under
which the code gives them up, each marked at the action where it happens, and the property
is that nothing else breaks it. No guard reads it.

*External.* What the extension, the chain, a browser that leaves, an operator who PATCHes a
row or a server that dies may do is an action marked external in `PROJECT.json`.

*What the chain does with the cells that `call()` creates.* Two contracts initialise cells
in a form that later reads do not expect: the distributor stores the bare purse under
`yield_purse` and reads a purse out of its cell, and governance creates every cell with a
unit value and reads maps and numbers. How the chain decodes these is outside the
repository, so it is a constant: `PurseReadable`, `UnitReadable`. The main runs take TRUE,
so that the rest of the contract is checked at all. With FALSE the guards of
create_proposal, vote, execute and set_voting_weight, or of deposit and claim, never hold:
nothing can be proposed, nothing paid in.

*Numbers.* `U64` (the word that the tallies wrap in) and `PriceModulus` (the 32 low bytes
that `price_bytes` keeps) are constants, scaled down for TLC. No price in the runs reaches
`PriceModulus`: 2^256 motes do not exist.

*Operators with a slip.* Above several checks and updates stands a variant of it with a
plausible mistake (`CreditOnce` above `Credit`, `LockedWhenAnswered` above `Locked`). No
action uses them; `PROJECT.json` names, for every property, the one that it notices when it
takes the place of the right one.

## 3. The runs

| run | checks | states | what it shows |
|---|---|---|---|
| `MCRwaNft` | BalanceCoversOwned, SupplyIsSumOfBalances | 23 434 | what holds whatever ids are minted, also again |
| `MCRwaNftFresh` | ApprovalFromOwner, ImplementsLedger | 9 136 | with fresh ids the contract is the ledger it promises |
| `MCYieldDistributor` | Solvency, SharesAddUp, PendingIsOwed, DustIsBounded, PendingIsPaid | 82 368 | the motes in every order of calls, and that what is owed is paid in the end |
| `MCGovernance` | TalliesMatchVotes, ExecutedExist, VotesAreFinal | 429 678 | votes and executions with changing weights and wrapping tallies |
| `MCTradeEscrow` | SettledWhenIdle, HeldMidTrade, SoldIsPaid | 53 300 | the escrow against a contract that calls back or reverts |
| `EscrowSwap` | ImplementsSwap | 881 | without call-backs a trade is one atomic step |
| `MCMarket` | PaidBeforeRegistered, FilledIsBacked, BuyerOfRecord, Conserved, TradesAreKept | 933 228 | purchases, listings, offers and a sync that interleave at every await and die at every call |
| `MCPages` | MintsAreLive, MintedOnce, AnchoredTogether, NotStuckAtKyc, DraftIsUsable; ShownIsDone; OnlyWhatWasSet; KeyIsActive | 1 262 058 | the wizard with overlapping handlers and reloads, and the chain under it; the offer form against a broken stream; pages that save settings key by key; the key of the page and the wallet extension |
| `MCDatabase` | ConfirmedIsExecuted, HashIsLast, TokensAreKept; TalliesCountVotes; SaleIsRecorded | 787 322 | every writer of the tables of tokens, votes and orders, statement by statement |
| `MCTransactions` | WaitsEnd | 279 840 | from a click to a result: signatures, nodes, and the waits for the chain |
| `MCAgents` | RevertsAreLateReadings, DepositsReachHolders; RevocationsAreRecorded, ExpiredAreRevoked; PanelSettles | 177 628 | overlapping ticks, faults, stops and restarts, and what is reached in the end |

In `MCMarket`, `PaidBeforeRegistered` and `FilledIsBacked` hold in every interleaving. The
other three are false in general, and the code promises nothing better: `calm` is a history
variable that says exactly what they need. It becomes false when

1. a request (purchase, offer, sync) starts while another one runs,
2. a listing starts while a request runs, or from a trade page that is out of date,
3. the owner lists on the asset page more than it holds and has not listed,
4. an offer is made when others than the issuer and the investor hold shares, or when one of
   the two has shares on offer,
5. the issuer offers to its own key,
6. a settlement dies between writing the cap table and marking the order filled.

Each of the six is needed: without it TLC finds a cap table that does not add up to the
whole, a seller who sells what it does not hold, or a purchase that is lost or counted
twice. Failures anywhere else, their repetition by another buyer, orders left half way and
cancellations at any moment do no harm, which is what the properties say. `escrow-buy`, the
other route that writes "filled", is in `Orders`; a PATCH of "filled", which no page sends,
is in neither.

The disturbances of the other modules, under which the named property is given up:

| property | given up when |
|---|---|
| `MintsAreLive` | the compliance agent revoked the recipient after the set_kyc that the mint waited for and before the mint, both as the chain executes them ("revoked") |
| `MintedOnce` | the page stops waiting for a mint that is under way: its reset button, the end of another handler, a lost connection, a reload, an upload that ends after the document step ("freed") |
| `AnchoredTogether` | a second file was chosen ("rechosen") |
| `NotStuckAtKyc` | the request after the signature failed, or a reload cut it off ("kycLost") |
| `OnlyWhatWasSet` | the page was not told yet what is stored (`informed`), or another save wrote after it was told (`overtaken`) |
| `ConfirmedIsExecuted` | the asset page writes the status of one hash under another one ("lateStatus") |
| `HashIsLast` | a writer puts back a row that it read before another hash was recorded ("writtenBack") |
| `TalliesCountVotes` | a server dies between the two statements of a vote: that vote is uncounted, all others count |
| `SaleIsRecorded` | two purchases of the order overlap, it is cancelled from an old page, or it is sold again by `escrow-buy` |
| `KeyIsActive` | an answer of the extension is out of date when it arrives ("lateAnswer") |
| `RevocationsAreRecorded` | the list of flags was cut ("cut") |

TLC finds a violation of each of them without its exception. `DraftIsUsable`, `ShownIsDone`,
`TokensAreKept` and the liveness properties need none.

Several of these exceptions are the very race that makes the code hard at that place: two
purchases of one order, a sync that writes back what it read before, the late answer of the
extension, the late status of the asset page, the cut list of flags, the second file, the
lost attestation. There the code does go wrong, and the property says that this is the only
way it does; the notes of these hazards in `PROJECT.json` say what each property still
checks. `DepositsReachHolders` says nothing of a pool without a holder: a distribution
clears such a pool and owes it to nobody.

### Where the code and what is said of it disagree

The run `SettledOnce` checks one property that the code itself states, and TLC shows a
behaviour that violates it: a second settlement is told "Order already settled"
(settle-trade/route.ts:50), but not while the first one is between its look at the status
and its last write.

Further disagreements, plain to see in the code, have no run of their own. Contracts:

* A flagged wallet "cannot transfer" (WHITEPAPER.md:334): only the recipient's KYC is
  checked.
* An approval that was given for a token survives its burn; when the id is minted again it
  is in force against the new owner. With fresh ids it cannot be (`ApprovalFromOwner`).
* The voting deadline is sent in seconds and compared with milliseconds, so every vote on
  the chain reverts; the application records the vote all the same, since the node accepted
  it.
* `balance_of` is the "token count" (rwa-nft main.rs:362) only while ids are not minted
  twice; `BalanceCoversOwned` is what remains in general, and `BalanceIsTokenCount` what
  holds for fresh ids.
* A weight of 6500 is not "65% of yield" (yield-distributor main.rs:164): shares are
  relative to the registered sum, which nothing keeps at 10000. The platform fee of
  WHITEPAPER.md:439 is not withheld.
* distribute "splits" the pool "among registered holders" (yield-distributor main.rs:8, 98),
  but with none it clears the pool and owes it to nobody, and with weights that add up to 0
  it reverts.
* `call()` of governance creates every cell with a unit value; whether "Create a new
  proposal" (main.rs:80) can work depends on how the chain decodes it (`UnitReadable`
  above).
* A purchase is for what the seller holds, says the trade page ("You only hold ..."): the
  page compares with what it loaded, and the asset page does not compare at all. Such an
  order is settled all the same, with the seller's weight cut off at 0.
* "The chain is the write-ahead log" of the cap table (sync/route.ts:15): a second purchase
  sets the buyer's weight on the chain to the size of the order and adds it in the database.
  sync never reads the holders from the chain.
* `execute` "Checks quorum + majority" (governance main.rs:187), but only returns whether
  there was a majority. The tallies are read as parts of 10000 (202), but a weight that is
  moved to the next voter while a vote is open counts twice. 255 is "no vote" (252) and a
  choice a voter can record.
* A sale is a swap of "CSPR <-> yield rights" (trade-escrow main.rs:3), but the seller keeps
  its weight. When `register_holder` reverts, the "CSPR stays in escrow" (165): it goes back
  to the buyer.

Routes and agents:

* "Token holdings determine voting power" (governance/page.tsx:113), and the whitepaper
  promises a weight fixed when the proposal is made (WHITEPAPER.md:458, 554). In the
  application every vote counts as one (`castVote`, db.ts:289-293), whatever its voter
  holds: that is what `TalliesCountVotes` says.
* Neither the form (assets/[id]/page.tsx:197-221) nor the route (offer-shares/route.ts:71-72)
  refuses an offer of the issuer to its own key. The route then writes two entries of one
  wallet (81-85, 150-154), and the next settlement in which the wallet takes part changes
  both (settle-trade/route.ts:77-81): the cap table does not add up any more. It is the fifth
  disturbance of `MCMarket`.
* A failed deploy is never reported as failed: the error is thrown inside the try block
  whose catch swallows it (casper-rpc.ts:142). It reads as pending until the wait gives up,
  and the re-mint banner of the asset page (assets/[id]/page.tsx:639), which asks for
  "failed", is only shown for a row that someone has PATCHed by hand. `TokenStore` has that
  as an external action.
* A PATCH without `mintedAt` sets it to the present time, and one without a status to
  "pending"; `POST` of holders does the latter. A sync replaces the owner's key by an
  account hash.
* `escrow-buy` passes no `source_purse`, which the contract asks for, so its call always
  reverts; it marks the order filled without waiting for it, and never asks whether the
  order is open. `escrow-list-agent` lists with the agent as the seller. Cancelling an order
  does not touch the listing on the chain.
* The governance page sends the position in its newest-first list as the proposal's id on
  the chain. The server signs, so all those votes are the agent's. It does not look at the
  answer of `POST /api/governance`, whose ids are one of 900 and may be taken.
* `yield-claim` and `delegate` are signed by the agent: the claim pays the agent and the
  delegator is the agent. Keys of the other algorithm (Secp256k1) are always refused, since
  the server prefixes every key with "01".
* Nothing records that a wallet was revoked, so every scan revokes it again; nothing in the
  repository writes the time of an attestation (`kyc_attested_at`), which therefore is an
  external PATCH; a wallet with one valid and one expired token is revoked. The compliance
  page asks for `/api/compliance/audit`, which does not exist.
* The yield agent's answer for "nothing to distribute" (yield-monitor/route.ts:123) never
  happens.

Pages:

* "I'll compute a SHA-256 fingerprint and anchor it permanently in the token metadata"
  (chat/page.tsx:131), "both the IPFS link and the hash will be permanently anchored" (232).
  The page sends the first 16 digits of the hash (339), and the mint route puts name, type,
  value and link on the chain and no hash (mint/route.ts:26-31). The hash is only in the row
  that the page stores, which is what `AnchoredTogether` compares the link with.
* "Your RWA NFT is now live on-chain", "You've been registered as 100% yield holder"
  (chat/page.tsx:391): when that is said, a node has accepted the mint, and the registration
  was sent without a look at its answer. `MintsAreLive` says when the mint is refused.
* "Registering holder shares" is marked done after the issuer's registration only. When all
  wallets are verified, or no yield contract is configured, a step stays spinning after the
  success. "Done" is sent also for a token without a row. A page that leaves makes the next
  event throw, which ends the route between the chain and the database; a broken stream
  shows an error for an offer that then completes.
* Settings are saved key by key and always as a whole: a save from a page that has not been
  told yet puts the defaults back, and one page undoes another. When the request throws, the
  button stays disabled. No code reads a setting.

### Bounds

* RWA-NFT: an admin and two investors are enough for caller, owner, recipient and spender to
  differ; two ids let one be re-minted while the other exists; the cap of 3 is above the
  number of ids, so that re-mints can reach it. The fresh-id run has three ids under a cap
  of 2, so that ids run out and the cap binds. The theorems lift both to any number.
* Distributor: three accounts, weights 0, 3500, 6500 and one above the limit, deposits of 1
  and 4 up to 5 motes in all (`MaxDeposited`): 4 motes among weights 3500 and 6500 do not
  divide evenly, and a distribution can be followed by a deposit and another.
* Governance: two voters, two proposals, weights 0, 4000 and 6000 with a quorum of 5000 and
  a word of 11000: one voter reaches the quorum or not, two together wrap (12000). The
  choices are for, against and 255, which counts as an abstention. The block time takes one
  step past the early deadline (`MaxClock`).
* Escrow: three accounts with 3 motes each, prices of 1 and 2, payments of 1 and 3 (one
  exact, one too much), up to three listings (`MaxListings`) and two nested buys
  (`MaxDepth`): a nested buy of another listing, of the same one, and a refund in the middle
  all occur. The escrow runs do not check deadlock: when all listings are used and closed
  there is nothing left to do.
* Market: issuer and two investors, a token of two parts (`Whole`) of which one is listed or
  offered at a time; the forms are also given 0 and 3, more than there is (`Sizes`). Two
  orders (`Orders`) and two requests (`Requests`): enough for shares to be sold on, for an
  order to be bought again after a failure, for every pair of a purchase, an offer and a
  sync to overlap, and for a purchase to follow an offer of the issuer to itself. Requests
  and orders are not reused, so the market stops in the end and deadlock is not checked. The
  theorems lift all of these bounds.
* Pages: one wallet, two files, two handlers at a time, one payment and two mints: a handler
  overlaps another, a file is chosen twice, a mint is repeated, and a mint is overtaken by
  another set_kyc or a revocation. A behaviour may have a mint that nobody awaits or a
  second file, not both (`Bounded` of `MCPages`; the theorems have no such bound): each is
  the exception of one property, and the other properties are checked with either. Two
  presses of the offer button. Two loads of the settings page and two saves, each setting
  toggled once on a page; two of the eight settings, one that the agent's button revokes and
  one that it does not.
* Database: one id that the application mints and one that is in the old file and on the
  chain; three tasks, so that a refresh, a re-mint and a sync can overlap; two mint
  transactions and two versions of a cap table. One voter, two server instances, two tabs,
  one new proposal. One order, two buyers, two purchases at a time. Tasks end for good, so
  deadlock is not checked.
* Transactions: two keys, one of them new and of the other algorithm; two clicks, the first
  for anything, the second a mint; a wait of two polls at three nodes. With the pages, where
  only the key matters, one click for anything.
* Agents: admin and one holder, 3 motes and a threshold of 2, two ticks and two transactions
  at a time, one fault, one copy of the module. Two tokens of one wallet, two scans, a list
  of two flags, one failed request: the list is cut and a scan closes another's flag. Two
  questions of a panel at a time, one lost answer.

Accounts other than the admin, and token ids, are interchangeable and are declared symmetric
in the safety runs; the runs with liveness properties use no symmetry, except where an
abstract specification without fairness is the property.

### Fairness

* `ClaimSpec`: weak fairness of each account's `claim`. Claiming is the holder's own
  transaction, which nobody else can disable (that is part of what the run shows: if a
  removal or a short purse disabled it, `PendingIsPaid` would fail).
* `YieldAgent`: weak fairness of the start of the server (`Register` is the hook of
  instrumentation.ts), of the timers of running instances, of each step of a tick and of the
  execution of a submitted distribution. Nothing is assumed of holders: the property speaks
  of a pool for which somebody has a share. Failures are not fair and are bounded.
* `ComplianceAgent`: the same for its timer, scans and revocations. `StatusPanel`: of its
  interval and of answers. An open page has its timers, and a server that is up answers;
  stopping, starting and loss are never forced.
* `Transactions`: each poll of a wait, which is a timer of the server. Nothing is assumed of
  the chain or the nodes: a wait ends although they never answer.
* All other specifications are safety only: no transaction is ever forced on a user.

## 4. The proofs

All theorems are about the specifications that TLC checks, for any values of the constants
that meet the named assumptions: any accounts, ids, weights and amounts, any number of
requests, handlers, pages, ticks, tabs and scans, any bounds. Together they state every
invariant and every action property that a run checks; what remains to TLC alone is
liveness.

### Contracts

| theorem | states | argument |
|---|---|---|
| `RwaNftProofs!TypeCorrect` | `[]TypeOK` | TypeOK is inductive, one step per action |
| `RwaNftProofs!BalanceSafe` | `[]BalanceCoversOwned` | inductive with TypeOK; a mint or transfer adds one id to the recipient's set and may remove one from another's (lemmas `TokenCount`, `OwnedAfterUpdate`); because the balance covers the owned tokens, the saturating subtraction never saturates on an owner |
| `RwaNftProofs!SupplySafe` | `[]SupplyWithinCap` | inductive with TypeOK; `LiveAfterUpdate` |
| `RwaNftProofs!LedgersAddUp` | `[]SupplyIsSumOfBalances` | inductive with TypeOK and BalanceCoversOwned: a transfer or burn takes from an owner whose balance is positive, so both sides change alike |
| `RwaNftProofs!KycGate`, `ApprovalsSpent` | the two action properties | from TypeOK, by cases of Next |
| `RwaNftProofs!Fresh...` | types, balances, supply and approvals exact under fresh ids; `FreshImplementsLedger` | the invariant `FreshInv` below |
| `AgentsProofs!TypesHold`, `TotalIsSumOfShares`, `AlwaysSolvent` | `[]TypeOK`, `[]SharesAddUp`, `[]Solvency` | one inductive invariant, `IInv` |
| `AgentsProofs!ClaimsAreCovered` | no account has more pending than the purse holds | from `IInv`: one term of a sum of natural numbers is at most the sum |
| `AgentsProofs!OwedUntilClaimed` | `PendingIsOwed` | from `IInv`, by cases |
| `AgentsProofs!RoundingIsBounded` | `DustIsBounded` | share and remainder of a holder are quotient and remainder of one division; the remainders, each below the divisor, add up to less than (holders times divisor) |
| `TradeEscrowProofs!TypesHold`, `NothingHalfDone`, `LockHolds`, `SalesArePaid` | `[]TypeOK`, `[]SettledWhenIdle`, `[]HeldMidTrade`, `[]SoldIsPaid` | the invariant `Inv` below, over the stack of nested buys |
| `TradeEscrowProofs!TradesAreAtomic` | `ImplementsSwap` | every step maps to an offer, a sale, a withdrawal or a stutter; a sale is the step that ends the transaction. Hypotheses: `~Reentrant`, and prices below `PriceModulus` |
| `GovernanceProofs!TypeCorrect` | tallies stay words | arithmetic of `%` |
| `GovernanceProofs!ExecutionIsOfProposals` | `[]ExecutedExist` | not inductive alone: execute does not look at the proposal; strengthened by `NoEarlyVotes`, that an id not handed out has empty tallies, which are below the quorum |
| `GovernanceProofs!VotesStay` | `VotesAreFinal` | from TypeOK, by cases |
| `GovernanceProofs!TalliesAreSums` | `[]TalliesMatchVotes` | inductive with TypeOK; a vote adds one account to one set of voters, and a remainder of a sum with a remainder is that of the sum (`Sums`) |

### Application

| theorem | states | argument |
|---|---|---|
| `MarketProofs!SettlementPaid`, `FilledBacked` | `[]PaidBeforeRegistered`, `[]FilledIsBacked` | the invariant `SettleInv` below |
| `MarketProofs!BuyerIsKnown`, `CapTableAddsUp`, `TradesCount` | `[]BuyerOfRecord`, `[]Conserved`, `[]TradesAreKept` | `SettleInv` and the invariant `CalmInv` below |
| `AgentsProofs!OneDistributionPays` | `[]RevertsAreLateReadings` | the invariant `AgentInv` below |
| `AgentsProofs!AgentKeepsContract` | the agent's specification implies the contract's, and `[]Solvency` | every step of the agent and of those around it is a call of the contract or leaves it alone (`AgentCalls`) |
| `DatabaseProofs!StoreInvariant`, `ConfirmedMeansExecuted`, `LastHashIsKept`, `NoTokenIsLost` | `[]StoreInv`, `[]ConfirmedIsExecuted`, `[]HashIsLast`, `TokensAreKept` | the invariant `StoreInv` below |
| `PagesProofs!PageKeyIsActive` | `[]KeyIsActive` | inductive as it stands: every handler sets the key together with the event that could make it wrong, or records the late answer |
| `DatabaseProofs!SalesAreRecorded` | `[]SaleIsRecorded` | the invariant `OrderInv` below. Hypothesis `OrderNames`: the value for "no row" is no row and no id |
| `AgentsProofs!RevocationsRecorded` | `[]RevocationsAreRecorded` | the invariant `FlagInv` below. Hypothesis: the `ConstantsAssumption` of `ComplianceAgent`, which TLC evaluates in `MCAgents` |
| `DatabaseProofs!VotesAreCounted` | `[]TalliesCountVotes` | the invariant `VotesInv` below. Hypothesis `TabsAssumption`: finitely many votes are in flight at once |
| `PagesProofs!DialogueInvariant`, `MintsWaitForKyc`, `OneMintPerAsset`, `AnchorsOfOneDocument`, `AttestationGoesOn`, `DraftSurvives` | `[](WizardInv /\ ChainOK)` and the five properties of the mint pipeline | the invariants `WizardInv` and `ChainOK` below |
| `PagesProofs!FormIsHonest` | `[]ShownIsDone` | the invariant `OfferInv` below. Hypothesis `OffersAssumption`: the bound on offers is a natural number |
| `PagesProofs!OnlySetIsSaved` | `OnlyWhatWasSet` | the invariant `SettingsInv` below |

### The inductive invariants, and why they are needed

Hardly any of the properties is inductive. Each invariant below was checked by TLC before it
was proved; the number in parentheses is of the states it was checked in.

*Sums.* `SumFunction` is a fold, defined by a recursive function. `Sums` proves its laws (the
sum of a set with one more element, of a changed function, of two functions, bounds) without
induction over an operator: a counterexample would be a set, among the subsets of a finite
set there would be a smallest one (`SmallestSet`), and taking one element out of that gives
a smaller one.

*`FreshInv`* joins four facts, each needed by another: the types with "only minted ids are
live", exact balances, exact supply, and that approvals in force were given by the owner and
that an id not minted yet has no approval. The last is what makes burning harmless: an
approval left behind belongs to an id that never comes back. For the refinement, `balances`
and `totalSupply` are the ledger's counts by exactness, so that a mint is an `Issue`, a
transfer a `Move` (or a stutter, to oneself), a burn a `Retire`, and every other call a
stutter.

*`Inv`* of the escrow: every buy on the stack has one listing in hand, no two the same, locked
for the account that started the transaction (or refunded by the admin, in the admin's own
transaction); all other listings are committed; the purse holds no more than the buys on the
stack paid in; and what a revert goes back to is a state in which all listings are committed
and the purse is empty. So whatever the called contract does, nothing is half done when the
stack is empty.

*`SettleInv`* says what a request has done from where it is (`RequestOK`): the payment of its
order is on record from "book" on, nothing is registered before "regSeller", both parties
from "write" on, the cap table is written at "fill". None of it mentions another request,
and what it says of the order is stable: rows never disappear, keep their seller and never
lose their payment (`OrdersKept`). So a step of one request only has to be checked against
itself (lemmas `RequestStep`, `Progress`), which is why overlapping requests, however many,
can break neither property. A failed request is bound by almost nothing, so every failure is
covered by the same lemma.

*`CalmInv`* is what a calm market adds: the cap table has one entry of each wallet; one
request at most is in flight; what it has read is what the database still says, so that what
it writes is what a purchase makes of the present cap table; the seller of the order it is
about still holds the shares; the listing pages know the database; and the booked trades
account for every holding. It is stated of `Owed`, the open orders and the listing being
created, because the order that is being filled has its shares moved before its status is.

*`IInv`* of the distributor joins the types, the divisor and the solvency: the shares of a
distribution add up to at most the pool only because the divisor is the sum of the weights.
*`AgentInv`*: with k distributions in flight and `spare` the readings made meanwhile, k is at
most `spare` plus one if the pool is not empty; a distribution that pays empties the pool and
one that reverts uses up a reading.

*`StoreInv`* (787 322) relates what a task of the token store has read to the table it will
write back to: hashes that a task or a row knows are of transactions that exist, a
"confirmed" read is true because the chain takes nothing back, and a task that has an older
hash than the row is one of those recorded in `seen`.

*`OrderInv`* (20 877): of an order that is not disturbed at most one purchase goes on, and the
row says what that purchase has written so far; once a buyer was told, all of it.

*`FlagInv`* (503 005): while no flag was cut off the list, closed flags and revocations are
equally many, and there is an injection from the scans about to record a revocation into the
flags still open, by wallet. Two overlapping scans may close each other's flag, so a scan
cannot be tied to the flag it opened; the injection is exchanged at that step.

*`VotesInv`* (52 292): the primary key of proposals; what a tab is about to count is a vote of
its own, not lost, and of a proposal that has a row; and for every proposal the balance
counted + waiting + lost = cast, with the quorum a function of counted. The insert of a vote
moves one from nowhere to waiting, its tally from waiting to counted, the death of its
instance from waiting to lost.

*`WizardInv`*: what a handler will write is what it saw when it was called. So the invariant
relates the rendering of every handler in flight to the page of now, says which handlers
exclude each other (by the buttons they disable), what the draft has in common with the
page, and, until a disturbance is recorded, which documents and mints are accounted for.

*`ChainOK`* ties that to the chain: a mint that waits for its answer, and a row that was
stored, name a transaction that carries the link of the handler's rendering; and unless a
revocation came in between, whoever is about to be minted to is on the whitelist, and so is
the recipient of every mint not yet executed, so that none is refused. The link and the hash
go together in the row because they do in the rendering, which is `AnchorsOK` of `WizardInv`.
The five properties are conjuncts or consequences of the two; none is inductive without the
others.

*`OfferInv`* (48 128): offers are started in turn and the form shows the last one; every event
on its way to the form is true of what the route has done by now, and events of earlier
offers no longer arrive.

*`SettingsInv`* (652 232): a page that was told and not overtaken shows what is stored except
where its user set something; a save sent by such a page says what the page says of all that
its user has not set, and, until another save writes, knows what is stored of what it does
not set. The second is needed because two saves of one page may overtake each other without
the page being out of date.

### What is assumed, and what is only model-checked

Assumed: the named ASSUMEs of the modules (finite sets of accounts and ids, words and bounds
natural numbers, the admin an account, `NoAccount` not one, the value for "no row" not a
row), which TLC evaluates in every run, the hypotheses named in the tables, and that the
contract's transactions are atomic. The hypotheses of `TradesAreAtomic` are the constants of
`EscrowSwap`: with call-backs a trade is no single step, since a nested buy of another
listing commits with it (that is what `MCTradeEscrow` and `Inv` are for), and a price above
`PriceModulus` is one that no purse can hold.

Some theorems state properties that no run repeats: the types, `SupplyWithinCap`,
`OwnershipNeedsKyc`, `ApprovalSpentByTransfer`, `BalanceIsTokenCount`, `SupplyIsTokenCount`,
`ClaimsAreCovered` and `AgentKeepsContract` are proved for every instance, so a small one
adds nothing; `StoreInv`, `WizardInv` and `ChainOK` are what the properties of their modules
rest on.

Only model-checked: `PendingIsPaid`, `WaitsEnd`, `DepositsReachHolders`, `ExpiredAreRevoked`
and `PanelSettles`, because liveness under fairness, and the enabledness of actions that it
rests on, are out of the provers' reach; and that `SettledOnce` is violated.

## 5. Not modelled, and the plan

Not modelled: the proxies of indexer, prices, validators and network, which keep no state;
the texts that the AI route produces and the arguments of built transactions; the terms of a
402 answer; the logs of the agents; `updateDeployStatus` and the other queries that nothing
calls; a PATCH of an order's status other than "cancelled"; and what the pages only display.

Not composed: the cap table of the database with the weights on the chain. They have
different meanings (a second purchase adds to the one and replaces the other), and nothing
in the code reconciles them, so there is no relation between them to state. The escrow with
the real distributor in place of an arbitrary contract: `register_holder` asks that the
initiating account be the distributor's admin and decodes a 32-byte account hash, while buy
passes a byte vector, so the composition would have nothing but reverts.

Proofs to come, the most valuable first:

1. What the liveness properties rest on and is not liveness: that a claim is enabled for
   whoever has something pending (its checks hold; `ClaimsAreCovered` is the first half),
   and that the wait for a transaction has a measure that every poll decreases.
2. `YieldAgent` and `ComplianceAgent`: that a tick that has begun always has a step that it
   can take, as a condition on the state.
3. `AtomicSwap`: what remains true of the refinement when the called contract calls back, as
   a swap of several listings at once.
