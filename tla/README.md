# Clear-msig: a TLA+ verification of the wallet, its services and its pages

Clear-msig is a multisignature wallet whose members sign human-readable
messages. A Solana program (`programs/clear-wallet`) holds wallets, intents,
proposals and spending limits; a backend (`apps/api`, `crates/*`) turns signed
requests into transactions and delivers what the Ika network signed to Bitcoin,
Zcash, EVM and Hyperliquid; a settlement service (`apps/settlement`) moves money
between bank accounts and chains; a web application (`apps/web`) is the client
of all three and, on its server side, runs trading agents and their bridge to an
outside venue. This directory models the parts in which money, authority or the
truth of what a person is told can be lost by an unlucky order of events, checks
them with TLC on small instances, and proves the most important results with
TLAPS for every size.

`PROJECT.json` is the machine-readable index: components, runs, the source lines
behind every definition, hazards, the finding and the theorems.

## 1. The system and its parts

| Part | State it keeps | Operations | Module |
|---|---|---|---|
| Governance (`programs/clear-wallet/src/instructions`) | wallet counters, intents (rules, open-proposal count), proposals (status, two bitmaps, times) | create, propose, approve, cancel, execute, clean up, in a legacy and a typed form | `Governance` |
| SOL spending (`utils/policy.rs`, `utils/advanced_policy.rs`, `typed_send.rs`, `wallet_policy.rs`, `recurring_schedule.rs`) | policy commitment, spend meters and allowance rows per intent, schedules | send, batch, policy update, schedule activation, revocation, payment | `Spending` |
| Destination delivery (`crates/clear-msig-execution/src/chains/delivery*.rs`) | leases and receipts in Upstash or a file; threads in flight | `send`: lease, load, probe, journal, broadcast, record, release | `Delivery`, `DeliveryStores` |
| Settlement (`apps/settlement`) | intents, checkouts, deposits, payouts, webhook inbox | request handlers and four workers | `Settlement`, abstractly `RampPromise` |
| Agent venue bridge (`apps/web/src/lib/agents/serverVenue*.ts`) | delivery ledger with account locks in Redis, calls in flight | reserve, check authority and risk, submit, record, recover | `Venue` |
| Request page (`apps/web`, `useProposalWorkflow`, signing lock) | mounted review, attempts, recovery records | review, vote, execute, check what became of an attempt | `Requests` |
| Create–approve–execute handlers | one handler under way, its saved record | every page that creates a request and sees it through | `Workflows` |
| Secure pages | vaults, receipts, attestations, pages of several tabs | create, import, enrol, change threshold, sweep, vote, recover | `Recovery` |
| Treasury projects and schedules | saved escrow operation, schedule journal | prepare, sign, create, execute, verify | `Escrow`, `Recurring` |
| Agents on the server | the state of a wallet's agent, a signal inbox | sessions, proposals, signals, ticks | `AgentRuntime` |
| Signal intake, connection page, membership gates | registry, nonces, inbox, rosters | register, rotate, post, replay; who is answered | `Intake` |
| Agents' desk in the browser | trades, sessions, pause, profile, automatic mode | the handlers of its pages | `AgentDesk` |
| Send pages | form, names, coins, drafts, contacts | resolve, check, review, submit, batch | `Sends` |
| Policy pages | rules in the browser, policies on chain, sealed checks | edit, save per network, evaluate | `Policies` |
| Members, networks, contacts | creation, invitations, roles, networks, contacts | propose a rule, bind a network, invite | `Wallets` |
| Home, activity, vote history | cached lists and balances, a bounded scan | read, refresh, export, scan | `Home` |
| Buy, sell and swap | ramp pages, swap drafts, solver reservations | quote, reserve, pay, follow | `Exchange` |
| Venue orders and setup page | execution requests and fills | import, claim, reconcile, poll | `VenueOrders` |
| Shell: app lock, routes, signers | PIN, memberships, chosen signer | unlock, redirect, sign | `Shell` |
| Notices, e-mails, rate limits | feed, preferences, buckets | ingest, read, mail, limit | `Notices` |
| Market data, scout, chain authority | snapshots, quotes, two reads of the chain | load, judge, check | `Markets` |
| Traders: notices, delegation, standing, library | seen notices, signers, allowances, templates | build, delegate, grant, add | `Traders` |

Parts that are not modelled are listed in section 8 and, with their reasons, in
`PROJECT.json`.

**How they interact.** The program is the only authority over a wallet: every
instruction is an atomic transaction on shared accounts, submitted by anyone who
holds the signatures, in an order the chain chooses. `Governance` decides *which*
proposals may execute; the typed executors (sends, policies, schedules) go through
the same readiness check and then change accounts of their own, which is what
`Spending` models. Remote sends end in a message approval that Ika signs; the
backend hands the signed bytes to the delivery transport, which shares leases and
receipts with other backend processes through a store without transactions. The
settlement service shares nothing with the program but the chain: it learns of
deposits by proof, of bank transfers by webhooks that may be late, repeated or out
of order. The web pages call all of these over a network that loses replies;
whatever a page remembers of a request under way is in the browser's storage,
which its tabs share. An agent's signal goes from `Intake` to the inbox of
`AgentRuntime`, becomes a proposal, and, when it trades at a venue, an order of
`Venue`, whose records the pages of `VenueOrders` show.

**What is hard in it.**

* Votes, withdrawals and executions of several proposals interleave with the
  rewriting of the very rules they are counted under.
* Counters kept by hand (open proposals, payments left, spend in a window) must
  agree with histories nobody stores.
* A lease is a timer; its owner may be slow, dead, or unaware that it owns it; a
  broadcast that timed out may still arrive.
* Workers, handlers and webhooks race over a row with requests to a bank in
  between, and a crash may fall between any request and its record.
* A page awaits a wallet, a server or a person for minutes while the account, the
  route, another tab or another member changes what it started from.
* Whole values are read, changed and written back without a lock, in Redis and in
  local storage.

## 2. Modules

State machines of the program and the services, each with its proofs:

| Module | What it is |
|---|---|
| `Governance`, `GovernanceProofs`, `MCGovernance` | wallet, intents and proposals, one action per instruction |
| `Spending`, `SpendingProofs`, `MCSpending` | SOL sends, policies, schedules |
| `Delivery`, `DeliveryProofs`, `MCDelivery` | the delivery protocol over either store |
| `DeliveryStores`, `DeliveryStoresProofs`, `MCDeliveryStores` | the protocol over the shared store and over the file, with providers of each response shape |
| `RampPromise` | the abstract promise about money: at most one payout, only for funds that came in |
| `Settlement`, `SettlementProofs`, `MCSettlement` | the service that keeps it |
| `Venue`, `VenueProofs`, `MCVenue` | the bridge between agents and a venue |

The web application. Its parts keep their state under keys of their own and never
call each other's functions, so four modules *compose* them by `INSTANCE` and a
variable `focus` names the part a behaviour is about:

| Composition | Parts |
|---|---|
| `SigningPages` (`MCSigningPages`) | `Requests`, `Workflows`, `Recovery` |
| `Operations` (`OperationsProofs`, `MCOperations`) | `Escrow` (one tab, two tabs) and `Recurring` (both in `TreasuryProofs`), `AgentRuntime` |
| `WalletPages` (`MCWalletPages`) | `AgentDesk`, `Sends`, `Policies`, `Wallets`, `Home`, `Intake` |
| `AccountPages` | `Exchange`, `VenueOrders`, `Shell`, `Notices`, `Markets`, `Traders` |

A composition states a few properties of the whole, such as "nothing is asked for
twice"; each is the conjunction of properties that the parts state, with the code
they are about, in their own modules.

The `map` of `PROJECT.json` names the code of the actions and of the operators they
rest on. A helper or a short handler whose code lies within the lines of a mapped
definition, or next to them, belongs to that definition and has no entry of its own;
the lines of a handler include the small helpers and types beside it whose detail the
model abstracts.

A definition whose comment begins *Fault variant* is a deliberately wrong form of
the definition after it, kept to show that a property is sensitive to it: with
the fault in place of the original TLC reports the property listed beside it
under `mutants`. No specification uses one.

### Governance

`intent[i]` holds what the program stores of an intent's rules, `proposal[p]` a
proposal with its status, bitmaps and times, `intent_index` and `proposal_index`
the wallet's counters; `cast` is history, the votes with their times. Legacy
(`Propose`, `Approve`, `Cancel`, `ExecuteAddIntent`, `ExecuteRemoveIntent`,
`ExecuteUpdateIntent`, `ExecuteCustom`, `IkaSign`, `CleanupProposal`) and typed
instructions (`ProposeTypedV4`, `ApproveTyped`, `CancelTyped`,
`ExecuteTypedIntentGovernance`, `ExecuteTypedAction`, `CleanupTypedProposal`)
share the accounts and interleave freely. A signature is the member who made it;
who submits is "anyone", and a signed vote may be submitted at any time before it
expires, so resubmission is covered. Approver lists are sequences because bitmaps
index them. Templates, parameters and message texts are left out;
`ExecuteTypedAction` stands for every typed executor whose effects lie outside
governance. Bodies of new intents carry an open-proposal count of zero, as clients
encode them (`BodiesAssumption`): the legacy executors copy the bytes as they are.

### Spending

`spend[i]` and `allowance[i]` are the program's meters, `policy` the SOL slot of
the wallet policy, `schedule[s]` a recurring payment; `log` and `approved` are
history, the payments made and the terms approved. Each clause of a policy is an
operator with the name it has in the source. A commitment is the name of the
policy it hashes. An execution takes *any* approved proposal, since readiness is
`Governance`'s business; balances and rent are not modelled, so a payment never
fails for want of funds.

### Delivery

A worker is one run of `ReconciledDestinationTransport::send`. Its program counter
walks through `acquire`, `acquired`, `load`, `probe`, `prepare`, `submit`,
`reprobe`, `finish`, `release`; each step is one request to the store or the node,
with a time limit. Time passes in ticks of ten seconds: a store command takes at
most 1 tick, a probe 3 (Bitcoin, Zcash) or 6 (EVM), a broadcast 3, a lease lives
18. `Crash` stops every thread of a process; `AcquireLost` and `ReleaseLost` are
commands that were applied and whose reply was lost, from which leases without an
owner (`Leaked`) come. `Faults` enables broadcasts that arrive after their timeout
(`late`), nodes that lag (`stale`) and nodes that answer with another identity
(`mismatch`). A store command that timed out is not applied later, timers are
accurate, and a receipt that belongs to other bytes is a failed load.

`shape` is the `ResponseShape` of the provider an execution is sent to: `JsonRpc` (EVM,
and Bitcoin and Zcash nodes), `PlainText` (Bitcoin over Esplora), `Blockchair` (Zcash).
`Providers` are the assignments a run starts from. The code takes the provider's URL with
each request; the model keeps the shape of an execution through its retries. A node that takes a transaction (`Taken`) answers
with its id, with a success that names no id or another, or with nothing that can be
read as a success; one that refuses it (`Refused`) with an error, with a wording for a
transaction it has already, or with the same two that tell nothing; a node that takes a
transaction is not taken to answer with an explicit error. `ReadTxId` is `read_tx_id`:
only `JsonRpc` knows `MaybeKnown`, and a success that names no id is a rejection for
`PlainText` and unknown for the other two. There is no query for what went through
Blockchair, so its probes are errors. A transaction *reverts*
(`Mine`) when it is found over JSON-RPC with EVM status 0 or a negative number of
confirmations; no block is taken to accept it afterwards.

The history `misled` says that what `send` was last told of an execution is not so, for
one of three reasons, each of which TLC finds necessary: a node that had taken the
transaction was read as having rejected it (a `PlainText` body without an id, another
id), a lagging node answered `NotFound`, or a late broadcast landed after `send` had
settled that there is none. A later truthful answer to the same execution takes it
back.

The file drops the receipt of the oldest second, and of that second the first key; the
model drops the oldest update. They differ in the receipt that was just saved, which
the code drops if all the others are of the same second or the clock stepped back.

### Settlement

`kind`, `status`, `checkout`, `disbursed`, `payout`, `credit`, `inbox` are columns
of the database; `job` is what a handler or worker pass holds in memory between its
statements; `charge`, `deposit`, `bank` are the truth at the provider, on the chain
and at the bank; `calls` counts requests that move money. Database transactions
are atomic and claims with `SKIP LOCKED` exclusive; every request to the outside is
a step of its own. `Abandon` ends a job at any point: a crash, a timeout, or an
error the code returns on. `KeepsPromise` is the specification of `RampPromise`
under the mapping that counts an intent as funded when its own payment or proven
deposit arrived within the quote, and its payments as the calls made.

### Venue

`binding` and `assigned` are the registry of dedicated accounts, `delivery[o]` and
`lock[a]` the fields of the Redis ledger, whose scripts run atomically; `late` are
commands abandoned by their caller and not yet applied; `call[c]` is one call of
the bridge with everything it has read; `grant` is the chain's authority, `wire`
the orders on their way, `entries` and `open` the venue's truth. A lease that
expires makes its delivery *uncertain* and keeps the account locked until recovery
has asked the venue. The bridge reads the authority before and after it observes
the account's risk. The venue is external: it makes an entry of an order that
reaches it, sooner or later, and answers truthfully what it has.

### The pages

In every page module `disk` is what the browser (or Redis) keeps, `remote` what
others decide, `calls` the requests under way with the values their closures hold,
`ui` the mounted page, and `ghost` the history some property needs; `Requests`,
`Workflows`, `Recovery`, `Escrow`, `Recurring`, `AgentRuntime` name theirs. A
handler is split at its awaits and nowhere else. Answers may be late or lost, a
request may land although its answer was lost, and a page may be left, reloaded or
mounted again while its handlers go on. In particular:

* `Workflows` writes each handler as a script of common steps; the interpreter of a
  step is the code of the shared helper, and the differences between pages are the
  differences between their scripts.
* `Policies` keeps checks as the pages do: conditions, recipients and cooldowns are
  *sealed* before they are stored and opened when they are read; opening can fail.
  A check whose stored fields are sealed compiles to what was typed only if it was
  opened first, which `ReadsAsTyped` and `ChecksAgreeWithChain` follow through
  saves that fail half way.
* `Intake` models the freshness window, the nonce and the key in force at the
  moment a signal is judged, over a Redis where each command may fail and over a
  memory that a restart empties.
* `Notices` has both rate limiters, `Shell` several tabs with one PIN, `Home` a
  scan over pages of a history that grows.

## 3. Properties

Every property was chosen for a hazard of `PROJECT.json`, and each is violated by
at least one fault variant under its own run.

**Governance.** `ActiveCountExact`: the open-proposal count of every intent is the
number of its open proposals. `QuorumHolds`: what is Approved has a quorum of the
present rules. `BackedApprovals`: every bit of a bitmap is the vote of the member
now at that position. `OpenOnApprovedIntent`: no open proposal belongs to a removed
intent. `OpenIntentFrozen`: no step changes the rules of an intent under a proposal
that stays open. `TimelockServed`: what executes had all its approvals for the
whole timelock.

**Spending.** `MeterCovers`: a meter holds at least every metered payment since its
window opened, across edits of the policy. `VelocityHolds`, `AllowanceHolds`: in any
stretch of time as long as the window, payments under limits at least as tight stay
within *twice* the cap, the bound a tumbling window really gives; an allowance is
not reset by what others send. `ScheduleHonoured`: a schedule has made exactly the
payments that are no longer left, none early, each an interval after the last.

**Delivery.** `SoleBroadcaster`: no two workers broadcast one execution at a time.
`RebroadcastQueried`: nothing is broadcast again before the chain was asked in the
same run. `WritesUnderLease`: receipts are written by the owner of the lease.
`BroadcastsSound`: whatever the response shape, with nodes that lag, answer with another
id or with none, and let broadcasts land late, Failed, which is for good, means unpaid;
the only exceptions are a transaction `send` was misled about, in one of the three
ways above, and one whose earlier receipt the file dropped. And one process over the
file broadcasts from one thread at a time. `LeaseFreed`: every lease ends.

**Settlement.** `OneCheckout`: concurrent, repeated and crashed payment requests ask
for one checkout. `OutcomeIsTrue`: the recorded outcome is the bank's.
`KeepsPromise`: refinement of `RampPromise`. `PayoutEnds`: payouts end.
`PayoutIsMonotone`: what the service's README says of payout rows, and the code
does not do.

**Venue.** `SingleOrder`: a trade is sent once, through lost replies, late commands,
crashes and a second execute. `WithinLimit`: positions, orders on their way
included, stay within the limit. `CompletedTrue`, `DedicatedAccount`,
`RevokedNeverSent`: completed deliveries have their entry, two wallets never trade
on one account, nothing is sent whose grant was gone when the risk answer arrived.

**Pages.** The properties of the four compositions and the properties of the parts
they join:

| Property | What it says | Parts |
|---|---|---|
| `AskedOnce` | nothing is asked for twice while the first may take effect | `Requests`: `OneOutstanding`, `OnePrompt`; `Workflows`: `OneRequest`, `OneExecution`; `Recovery`: `NoSecondImport`, `KeyGoneBeforeWallet` |
| `ReportsTrue` | what is reported was recorded on chain; what may have been sent has its record | `ToldTrue` twice; `RecordsAreTrue`, `NothingForgotten`, `AttestationKept` |
| `SendsOnlyCurrent` | nothing is submitted for a person, mount, policy or route of the past | `SubmitsForCurrent`; `ProtectionHonoured`, `DenyNeverSigns`; `NeverStartsOverAnUnknown`, `LeftFlowStops` |
| `PaidOnce` | one execution, one open request, one allowance, one proposal per signal | `Escrow`, `Recurring`, `AgentRuntime` |
| `BooksTrue` | releases, payments and scorecards agree with what happened | the same |
| `EndedStays` | ended proposals and allowances stay ended; automatic trades have an allowance | `AgentRuntime` |
| `PagesTellTrue` | what pages show is so | `PauseAgrees`, `ProfileAgrees`; `LogTrue`; `SavedMeansActive`, `PageAgreesWithChain`, `ChecksAgreeWithChain`, `ReadsAsTyped`, `EvaluationIsCurrent`; `RolesShown`, `CreatorStays`, `InviteLogTrue`; the eight of `Home`; `ReadyMeansRegistered`, `ServedToMember` |
| `SentAsApproved` | what leaves is what was seen and approved | `ResumeAlone`, `ApprovedActionOnly`, `AutomationNeedsApproval`; `SignedAsShown`, `PaidTheName`, `CoinPays`; `BothListsHold`, `CapsHold`; `AcceptedAsSigned`, `KeyInForce`, `AutomaticIsApproved` |
| `OnceAndKept` | nothing is done twice, nothing saved is lost | `OneTrade`, `OneAllowance`; `OneAutoStart`, `NoRepeatedDraft`; `KeyShared`, `AddressStays`, `LostOnlyConcurrent`, `ContactsKept`, `ImportsKept`, `OneSetup`; `AcceptedOnce`, `ManagerStays`, `OneChain` |
| `StepsWithinRules` | trades open under the rules of the moment; a failed save restores | `OpensWithinRules`; `FailureRestores` |
| `ScreensTellTrue`, `DoneAsChosen`, `OnceInTurn`, `SettledStays` | the same four questions of the account pages | `Exchange`, `VenueOrders`, `Shell`, `Notices`, `Markets`, `Traders` |

Several properties have an escape such as `late`, `lost` or `ghost.overlap`: the
code has no protection against a writer that overwrites a record it has not read,
and the property says that this is the *only* way to violate it. It does not cover the
hazard its escape names, and `hazards` does not list it there: no property covers the
loss of one of two member changes drafted at once, two writes of the execution
requests or of an agent's state that overlap, the execution of an escrow request by
two tabs, a trimmed notice that is announced again, or preferences written back over
a choice.

## 4. Runs and bounds

Run any of them in this directory with `tlc -workers 2 -config X.cfg M`.

| Run | Config | Distinct states | Shows |
|---|---|---|---|
| `governance_votes` | `MCGovernance.cfg` | 405,882 | A two-of-two wallet with a timelock: two proposals, legacy or typed, voted on, withdrawn, expiring, executed and cleaned up in every order (`TypeOK`, `ActiveCountExact`, `QuorumHolds`, `BackedApprovals`, `TimelockServed`) |
| `governance_rewrites` | `MCLifecycle.cfg` | 135,177 | A solo wallet with three proposals that add, remove, update and use intents, the typed same-intent rewrite included (`OpenOnApprovedIntent`, `OpenIntentFrozen`) |
| `delivery_leases` | `MCDelivery.cfg` | 435,834 | Two backends deliver one execution through the shared store with the Bitcoin and Zcash timeouts of the code, to a node of any response shape: crashes, lost replies, leaked leases, late broadcasts, stale and lying nodes (`SoleBroadcaster`, `RebroadcastQueried`, `WritesUnderLease`) |
| `delivery_stores` | `MCDeliveryStores.cfg` | 1,688,049 | Over the shared store and over the file of one process, with providers of every response shape whose nodes are stale, answer with another id, answer what names no id, or let a broadcast land late, through crashes, evictions and retries: a Failed receipt is of an unpaid transaction, unless what send was last told was not so or the file dropped an earlier receipt of it, and every lease is freed, also when its owner crashed or its token was lost (`BroadcastsSound`, `LeaseFreed`) |
| `settlement_money` | `MCSettlement.cfg` | 15,919 | An intent of either kind through three concurrent jobs and two deposits with Paystack: crashes, lost replies, late payments, webhooks that overtake replies and each other; the service implements RampPromise and every payout the bank was asked for ends (`TypeOK`, `OneCheckout`, `OutcomeIsTrue`, `KeepsPromise`, `PayoutEnds`) |
| `settlement_reversal` | `MCSettlementReversal.cfg` | violation | A transfer.success that arrives after transfer.reversed turns the reversed payout row back into success (`PayoutIsMonotone`) |
| `spending_limits` | `MCSpending.cfg` | 382,302 | One intent, two members and a recurring schedule under two policies put in force, replaced and lifted in any order: sends, batches, recurring payments, revocations and renewals at every second (`MeterCovers`, `VelocityHolds`, `AllowanceHolds`, `ScheduleHonoured`) |
| `agent_venue` | `MCVenue.cfg` | 1,090,176 | Two bridge calls deliver three orders of two wallets on one venue account: reservations that expire, uncertain submissions, recoveries, revoked authority and crashes between any two commands of the venue ledger (`SingleOrder`, `WithinLimit`, `CompletedTrue`, `DedicatedAccount`, `RevokedNeverSent`) |
| `signing_pages` | `MCSigningPages.cfg` | 2,032,017 | The request page, every create-approve-execute handler and the Secure pages: account switches, remounts, reloads, lost replies, second tabs and abandoned prompts (`AskedOnce`, `ReportsTrue`, `SendsOnlyCurrent`) |
| `operations` | `MCOperations.cfg` | 1,817,151 | Escrow projects in one and in two tabs, recurring schedules, and agents on the server with two concurrent requests that write the same state: lost replies, reloads, late answers, expiring allowances (`PaidOnce`, `BooksTrue`, `EndedStays`) |
| `wallet_pages` | `MCWalletPages.cfg` | 1,859,658 | The agents' desk, the send pages, the policy pages, members and networks, and the home page, each with late answers, other tabs, other members and failed saves (`PagesTellTrue`, `SentAsApproved`, `OnceAndKept`, `StepsWithinRules`) |
| `account_pages` | `AccountPages.cfg` | 2,091,147 | Ramps and swaps, venue orders, the app lock, routes and signers, notices and e-mails, market data and the traders' pages, each with late answers, second tabs and stores at their limits (`ScreensTellTrue`, `DoneAsChosen`, `OnceInTurn`, `SettledStays`) |

* **Governance.** In the votes run two members must both approve and both cancel, an
  approved proposal waits one second, and the clock has three instants, so a quorum
  can be lost and won again later and typed proposals can expire while open. An
  update swaps the two approvers: positions change hands if a bitmap survives it.
  Two proposals are the least that interfere, and they share the update intent. The
  rewrites run has three proposals and three targets with a wallet of one, so that
  add, update, remove and use follow each other. `MaxActive`, `MaxIntentIndex` and
  `MaxProposals` stand for the `u16`, `u8` and `u64` limits; they are reached, and
  there the instruction is refused.
* **Spending.** The policy *budget* may be carried by a schedule and meters a window
  of two seconds; *team* meters the same payments with a window of three, and caps
  one member, counts sends, requires an approver, waits, and has rules that wait,
  ask for an approver and deny. The instants contain a window, its end, and an
  instant after; the payments can exceed twice the budget's cap and the allowance.
  Either policy can be put in force, replaced or lifted between any two payments.
* **Delivery.** Two workers are the least that conflict; two attempts allow a
  broadcast, its repeat and a saturated counter. The limits of `delivery_leases` are
  those of the code in ticks. `delivery_stores` has no symmetry, since it checks
  liveness, and keeps the order of the limits with fewer ticks: a lease of 8 outlasts
  a worst case of 7. Over the shared store one execution, of any shape, has two attempts
  and nodes all three faults; over the file two executions, a `PlainText` and a `JsonRpc`
  one, have one each and share room for one receipt, so eviction happens; there no
  broadcast lands late, for the size of the run, and the theorem has no such limit.
* **Settlement.** Three jobs are one more than can conflict on a row; two deposits
  let one intent be funded twice. Two intents share nothing but the deposit table
  and were checked apart.
* **Venue.** Two calls are the least that race. Two orders of one wallet and one of
  another, on one account with room for one position, contain the conflicts the
  ledger, the registry and the limit prevent. Calls are symmetric.
* **Pages.** In each part the bounds are on acts of the person, of other tabs and of
  others (`MaxActs`, `MaxEdits`, `Menus`, ...), each named in the part's CONSTANTS.
  They allow a handler to be overtaken by one change of everything it depends on,
  and a second handler after it; every disjunct of every part fires. A page of the
  account pages lives for two instants; the members' pages send three transactions
  and connect twice; the pages on checks and on members begin with known rules, the
  budget page with none. Where a
  behaviour of all handlers at once would be out of reach, a `menu` chooses which
  handlers a behaviour has, and the menus cover every pair that shares state.
* **Deadlock** is checked in the runs of Delivery. The others switch it off: proposals,
  instants, payments, orders and acts are bounded, and they end.

## 5. Fairness

`delivery_stores`: time passes and a thread that is neither crashed nor waiting
takes its next step (weak fairness); its requests have client timeouts, so each
step ends. Nothing is assumed of a crashed process or of the caller's retries.

`settlement_money`: providers resend webhooks until they are acknowledged and the
webhook worker runs forever (`WF(Webhook(i))`); the disbursement worker is a loop of
its own, so a claim that is enabled again and again is made (`SF`, as other jobs may
hold the slot meanwhile); a job ends, normally or by `Abandon`. Nothing is assumed
of customers, banks or chains.

The page modules assume no fairness: people leave, and networks stay silent.

## 6. Where the code and its words differ

**A reversal can be overwritten** (run `settlement_reversal`). A `transfer.success`
processed after `transfer.reversed` turns the payout row back to `success` while
the intent stays failed (`workers/webhook_processing.rs:91`);
`apps/settlement/README.md:105-106` speaks of monotonic guards.

Six further sentences of the repository are stated as properties of their modules
and belong to no run; TLC finds each of them violated when it is added to the run
of its composition:

* `Delivery!MalformedIsUnknown`. `apps/api/README.md:124-125` says that malformed responses
  leave delivery unknown. A `PlainText` success whose body names no transaction id is
  `Rejected` (`delivery.rs:434-442`) and stored as Failed, for good (`:266-271`), also
  when the node has taken the transaction.
* `Notices!OptOutStays`. The reply of an e-mail under way writes the older
  preferences back, so e-mails that were turned off are on again.
* `Shell!UnlockedSinceSet`. `appLock.ts` calls a tab unlocked when it was unlocked
  since the PIN was set; a tab unlocked under an older PIN stays open under a newer.
* `Traders!ReadyMeansAllowed`. The dashboard's readiness does not look at the
  positions of the allowance nor at its length; `ReadyCanTrade` states what it does
  promise.
* `Exchange!ReservationsCovered`. The solver checks its balance for each reservation
  alone, so reservations together may exceed it.
* `Wallets!QuorumOnly`. A change of the quorum carries a whole snapshot of the rule,
  so executed late it also undoes a change of the members made meanwhile;
  `LostOnlyConcurrent` states the limit of that.

And one that needs no interleaving: `PolicyForm.tsx:107-109` says that the browser
keeps only sealed payloads of a check, while a failed edit (`:146-150`) puts back the
opened check the form began with. `FailureRestores` therefore compares checks as they
read, not as they are stored.

## 7. What is proved

The theorems hold for every value of the constants that satisfies the named
assumptions; TLC evaluates those assumptions on every run. `tlapm X.tla` checks a
module's proofs.

**Governance** (`GovernanceProofs`; any members, creation arguments, bodies and
bounds within `BoundsAssumption`, `CreateArgsAssumption`, `BodiesAssumption`).
`TypeCorrect` and `GovernanceSafety` establish `GovInv`, whose conjuncts need each
other. The count is exact only if no intent is overwritten while open proposals
point at it; that is so because updates and removals require a count of zero, which
by exactness means no open proposal. A bit keeps meaning the same member because
approver lists change only then; a quorum stays a quorum because thresholds do too.
`FreshIntents` (addresses above the index are empty) makes the addition of an intent
harmless. The hard case is the typed executor that rewrites its own intent:
discounting itself leaves zero, so by exactness it was the only open proposal, and
it closes in the same step. `CountsExact`, `QuorumKept`, `ApprovalsBacked`,
`OpenIsApproved` follow; `IntentFrozen` derives the action property from the same
invariant. `TimelockHolds` needs `VotesInv` besides: no vote is from the future, a
quorum is dated after the votes it counts, and an open proposal has too few votes
against it. Also proved: `FinalForever` (executed and cancelled proposals never open
again) and `ExpiredPins` (a typed proposal that expires while open keeps its intent as it
is for good, a property one would rather not have and the code has).

**Delivery** (`DeliveryProofs`; any workers, processes, executions and faults).
Over the shared store, assuming `LeaseOutlastsBroadcast` (the lease outlasts three
store commands, a probe and a broadcast: 90 s for Bitcoin and Zcash, 120 s for EVM,
against 180 s): `SoleBroadcaster` says nothing of leases, so it is not inductive.
`LeaseCovers` is: from the moment its lease is set until its broadcast ended, a
worker owns the lease and the lease lives longer than the worker can still take
(`Rest`). Every step shortens the rest by the limit of the request it starts, a tick
shortens both sides, and no other worker can set or delete the key meanwhile.
`OneBroadcastAtATime` follows; `RebroadcastAfterQuery` adds `AttemptsCounted` and
`QueriedBeforePrepare`. Assuming the stronger `LeaseOutlastsRun` (four store commands,
two probes and the broadcast: 130 s for Bitcoin and Zcash; it does *not* hold of EVM,
190 s), `RunCovers` extends the cover to the last write and `ReceiptHeld` says that
the receipt stays as its worker left it: `WritesLeased`, `BroadcastJournaled`,
`FailedForever`. With no assumption on leases, for any store, `LocalLockHolds` and
`OneProcessBroadcasts` say what the local lock of one process gives.
`FailedNeverPaid` is about the answers of nodes: over the shared store, for any response
shapes and any faults, with `LeaseOutlastsRun`, a Failed receipt is never of a
transaction a chain has or may still take, unless `send` was misled about it. The
invariant `ChainKnown` follows a probe from its question to the last write that may
depend on its answer: `FailedAnswers` says what an answer that leads to Failed means when
it is given and `GarbledReplies` which replies to a broadcast are read as a rejection of
what was taken, `RunAlone` that no other worker can broadcast before it is used,
`LandedLate` what a late broadcast does to it, and `ChainEffect` what a step may do to
the chain and to `misled` meanwhile.

The file of one process has no lease, and it drops its oldest receipt. What replaces the
lease is the local lock (`LocalLock`); what is lost with a receipt is what the next run
would have asked the chain, so a run that starts afresh may record as Failed a
transaction that an earlier run had paid. `KnownOfKept` is `ChainKnown` for one
execution whose receipts the file has kept: whatever was broadcast has its receipt, and
a run that is about to broadcast, or to write Failed, knows what the chain holds.
`KnownStep` carries it through every step that does not drop that receipt, and the
exception of the property is exactly the executions it was not carried through. It needs
that a save drops another receipt than the one it writes: `OthersFirst`, since the file
holds one of each execution and the saved one last. `StoresSound` (`DeliveryStoresProofs`)
joins both stores as `BroadcastsSound`, from two assumptions: the lease of the shared
store outlasts a run, and the file is that of one process.

**Settlement** (`SettlementProofs`; any intents, jobs, transactions, and replies
without the marker for "no row"). `PromiseInvariant`: a job that may sign or pay
still finds no call made, at most one such job exists per intent, unclaimed intents
have no call, credited deposits are proven. Its heart is that the claim is committed
before the request goes out: a job holds the right to pay only between the two, and
neither a crash nor a second pass finds the row unclaimed again. `PromiseKept` shows
that every step is a step of `RampPromise` or a stutter. `LedgerInvariant` adds the
invariants of checkouts (the reference is committed before the request and never
cleared), of events that report money, and of disbursements; `CheckoutOnce`,
`OutcomeTrue`, `EventsRecorded`, `SettledForever` follow.

**Spending** (`SpendingProofs`). `ScheduleInvariant`, `SchedulesPayAsApproved`,
`ClosedPaysNothing`, for any schedules, members, policies, batches and times: the
payments of a schedule in the log since its approval are exactly those it has no
longer left, in order and spaced, whatever sends and policies come between.

**Venue** (`VenueProofs`; any calls, orders, wallets, accounts and limits).
`VenueInvariant` joins the ledger (an account's lock and its open deliveries agree;
a claim that may still be applied finds its delivery as it was made for), the sends
(before an order is submitted nothing was sent for it, one call at most is the
first to send, what is on its way or entered is counted once) and the room
(positions plus orders that may still become positions stay within the limit). The
argument for `SentOnce` is that a lease, once begun, never becomes claimable again:
expiry leads to *uncertain*, which only recovery ends, with the venue's own answer.
`LimitKept`, `CompletionTrue`, `LockExact`, `OneWalletPerAccount`,
`NothingAfterRevocation` follow.

**The meters of Spending** (`SpendingProofs`; any policies, limits, batches, windows and
members). `SpendIsKept`, `VelocityIsHeld` and `AllowanceIsHeld` are the three properties
of the run, which TLC sums up for a few payments and the proof for logs of any length.
A meter is one number and one date, so it cannot know the payments it bounds; a property
asks about a window that slides, so no fixed window is inductive. `Bounded` says, for
*every* date t and *every* limit l: if all payments after t were made under limits as
tight as l, the meter holds at most l's cap, and, when t is no older than l's window,
the payments after t are in the meter but for at most one cap, spent before its window
opened. `Covers` is the other half: the meter holds what was paid since its window
opened. Both are stated of a *view* of the log, which tells of each payment whether it
is charged to the meter and which limit it was made under, so that one argument serves
velocity meters and the allowances of members. `SendMetered` carries them through a
batch, payment by payment, and `PaymentMetered` through recurring payments; policy
updates touch no meter, which is why spend survives them. `AmountsIsSum`, `AmountsOneMore`
and `ChargeIsRun` do the inductions over logs and batches, each by a least
counterexample (`Least`, from the well-foundedness of the naturals).

**Escrow** (`TreasuryProofs`; any tabs, handler calls and interruptions). A card's record
is held in three places: in localStorage, on the cards, and by handlers that await a
reply. `RecordsTrue` says of each copy that its request was posted, and that it says
confirmed or cancelled only of a request that Solana executed or cancelled. A handler
that will overwrite the saved record writes what follows from the one it read, so while
nobody overwrote what changed under him (`late`) the saved record goes through its
phases in order, and `CardAsked` holds: its execution is asked for on one of those moves.
`EscrowAccountable` joins `OneExecution`, `OneOpenRequest` and `MarkedTrue`.

**Recurring schedules** (`TreasuryProofs`; any tabs, calls and payments). The journal
counts payments that Solana counts too, and the page reads the count of a finalized
commitment that lags behind. `Paying` relates the three while the page is the only one
who pays (`others`): a payment that may still land is the saved one and the next one of
the schedule, and without a saved one the finalized count is the schedule's. That is why
a payment is found again after a reload and not offered twice. `RecurringAccountable`
joins the execution of requests, `PaymentRemembered` and `VerifiedTrue`.

**Agents on the server** (`OperationsProofs`; any requests, signals, sessions, policies
and permits). The state of a wallet's agents is one value that requests read, change and
write back whole, so nothing about the saved value alone is inductive. `AgentsInv` is
about copies: the saved state, and whatever a request is about to write, is `Sound`
(one active allowance, one proposal per signal, positions within the limit, a scorecard
that counts what the lists show). Each handler makes a sound copy of a sound one and
keeps what is final in it, so any of the overlapping writes may win. What a write
undoes, it undoes because it was made of an old copy, and `lost` says so: `EndedStay` is
the action property with that exception.

**The composition** (`OperationsProofs`). `WorkPaidOnce` and `BooksKeptTrue` carry the
theorems about the parts over: under the substitutions of each focus a step of
`Operations` is a step of its part (`CardAlone`, `CardsSideBySide`, `RecurringPage`,
`AgentsSound`), and the focus never changes (`StaysFocused`).

**Only model-checked.** `PayoutEnds` and `LeaseFreed` are liveness and need fairness
and `ENABLED`, which the prover does not handle.

Of the four compositions of the web application one is proved, `Operations`; the
properties of `SigningPages`, `WalletPages` and `AccountPages` are checked, on the bounds
of section 4.

## 8. What is not modelled, and why

* Serialisation, hashing and transaction building (`crates/clear-msig-signing`,
  `utils/clearsign.rs`, `chains/*`): stateless conversions of bytes. The models take
  an identity for what a hash or a commitment names.
* Asset policies, token schedules, escrow accounts, agent sessions and dWallet
  binding of the program: the same readiness check and account discipline as the
  modelled executors, with other payloads; planned as instances of `Spending`. The
  pages that drive them are modelled, with the program as they use it.
* `apps/api` (authorisation, timeouts, draining) and the execution commands of
  `clear-msig-execution`: no state of their own; their lost and late replies are in
  the models of their callers.
* Three faults of services the code relies on: a browser storage that refuses a write
  (`sendRecovery.ts:90-94` and `requestRecovery.ts:85-89` then keep the entry in memory,
  and a reload loses it), a Solana node that silently answers with a short page
  (`proposalVoteHistory.ts:338` takes it for the last), and the `api:` indexes of
  `serverVenueRedis.ts:150`, which refuse registrations that `Venue!Register` admits.
* Command-line tools, examples, generated and vendored code, presentational
  components, marketing pages and assets.

## 9. What comes next

* Proofs about `Requests` (`OnePrompt`, `OneOutstanding`) and `Intake` (`AcceptedOnce`,
  `KeyInForce`), along the lines of `TreasuryProofs`.
* The program's asset policies and token schedules as a second instance of `Spending`.
