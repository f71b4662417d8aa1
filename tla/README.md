# Nivo AI backend: TLA+ models of its orders, chats, money and messages

The backend is a NestJS service for small shops: a language model talks to buyers in a chat
(web, Telegram, Instagram), takes orders, collects receipts of card-to-card transfers, and the
seller approves, rejects, ships and refunds from a panel or a bot. Around it are payments for the
shop's own subscription, the credit its chats use up, notifications, and content tools such as video jobs.

What is hard in it is not the language model but the rows that several parties change at the same
time: the buyer's chat turn, the buyer's order page, the seller's panel and bot, and the cron jobs all
read an order, decide, and act in a later transaction. The project models that part first, then the lock
and mailbox that keep the chat turns of one conversation apart, then what money goes through: the payments to the
service, the credit of a store, the video jobs of a user; and last the messages about an order, from the
cron that claims them to the text message that goes out.

Paths below are relative to `src/src/modules/` unless they begin with `src/`.

## 1. Inventory

| Component | State it keeps | Operations | Talks to | Hard behaviour | Correct means |
|---|---|---|---|---|---|
| Order status machine and transition service (`order-lifecycle/order-state.*`, `order-stock.util.ts`, `refund-tx.ts`) | `Order.status`, product stock, card totals, code counter, conversation state, status events, refund rows | `transition` (one transaction under the order's row lock) | every handler below | many callers, repeated approve/reject, partial counters | goods and money never both owed; counters exact; all or nothing |
| Refunds (`refund.service.ts`) | `OrderRefund` rows | create by hand, card number, pay, seller's answer about a held refund | transition service, chat | a sum read outside a lock, payout against approval | only the seller releases money; refunds fit the order |
| Expiry cron (`order-expiry.service.ts`) | none (reads a batch) | read overdue orders, cancel each | transition service | stale batch, overlapping passes, crash | unpaid orders settle; paid ones are left alone |
| Buyer's order page (`order-public.service.ts`) | issue rows | cancel, confirm delivery, card number, issue | transition and refund service | check before the transaction | no payment dropped by a cancellation |
| Seller's endpoints (`store/store.service.ts`) | product, card, code rows; `isMutedForHuman` | approve, reject, ship, deliver, take over, hand back | transition service, engine | decides on an order read earlier | as above |
| Receipt reattachment (`sales-agent/receipt-reattach.util.ts`) | `receiptImageKey` | attach a photo to an open order, reopen a rejected one | transition service | status read, then written by id | a closed order takes no receipt |
| Conversation engine (`sales-agent/conversation-engine.service.ts`) | conversation, cart, order creation | turns of a chat, checkout, receipt upload | all of the above | a turn's closing write against a transition | one order per conversation; the state is not rolled back |
| Conversation lock and mailbox (`sales-agent/conversation-lock.service.ts`) | Redis lock, pending list | acquire, release, enqueue, drain, look again | engine | message queued as the holder leaves; lock expiring | one turn at a time as long as the lock lasts; each message answered at most once, in order; none left behind |
| Payments (`payments/`, wallet of `usage/pricing.service.ts`) | `Payment` rows, wallet and its transactions, plan, code's use counter | begin, callback, verify with the gateway, confirm a Bazaar purchase, claim and complete, reward; debit and refund of the wallet | gateways, growth, invoices, store credit | duplicated and false callbacks, a gateway that refuses a second verification, what is counted before the transaction, crash between create and complete | booked once, only for money, for good; a reward for the first payment only |
| Store credit (`store-credit-engine/`, `sales-agent/credit.service.ts`) | `store.creditBalanceToman`, buckets per source, trial, cached balance and reservations in Redis, `billingMode` of a chat | reserve, charge, release, grant the trial, top up, debit by hand, buy a placement, reopen blocked chats | engine, payments, panel | concurrent turns, a balance cached late, a counter in Redis with a time to live, markups of different sources | every use paid in full from the cheapest money; total and buckets heal; the trial never grows; reservations belong to turns |
| Notifications (`notifications/`) | dedupe keys, daily counter, queue, log | notify on each channel, deliver, retry | order core, order operations | key set before the job; a retry of what went out; an attempt counted twice | a reminder once, the cap kept, what was claimed comes to an end |
| Order operations (`order-lifecycle/order-ops.service.ts`, `receipt-check.service.ts`, `stock-alert.service.ts`) | reminder stamps, issue rows, check results | remind, check a receipt, alert | notifications | overlapping passes; late result of an older receipt | one reminder for an order, whoever runs; a result belongs to the receipt shown |
| Token quota (`usage/`) | daily counters | check, increment, flush | chat | check then increment | quota bounded |
| Video jobs (`video-edit/`) | `videoEditJob` rows, queue, wallet | create, submit, poll, download, debit, finish, give up; the provider's webhook | wallet, provider | a webhook that revives a job given up, a worker that dies and runs again, statements without a transaction | debited once, nothing paid is lost, wallet covered by the check |
| Sales-stage reducer (`sales-agent/sales-machine/`) | none (pure) | reduce | engine | many events | stays in the reachable stages |
| Bank-card selection (`store/card-selector.service.ts`) | reads card totals | choose a card | transition service | thresholds | chosen by the totals `CardTotalExact` speaks of |
| Everything else | CRUD rows, caches, adapters, I/O | | | | see section 8 |

`PROJECT.json` lists every component with its status, and every hazard with the line where it bites.

## 2. Modules

    OrderMachine        the pure transition table                 order-state.machine.ts
      OrderState        one transition = one transaction          order-state.service.ts, refund-tx.ts,
                                                                  order-stock.util.ts
        OrderLifecycle  the handlers, the cron, crashes;          refund / expiry / public / store /
                        properties                                 engine / reattach sources
          MCOrder             instances for TLC
          OrderLifecycleProofs  theorems and proofs
            OrderTotalsProofs   theorems and proofs about its sums
    OrderPromise        what an order promises; abstract           (implemented by OrderLifecycle)
    ConversationMailbox lock, pending list, drain rounds, crashes  conversation-lock.service.ts, conversation-engine.service.ts
      MCMailbox           instances for TLC
      ConversationMailboxProofs  theorems and proofs
    Payments            callbacks, claim and completion, Bazaar,   payments.service.ts, pricing.service.ts,
                        wallet, plan, codes, rewards               discount-code.service.ts, gateways
      MCPayments          instances for TLC
      PaymentsProofs      theorems and proofs
    PaymentPromise      what a payment promises; abstract          (implemented by Payments)
    CreditPlanner       which bucket pays what; pure functions     credit-deduction.planner.ts
      CreditPlannerProofs  lemmas about them
      StoreCredit       ledger, trial, cache, reservations, chats  store-credit-deduction.service.ts, credit.service.ts,
                                                                   conversation-engine.service.ts, payments.service.ts
        MCStoreCredit       instances for TLC
        StoreCreditProofs   theorems and proofs, with CreditPlannerProofs
    VideoJobs           create, worker, webhook, wallet            video-edit.service.ts, video-edit.processor.ts,
                                                                   video-edit-webhook.service.ts
      MCVideoJobs         instances for TLC
      VideoJobsProofs     theorems and proofs
    OrderMessages       claims, keys, queue, deliveries            order-ops.service.ts, order-expiry.service.ts,
                                                                   notification.service.ts, notification-delivery.service.ts
      MCOrderMessages     instances for TLC
      OrderMessagesProofs theorems and proofs

**OrderMachine** is the table `ORDER_TRANSITIONS` and `holdsStock`.

**OrderState** has the database rows as variables and the operator `Transition(o, to, by, d)`: guards
`Commits` (table, money already paid back, a valid refund amount), then all effects of
`transitionInTx` at once, because the code does them in one transaction under `SELECT ... FOR UPDATE`
of the order: status and receipt, stock (`StockEffect`), the confirmed total
of the bank card (`CardEffect`), the discount counter (`DiscountEffect`), the conversation, the status
event and the refund rows (`RefundEffect`). `TryTransition` is how a handler calls it when a refusal
leaves everything as it was.

An approval that finds the shelf short is the exception, for there one transaction shows to others. The conditional decrement
matches no row, and so locks none (`FindShort`); the update to zero comes later and overwrites what is there by then (`ZeroStock`), and
holds the row until the commit. `approval[o]` says which products the approval of `o` has found short and which it has taken to zero; while it is under
way the order's row is locked (`UnderWay`), and so is that of its bank card, which is updated before the stock (`CardBusy`). Other orders' transitions go on beside it, unless they
need that card or a row taken to zero (`GoodsMovable`). It ends with the transition itself, or is rolled back by its 15 seconds, a deadlock or a death (`RollBack`).

**OrderLifecycle** is the handlers. A handler that checks inside the transaction is one action
(`Approve`, `Ship`, `MarkPaid`, ...). A handler that reads first and acts later is two actions, with what it
read in a slot `client[c]`: `ReadForReceipt`/`SubmitReceipt`, `ReadForReattach`/`ReattachReceipt`,
`ReadForCancel`/`BuyerCancels`, `ReadForReject`/`RejectOrder`, `ReadForRefund`/`CreateManualRefund`,
`PlaceOrder`/`PersistTransition`. Any other handler may run in between, and `Crash` may end a request
after its read. Turns of the chat hold the conversation lock (`ConvFree`). The cron is `ExpiryReads`,
`ExpireOne` and `WorkerCrash`; `batch` holds the overdue orders read by all passes that overlap.

| Variable | Code |
|---|---|
| `status`, `receipt`, `coded` | `Order.status`, `receiptImageKey` (numbered), `discountCodeId # null` |
| `refunds` | `order_refunds`, indexed in the order of creation |
| `approval` | the transaction of an approval that found the shelf short: products short, products taken to zero |
| `stock`, `cardTotal`, `redemptions` | `product.stock`, `storeBankCard.totalConfirmedToman`, `storeDiscountCode.redemptionCount` |
| `conv`, `muted` | `salesConversation.currentState`, `isMutedForHuman` |
| `event` | newest row of `order_status_events` |
| `client`, `batch` | local variables of running requests and cron passes |

**OrderPromise** is the abstract specification: an order is absent, open, held, gone or dead, and its money
is or is not paid back; accepted only while not paid back, paid back only while not accepted.
`OrderLifecycle!Promise` is the refinement mapping (`PhaseOf(status)`, `PaidBack`).

**ConversationMailbox** is one conversation and the requests that reach it. Every Redis command is a step, and what a
process knows between two commands is its place `pc[r]`:

| Variable | Code |
|---|---|
| `lock` | `lock:conv:<id>`; the token is named by the request that set it |
| `pending` | the list `conv:pending:<id>` |
| `pc`, `round`, `batch` | where `handleMessage` / `runExclusive` / `drainPendingWhileHolding` / `finishConversationTurn` is, the rounds it used, the drained messages it is answering |
| `arrived`, `log` | history: messages in the order of `RPUSH`, messages in the order of their answers |
| `overran`, `late` | history: requests at work whose lock ran out under them; waiting messages answered by such a request |

A message tries the lock (`Begin`), or is `Refused` and enqueues itself in a later step (`Enqueue`, with `LTRIM`). An action
(button, receipt, checkout) waits for the lock and gives up (`GiveUp`). The holder runs its turn, drains and answers
until it finds nothing or has no rounds left, releases, counts, and comes back for the lock if something has come
meanwhile (`ReleaseToCount`, `Count`, `Reacquire`). A turn may throw, a process may die anywhere, and the list expires when nobody adds to it.
The key expires at any time, under a dead holder or a live one (`LockExpires`): it lives 60 s and is not renewed, while a holder may run several turns of up to
45 s. Such a holder goes on; `overran` remembers it until it gives the lock up or dies.

**Payments** is the rows of the users' payments, and the callbacks and confirmations that work on them. A request `r` goes
from read to read and from transaction to transaction; what it has read is in its slot `request[r]`, and another
request of the same payment, or of another payment of the same user, may run in between:

    ReadForVerify -> GatewayConfirms -> CountPrior -> Complete | LosesClaim -> IssueRewards
                  -> GatewayRefuses  -> MarkRefused
    ReadForConfirm -> ConfirmCreates -> CountPrior -> ...           (Bazaar)

| Variable | Code |
|---|---|
| `status` | `Payment.status`; `NONE` before the row exists |
| `money` | outside: was it paid, did the gateway confirm it to us |
| `applied` | history: how often the transaction of the completion booked the payment |
| `wallet`, `ledger` | `Wallet.balanceToman`, and the sum of its `walletTransaction` rows |
| `plan` | the user's `Subscription`: the payment it was bought with, pay-as-you-go, or none |
| `used`, `rewards` | `DiscountCode.usedCount`; pairs of reward codes issued for a referred user |
| `request`, `refund` | local variables of running requests, and of the admin's refund |

The gateway is external. It confirms what was paid, and it may refuse anything: the comment in `verify` says that it
refuses what it confirmed before, and an HTTP error is taken for a refusal. With `Truthful = FALSE` a callback may
report success or failure whatever happened, since it is a GET request that any browser may repeat.
`Complete` is the whole transaction: claim, wallet and its transaction, plan, code. The reward comes after the commit and may be lost
(`Stops`).

**PaymentPromise** is the abstract specification: the fate of a payment is open, then given or refused once and for good, and
given only for money that was vouched for. `Payments!Promise` is the refinement mapping: `FateOf(status)`, `Confirmed`, `applied`.

**CreditPlanner** says which bucket pays what. The source walks over the sorted buckets and carries along what is left; here
what is left for a bucket is what those before it do not cover, so that no recursion is needed and `StoreCredit` can be proved
about. The quotients of the source are floating-point numbers; here they are exact, counted in parts of a toman.
`BucketCharges` is `planDeduction`, `PriceCharges` is `planFixedPriceDebit`, `AdminCharges` the debit by hand.

**StoreCredit** is the credit of one store. An operation on the ledger is one transaction under the row lock of the store, and so
one step; every command to Redis and every read outside such a transaction is a step of its own:

    BeginTurn -> (FillCache) -> Reserve -> Charge -> Recache -> ... -> Release -> (ResetCounter)
    BeginVoice -> (FillForVoice) -> Charge -> Record            BeginTool -> Charge -> Record
    StartChat -> (GrantTrial) -> DecideBilling -> CreateChat
    Topup -> Invalidate -> ClearForReopening -> ReadForReopening -> ReopenChats

| Variable | Code |
|---|---|
| `balance`, `bucket`, `held` | `store.creditBalanceToman`; balances of `store_credit_buckets`; sources that have a row |
| `trial`, `trialPhase` | `trialCreditRemainingToman`; `trialStartedAt` and `trialEndsAt` |
| `cache`, `resv` | the Redis keys `store:bal` and `store:resv` |
| `billing` | `salesConversation.billingMode` |
| `pc`, `seen` | where a chat or tool is, and the spendable balance it holds in a local variable |
| `desk` | what a payment, an administrator or the panel still has to do after the transaction |
| `trialSpent`, `orphans` | history: trial taken by usage events, reservations of dead turns |

**VideoJobs** is the jobs of one user. `CreateJob` is the transaction under the wallet's row lock; everything else is a row of
statements, each its own step, between any two of which the process may die (`WorkerDies`, `RecoveryDies`) or a statement fail
(`Throws`, `RecoveryThrows`). The queue hands a dead worker's job out once more.

Each job has its own estimate (model and duration), and the check counts all jobs in progress at the estimate of the new one (`Available`). What is
debited is what the provider reports, which may be nothing (`CostsOf`: the source takes a missing cost for nought, except of VEO and RUNWAY, whose cost it
computes from the model). `debitWallet` refuses nothing but a user without a wallet, whom `createJob` has sent away, and no code deletes a wallet; a balance too small goes below zero (`Pays`).
So a delivered video may have cost nothing, and no property says that it was paid for.

| Variable | Code |
|---|---|
| `status`, `result`, `task` | `videoEditJob.status`, `resultVideoKey # null`, `kieTaskId # null` |
| `bull`, `stalled` | the job in the queue, and whether it was handed out again |
| `worker` | where `handleRender` is |
| `at`, `of` | where a webhook request is, and the job it recovers |
| `wallet`, `recent` | `wallet.balanceToman`; jobs of the last 24 hours |
| `provider` | outside: what became of the task |
| `debits`, `mishaps`, `late`, `newest`, `excess`, `spent` | history: debits, deaths and failed statements of each job; of all jobs with recoveries; the estimate of the newest job, what debits took above it, what the rest of the application took |

**OrderMessages** is the messages about orders to one buyer. A cron pass reads what is due (`ReadDue`), claims each in its row
(`Claim`) and calls `notifyBuyer`, which for each channel sets a key (`SetKey`) and adds a job (`AddJob`); requests tell news without
a claim (`Tell`). A job writes into the conversation (`WriteChat`) or counts against the daily cap (`Count`), and then sends
(`Send`, `SendFails`).

| Variable | Code |
|---|---|
| `due`, `marked` | the order or refund still waits for the reminder; `paymentReminderSentAt` and its like |
| `batch`, `about`, `todo`, `at` | local variables and place of cron passes and requests |
| `key` | `notif:` keys in Redis |
| `copies`, `place`, `tries`, `stalled` | the queue: jobs added, where each is, its failed attempts, whether handed out again |
| `count` | `notif:smscap` of the buyer |
| `texts`, `chats` | outside: text messages that reached the buyer; times a reminder was written into the conversation |
| `failed`, `lost`, `told`, `mishaps` | history |

## 3. Runs

| Run | Instance | Shows |
|---|---|---|
| `one_order` | 1 order, 1 request, 3 refund rows, 2 receipt images, 1 manual refund, takeover by the seller, fairness | types, `FellThroughClaimsWithinTotal`, the refinement `KeepsPromise`, the liveness `OverdueOrderSettles` |
| `two_requests` | 1 order, 2 requests at a time, 2 refund rows | `NeverGoodsAndMoney`, `CancelledPaymentIsClaimed`, `OnlySellerReleasesMoney`, `RedemptionsExact` with stale reads of two parties |
| `two_orders` | 2 orders that may share card and code, two items each of a product with three and one each of a product with enough | `StockNeverLost`, `RedemptionsWithinCap`, `RedemptionsNeverOverCount` where the shelf falls short statement by statement and the cap is full; `StockExact`, `CardTotalExact` where they do not |
| `mailbox` | 3 messages and 1 action, a list of 2, 3 rounds, crashes, a lock that expires under live holders, fairness | `OneTurnAtATime`, `AnsweredOnce`, `WaitedInOrder`, `AttendedUntilGone`, the liveness `AttendedMessageLeaves` |
| `payments` | 1 referred user, 2 plans on one code with one use, 1 Bazaar charge, 1 store charge, 2 requests at a time, false callbacks, debits, refunds, crashes | `AppliedOnce`, `OnlyPaidIsCompleted`, the refinement `SettlesOnce`, the action property `RewardGoesToFirst` |
| `store_credit` | 1 chat, 1 tool, buckets of three markups, a trial of 1, top-ups, debits by hand, a purchase | `LedgerHeals`, `UseIsPaidCheapestFirst`, `PurchaseIsPaidInFull`, `NoNeedlessDebt` |
| `store_turns` | 2 chats with turns and voice messages at once, a trial of 3, expiring cache and reservations, one turn that dies | the action property `TrialNeverGrows`, `ReservedForSomebody` |
| `video_jobs` | a dear job that is recoverable and a cheap one that is not, 1 webhook request at a time, 1 mishap for each job, fairness | `PaidOnceButForMishaps`, `PaidIsDelivered`, `OverdraftBounded`, the liveness `JobSettles` |
| `order_messages` | 2 overlapping passes on one reminder, 1 request that places an order, a cap of 1, 2 tries, 2 mishaps, fairness | `RemindedOnce`, `SmsWithinCap`, the liveness `ReminderComesThrough` |
| `expiry_race`, `verify_race`, `credit_floor` | small instances, each with one property | the findings of section 6 |

Bounds and why they are enough. An order's total is 1 or 2 (a refund can take all of it or a part). Two
orders share one counted product, one product that is not counted, one card and one code: every counter
is touched by two owners, the least that can get in each other's way. Two items for each of two orders on a shelf of three make the second approval
fall short by less than it wants, so that its zero meets a shelf that is not empty, and a return of the first between its two statements. `MaxRefunds` rows allow two
rejections and a manual refund of one order; `MaxReceipts` images allow a second receipt after a
rejection; `MaxManual` bounds the refunds made by hand; `HumanOrders` bounds the orders the seller takes
over. A step that would need a row beyond the bound is not taken. Two requests at a time are enough for one
stale read against one writer; the cron, the seller's one-step handlers and the payouts run besides.
Symmetry is used for requests and for orders that differ in nothing, never in the run with liveness.

In the mailbox a list of 2 overflows when the third message comes while two wait, so that `LTRIM` acts. Three rounds, for the source's five
(`CONVERSATION_DRAIN_MAX_ROUNDS`), let a holder drain, return for a message that came late (which costs it two, the return and the batch) and be
exhausted; what more rounds repeat adds no new case. The theorems hold for any number.

In the payments one user is enough, for nothing but a code is shared between users, and a code is shared here by two payments of one.
Two plans of different prices and a wallet charge make every pair of kinds meet in two requests: two callbacks of one
payment, two first payments, a first charge against a plan. `WalletFloor` is the bound of the
debits, which the code does not have: a debit of 1 stops at -1, so that a debt and the refund of a debt are reached. The two requests are
symmetric.

In the store's credit SnappPay is dearer than the other sources and a buyer's use dearer than a seller's, so a use may
cross from a cheap bucket into a dear one, and the trial into both; amounts of 1 to 3 make each of these crossings leave a remainder.
`Unit` is 6, the least number divisible by every markup. `MaxBalance` and `MaxDebt` bound the top-ups and the charges. Balances and turns are
looked at in two runs, since what is charged does not depend on how many wait, and the reservations do not on the buckets: `store_credit`
has one chat and one tool with all buckets, `store_turns` two chats (symmetric) with one source. Two chats make a first turn's
answer race another's reservation, two first chats race for the trial, and one dead turn leaves a reservation.

Two video jobs are what `MaxConcurrent` lets run at a time; one has a webhook and one does not. The first is estimated at 2, the second at 1
(`Prices`), and a job costs 3, or nothing if it has no webhook. A wallet of 3 admits the cheap job beside the dear one and not the other way round, one of 4 both ways; both
pay for them with more than they have. A day's limit of one makes the second job wait for the first to age. `MaxMishaps` gives each job one death or failed
statement, `MaxLate` lets no recovery begin after two of these or of earlier recoveries; `MaxSpent` is the one toman the rest of the application takes.

For the messages two passes are the least that overlap. The reminder uses both channels and the news only the text message, so both
compete for the cap of one. `ShortKeys` are the keys that expire in a run (the one of the reminder in the chat, `SomeKeys`), `Copies` the jobs there may be
(`SomeCopies`), `MaxNews` how often news is told: twice, so that the second meets the key of the first; `MaxMishaps` the deaths and failed enqueues: two, so that a worker may die twice in one
job or a sender and a worker once each. `MaxTries` is two for the code's three: a second try is what a retry can be.

Deadlock is checked in the passing runs of the orders, of the payments and of the credit. It is not in `mailbox`, `video_jobs` and `order_messages`, where
finitely many requests, jobs and messages come to their end.

## 4. Fairness

`FairSpec` assumes weak fairness of `ExpiryReads` (the job is scheduled every few minutes for ever) and,
for every order, strong fairness of `ExpireOne` (a worker may die in a pass, and the batch with it, but not in
every pass before it comes to that order), and weak fairness of `ApprovalFails` (a transaction under way is over after 15 seconds). Nothing is assumed of buyers and sellers: they may stop at any time.

The mailbox's `FairSpec` assumes weak fairness of `GoesOn(r)` (a process that is alive and has begun executes its next
command; a dead one has no step) and of `LockExpires` (Redis deletes a key whose time to live is over). A request
need not come, and nothing forces a turn to succeed or to throw.

The video jobs' `FairSpec` assumes weak fairness of `Enqueue(j)` and `RunStep(j)` for each job and of `CallStep(h)` for each webhook request: a
process that runs a statement comes to its end, and polling is bounded in the code, after which it throws. No webhook need come and no provider
need answer.

The messages' `FairSpec` assumes weak fairness of `NotifyStep(s)` for each sender and of `Deliver(j)` for each job, that is of running
processes and of the queue's worker. Nothing makes the cron run again, a key expire or a process die; a send may fail each time.

The payments and the store's credit have safety properties only: nothing retries a callback, a turn or a purchase, so that nothing there must happen.

## 5. Proofs

`OrderLifecycleProofs` proves, for any number of orders, requests, refund rows, products and cards, any
prices and any cap, from the assumptions on the constants in `OrderState` and `OrderLifecycle` alone:

- `TypeCorrect`: `Spec => []TypeOK`. The interesting part is that a refund amount inserted by a transition is
  positive, which needs the guard in `Commits`, and that the clamps keep counters natural.
- `NoGoodsWithMoney`: `Spec => []NeverGoodsAndMoney`. Together with the types the invariant is inductive: an
  approval is refused if the refund was paid, else it cancels what is left; `SHIPPED` and
  `DELIVERED` are reached from statuses that hold goods only; a new refund of a transition belongs to an
  order that no longer holds goods; manual refunds have another reason; and no handler revives a
  cancelled row.
- `MoneyReleasedBySeller`: `Spec => OnlySellerReleasesMoney`, an action property from the same case split. A refund that becomes payable in a step was payable before, or was
  held and is freed by the seller's answer, or is inserted by a rejection whose request says that the money was received (`SaysReceivedNow`). A rejection that says nothing of it can only insert a held one.
- `CapHolds`: `Spec => []RedemptionsWithinCap`.
- `NoOverCount`: `Spec => []RedemptionsNeverOverCount`, and `CountExact`: `Spec => []RedemptionsExact` if there are finitely many orders and the
  cap is no smaller than their number. Both rest on `LiveSteps`: a step leaves the orders that use the code and the counter as they are, adds one order
  and consumes, or takes one away and releases; an order that is not placed does not carry the code (`UnplacedUncoded`).
- `PromiseKept`: `Spec => KeepsPromise`, the refinement. It needs `NeverGoodsAndMoney` (a payout happens only while
  the order is not accepted) and one more invariant, `Placed`: refunds and requests are only about orders that
  exist, so that nothing is paid back before an order is placed.

The proofs rest on two lemmas about steps: `StepCases` reduces every action to a transition, a new order, a refund
made or moved by hand, or a step that leaves these tables alone; `TransitionRefunds` says what a transition does
to one refund row.

`OrderTotalsProofs` proves what the sums over orders and refund rows say. The community modules define a sum by recursion on the set;
the induction over it is written without an operator parameter: the subsets of a finite set are well-founded by inclusion, so a set of
counterexamples would have a smallest one (`SmallestSubset`), and taking one element out of that one contradicts it (`SumTakeOut`,
`SumWithOneMore`, `SumOfPart`). With that:

- `CardTotalsExact`: `Spec => []CardTotalExact`, for any number of orders, also infinitely many: a sum is over
  the orders that hold goods, and these are finitely many at any time (`FewHolders`, inductive because a transition takes one order in or out).
- `NothingLost`: `Spec => []StockNeverLost`, likewise. What was found short or taken to zero is less than was ordered until the approval ends (`StillShort`), for a product whose buyers
  are all shown one card: who gives back must have that card, and it is locked. So the zero takes away less than the order comes to hold. It rests on `ApprovalsReal`: what is noted
  of an approval is about an order that may be approved and about items of its cart. With different cards, or none, the zero does wipe out what was given back, and nothing is claimed.
- `StockCountedExactly`: `Spec => []StockExact` if there are finitely many orders; the precondition, that the shelf had enough for all
  of them, speaks of the sum over all orders. No approval finds such a product short (`EnoughIsEnough`), because the goods held are part of what all ordered (`SumOfPart`).
- `FellThroughWithinTotal`: `Spec => []FellThroughClaimsWithinTotal`. The refund a transition inserts is no more than what all live refunds leave over, and
  those of rejections and cancellations are some of them; refunds by hand only make less be left.
- `NoPaymentDropped`: `Spec => CancelledPaymentIsClaimed`, an action property: the step into `CANCELLED` inserts exactly what the live refunds leave of the total, or
  they claim all of it already.

`ConversationMailboxProofs` proves, for any finite or infinite set of requests, any cap of the list and any number of rounds:

- `MailboxTypes`: `Spec => []TypeOK`; `Newest` keeps the list within its cap (`NewestParts`).
- `TurnsApart`: `Spec => []OneTurnAtATime`, whatever the lock does. The inductive invariant is that whoever
  is in a place between acquiring and releasing owns the lock or has had it run out (`HolderHasLock`): a request has left these places
  when it deletes the key, and the key of another only Redis deletes.
- `NoSecondAnswer`: `Spec => []AnsweredOnce`. A message is in at most one place: at its own
  request, in the list once, in one batch once, or in the log once (`Apart`). So even overlapping turns
  answer nothing twice.
- `AnswersInOrder`: `Spec => []WaitedInOrder`, which speaks of the messages not answered by an overrun. What was answered arrived before what is in the batch of a holder, and that before
  what is in the list, each in its order (`Ordered`); only one such batch is being answered, because its request holds the lock.
- `NoMessageLeftBehind`: `Spec => AttendedUntilGone`, an action property, whatever the lock does. A request that came back too late for the lock may go
  although messages wait, because the lock names a request that is at work, and so has yet to look, or is dead (`LockHasHolder`).

`PaymentsProofs` proves, for any sets of payments, users, codes and requests, any prices and any floor, from
`PaymentsAssumption`:

- `PaymentTypes`: `Spec => []TypeOK`. The wallet is an integer, a refund's amount a natural number.
- `BookedOnce`: `Spec => []AppliedOnce`. It is inductive with the types: the claim and the booking are one step, and
  nothing leaves `COMPLETED`.
- `OnlyForMoney`: `Spec => []OnlyPaidIsCompleted`. The strengthening, `PaidUnderway`, says what a request's place tells of the
  money: whoever is past the gateway, or past the creation of a Bazaar payment, has confirmed money behind it, a request that asks
  the gateway is not about a Bazaar payment, and one that validates with Bazaar is.
- `SettledOnce`: `Spec => SettlesOnce`, the refinement of `PaymentPromise`. It needs `PaidUnderway` as well: a completion is a step of the promise only because
  the money behind it is confirmed; all other steps fail an open payment, vouch for one, or stutter.
- `RewardsForTheFirst`: `Spec => RewardGoesToFirst`, an action property. That no request becomes one that may bring a reward once a payment of the user is completed
  follows from the count alone. That rewards stay within paid plans needs an invariant: `Accounted` counts the rewards issued and the requests
  that are about to issue one against the user's completed plans; it rests on the finiteness of the sets counted and on
  how one more element changes a cardinality.

`StoreCreditProofs` proves, for any number of chats and tools, any markups, prices and estimates, and any bounds:

- `TypeCorrect`: `Spec => []TypeOK`. The trial stays between zero and what was given because `TrialCharge` is capped by what remains.
- `LedgerAlwaysHeals`: `Spec => LedgerHeals`. Every change of the credit adds to the total what it adds to the healed buckets: the lemma `Healed` says that the
  healed buckets add up to the total whatever they were before, the others that charges and credits change both sums alike.
- `TrialIsGivenAtTheStart`: `Spec => TrialNeverGrows`, an action property. What the trial has paid, what is left of it, and a whole trial for each chat that is about to give it never
  grow together once it has begun (`Given`): a grant spends its chat's share, and a use moves from what is left to what was paid.
- `ReservationsBelongToTurns`: `Spec => []ReservedForSomebody`, with cardinalities of the turns that hold a reservation. An expiry of the counter forgets what
  running turns hold, which only lowers it.
- `UsesArePaidCheapestFirst`: `Spec => []UseIsPaidCheapestFirst`, `PurchasesArePaidInFull`: `Spec => []PurchaseIsPaidInFull` and `DebtIsNeverNeedless`:
  `Spec => NoNeedlessDebt`, for any markups that divide the unit. `CreditPlannerProofs` has one lemma for the walks of all three
  planners: whoever takes from each source in a strict order what is left for it, or all it covers, takes from all of them what was due and less than one
  toman's worth beyond it, and nothing from those after the last that is needed (`DueIsFilled`, `MoreThanAllDue`, `NothingDue`; the
  first source that covers what is left for it exists because there are finitely many). `TakesWhatIsLeft` says that a planner's rounding up to whole toman fits it.
  So a debit makes a debt only when the money of every bucket is used (`Needed`). `DebtIsNeverNeedless` needs an inductive invariant (`DebtInv`): the total and the buckets
  differ only while a store has nothing in its buckets, so that healing them puts none into debt.

`VideoJobsProofs` proves, for any number of jobs and webhook requests, any prices and any number of mishaps:

- `TypeCorrect`: `Spec => []TypeOK`.
- `DeliveredOncePaid`: `Spec => []PaidIsDelivered`, inductive with the types: whoever leaves the place after the debit has stored the result, has failed or has died, and nothing takes a result back (`StaysKept`).
- `PaidOnce`: `Spec => []PaidOnceButForMishaps`. Whoever may still pay for a job holds a token: the run to come or before its debit, the failed row
  that may be claimed, the recovery before its debit. Payments and tokens together are at most one and the mishaps (`PaidInv`); claiming hands the row's token to the recovery.
- `OverdrawnWithinBounds`: `Spec => []OverdraftBounded`. The check of `createJob` counts jobs by their status, but a run may be on its way when its job is not in
  progress any more (`Orphaned`); these are no more than recoveries and mishaps so far (`LateFit`). With that the wallet, with what costs exceeded
  the newest estimate by and one cost for each late payment added, covers the newest estimate once for everything still to be paid (`Solvent`). The check re-establishes it at every
  new job whatever the estimates before were; it does not cover the jobs in progress at their own estimates.

`OrderMessagesProofs` proves, for any number of passes, requests, messages, jobs and tries, and any cap:

- `TypeCorrect`: `Spec => []TypeOK`.
- `CapHolds`: `Spec => []SmsWithinCap`. A delivery counts itself before it sends, and only what was counted within the cap is sent: the texts
  that went out and those about to go out (`Texting`) are together no more than the count, nor than the cap (`CapInv`).
- `WrittenOnce`: `Spec => []RemindedOnce`. The claim is a conditional update, so a reminder that nobody has claimed was not begun (`Fresh`);
  from then on what the buyer has in the chat, the sender that may still queue the job and the job that may still send are together no more than one and
  the failed deliveries (`Once`).

Only model-checked: liveness (`OverdueOrderSettles`, `AttendedMessageLeaves`, `JobSettles`, `ReminderComesThrough`), whose fairness is
stated with ENABLED, which the prover does not handle; and the three properties that the runs find violated. Every safety invariant and every
action property of a passing run is stated by a theorem.

## 6. Findings

Each is a run that is expected to fail, and TLC's trace is the scenario.

1. `expiry_race`: `expireOverdue` cancels what it read as unpaid, but an order approved or paid since may be
   cancelled too, since the machine permits `APPROVED -> CANCELLED` and `RECEIPT_SUBMITTED -> CANCELLED`. The
   comment at the call and an end-to-end test say the transition is refused there.
2. `verify_race`: two callbacks of one paid payment. The gateway confirms the first and refuses the second as already verified; the
   second marks the payment `FAILED`, for it is not `COMPLETED` yet; the first finds nothing to claim, shows the page of success and
   books nothing. The comment says that a payment another callback verified is not to be marked; the condition protects it
   only once it is claimed.
3. `credit_floor`: a turn reads the store, another turn is charged, caches the new balance and gives back its reservation, and only then does the first
   write what it read into the cache. Now neither the balance nor the counter knows of the charge, and turns that cost no more than the estimate take the store
   below the floor the reservations are there to keep.

Some further lines of the repository promise more than the models show to hold. They are not runs of their own; what does hold in each case is a property, and the rest is seen in
the model as described:

- `order-lifecycle/refund-tx.ts:5` says that a refund never exceeds what was paid. `createManual` sums the refunds without locking the order, so two at a time,
  or one and a cancellation, may exceed it. `FellThroughClaimsWithinTotal` holds of the claims of rejections and cancellations alone.
- `sales-agent/receipt-reattach.util.ts:10-12` says that only an open order takes a receipt. `ReattachReceipt` writes the image by the order's id alone, whatever has become of the order since it was read.
- `order-lifecycle/order-state.service.ts:227-228` calls the transitions symmetric for the code. An order that leaves `REJECTED` at the cap consumes no use, but releases one when
  it falls through again. `RedemptionsExact` holds below the cap, `RedemptionsNeverOverCount` always; the undercount at the cap is not excluded.
- `order-lifecycle/order-stock.util.ts:8-13` says that a shortage takes to zero what was left. The zero overwrites whatever is there when it is written: for orders of different cards, or without a card, a
  return that commits in between is lost. `StockNeverLost` holds for products whose buyers are shown one card.
- `sales-agent/conversation-engine.service.ts:5170-5171` says that queued messages are processed when the running turn ends. A message that is refused the lock and
  enqueued after the holder has counted waits until the buyer writes again; `AttendedUntilGone` and `AttendedMessageLeaves` leave it out.
- `sales-agent/conversation-lock.service.ts:11-12` names two turns at once as what the lock is for. It lives 60 s unrenewed, so a holder of several turns overlaps with the next holder. `OneTurnAtATime` and
  `WaitedInOrder` say that nothing else lets turns overlap or answers change order.
- `payments/payments.service.ts:340-341` means the retry of a Bazaar confirmation to be harmless. After a stop between creating the row and completing it, the retry finds the row and answers with success,
  and the purchase is never credited.
- `payments/payments.service.ts:611` gives the reward for the first successful payment only. Two first plans of a referred user, completed at the same time, both bring it. `RewardGoesToFirst` says that
  only a callback that counted before the first completion can do so.
- `sales-agent/credit.service.ts:27-29` gives the trial once. Two first chats both find none and write it, so what the first has used is given again. `TrialNeverGrows` says that only a chat that
  looked before it began can do so.
- `video-edit/video-edit.service.ts:383-386` reserves for the jobs in progress the estimate of the new job. Beside a dear job a cheap one is admitted although the dear one is not covered: `OverdraftBounded` counts from
  the newest estimate for that reason.

Seen as well, with no line to the contrary or as a matter of choice:

- Payments: `refundWallet` sets the balance to zero after a separate read: a charge in between is lost from `wallet` while `ledger` has it.
  With two pending plans the later completion may be of the cheaper plan, and a code may be used once more than `maxUses`, as both are
  checked when the payment is begun.
- Store credit: a purchase does not clear the cached balance. Any
  reservation renews the counter's time to live (`store-credit-engine/sales-ops.constants.ts:64`), so a busy store never sheds the reservation of a dead turn. The counter may also be
  below what live turns hold, after it has expired under them: `ReservedForSomebody` is the upper bound only. A chat
  whose mode was decided before a top-up and whose row is created after it stays blocked, since the reopening does not find it.
- Video jobs: a notification that fails after the success writes `FAILED` over it, though the video stays. A job whose enqueuing failed stays `PENDING` and counts against
  the user's limit for ever, and so does one whose worker died twice; `JobSettles` excuses both as mishaps. A run that comes again does not look at the status, and pays again when its process died after the debit,
  which `PaidOnceButForMishaps` allows. The estimate of the check leaves out the markup.
- Messages: the key is set before the job is added, so that an enqueuing that fails silences news for ten minutes, and news that becomes true again within ten
  minutes (a second approval) is not told. A reminder is claimed before it is told; a process that dies in between loses it. Failed attempts use up the daily cap, which is
  kept per phone number: two buyers of one number share it.

## 7. Plan

1. Orders: `OrderMachine`, `OrderState`, `OrderPromise`, `OrderLifecycle`, proofs. *Done.*
2. `ConversationMailbox`: lock, pending list, drain rounds, proofs. *Done.* To come: the conversation's version and the
   turn's closing write, composed with the transitions of an order.
3. `Payments`: callbacks, the compare-and-set completion, Bazaar, the wallet, codes and rewards, `PaymentPromise`, proofs. *Done.*
4. `CreditPlanner`, `StoreCredit`: planner, ledger, trial, cache, reservations, proofs. *Done.*
5. `VideoJobs`: worker, webhook, wallet, proofs. *Done.*
6. `OrderMessages`: claims, keys, queue, cap. *Done.* To come: the seller's messages, issue reports and receipt checks.
7. The token quota, the sales-stage reducer, the selection of bank cards.

## 8. What is not modelled, and why

In the order model: time (any unpaid order may be overdue), texts, amounts in digits, encryption of card numbers,
carrier and tracking codes, the side effects after a commit (notifications, stock alerts, receipt check), other turns of the
chat that move the conversation away, and the version of the conversation, which status transitions do not count up, so that
the check of the turn's closing write passes whatever they did (`PersistTransition`). The lock is assumed to be held for
the whole turn. Transactions are taken to be atomic and serialised
by the order's row lock, except that of an approval that finds the shelf short. There the updates before the first shortage (the card, and products there is enough of) take effect with the commit, as
their rows are locked and nobody else sees them.

In the mailbox: what a turn does and says, the sleep between an action's attempts, and clocks: the key may
expire at any time, and the list expires only while no request runs, since a request
takes less than its ten minutes.

In the payments: amounts and upgrade credit (a price is only compared), the minimum of a charge, invoices, notifications, caches, the
signup bonus, a pay-as-you-go plan bought as a plan, the rows of the store's credit (`StoreCredit` has them), expiry and owner of a code, the end of
a period except as the step `PlanRunsOut`. A transaction is atomic; the claim inside it is a conditional update of one row.

In the store's credit: usage events, statistics and alerts; what `reserveTurn` does when Redis fails; markups that are no whole numbers and the
rounding of floating-point quotients, which are exact here; rules that give a store a trial of another length.

In the video jobs: what a job is made from, the enhancement of prompts, the kinds of jobs that are not rendered by the worker, listing and deletion, the
prices; a day passes for each job on its own (`Ages`). The provider is external: it may settle either way, or never.

In the messages: time of day and quiet hours, which only delay a job; the change of day, which starts the cap anew; messages to the seller and
back-in-stock alerts; the log of deliveries, which nothing reads; receipt checks and issue reports.

Outside: streaming of model answers, adapters of messengers, media pipelines, authentication, CRUD
administration, content and reporting, infrastructure clients. Their state is either a plain row or outside the
service.
