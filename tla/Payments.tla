------------------------------ MODULE Payments ------------------------------
(***************************************************************************)
(* Payments to the service itself: a plan, a charge of the user's wallet,  *)
(* a charge of a store's credit (payments.service.ts), with the callbacks  *)
(* of the gateways, purchases confirmed by Bazaar's application, and the    *)
(* wallet's other writers (pricing.service.ts, admin.service.ts).          *)
(* What is read before a transaction is kept in a request's slot.          *)
(***************************************************************************)
EXTENDS Integers, FiniteSets

CONSTANTS
    Subscriptions, WalletTopups, StoreTopups,  \* payments, by kind
    Bazaar,        \* the wallet charges bought in Bazaar's application
    Users,
    Owner,         \* payment -> user
    Price,         \* subscription payment -> monthly price of its plan
    Worth,         \* wallet payment -> what the wallet is charged
    Codes, NoCode,
    CodeOf,        \* subscription payment -> discount code or NoCode
    MaxUses,       \* code -> DiscountCode.maxUses
    Referred,      \* users with referredByUserId
    Requests,      \* callbacks and confirmations that run at the same time
    NoPlan, Payg, NoPayment,
    Truthful,      \* callbacks report what happened (they are URLs anyone may load)
    WalletFloor    \* bound: debits stop here (the code has no floor)

Payments == Subscriptions \cup WalletTopups \cup StoreTopups

ASSUME PaymentsAssumption ==
    /\ Subscriptions \cap WalletTopups = {}
    /\ Subscriptions \cap StoreTopups = {}
    /\ WalletTopups \cap StoreTopups = {}
    /\ Bazaar \subseteq WalletTopups
    /\ Owner \in [Payments -> Users]
    /\ Price \in [Subscriptions -> Nat]
    /\ Worth \in [WalletTopups -> Nat]
    /\ NoCode \notin Codes
    /\ CodeOf \in [Subscriptions -> Codes \cup {NoCode}]
    /\ MaxUses \in [Codes -> Nat]
    /\ Referred \subseteq Users
    /\ NoPayment \notin Payments
    /\ NoPlan # Payg /\ {NoPlan, Payg} \cap Subscriptions = {}
    /\ Truthful \in BOOLEAN
    /\ WalletFloor \in Int

VARIABLES
    status,    \* Payment.status; NONE before the row is inserted
    money,     \* at the gateway or at Bazaar: NO, PAID, VERIFIED by us
    applied,   \* how often a payment's effect was booked
    wallet,    \* Wallet.balanceToman
    ledger,    \* sum of the wallet's transactions, CREDIT less DEBIT
    plan,      \* the user's subscription: the payment it came from, or a plan
    used,      \* DiscountCode.usedCount
    rewards,   \* pairs of referral codes issued for a referred user
    request,   \* slots of running callbacks and confirmations
    refund     \* the admin's refund of a wallet, between its steps

rows == <<status, applied, wallet, ledger, plan, used>>
vars == <<rows, money, rewards, request, refund>>

Statuses == {"NONE", "PENDING", "COMPLETED", "FAILED"}
Idle     == [at |-> "idle", pay |-> NoPayment, first |-> FALSE]
Places   == {"idle", "validate", "ask", "refused", "count", "complete", "reward"}

TypeOK ==
    /\ status \in [Payments -> Statuses]
    /\ money \in [Payments -> {"NO", "PAID", "VERIFIED"}]
    /\ applied \in [Payments -> Nat]
    /\ wallet \in [Users -> Int]
    /\ ledger \in [Users -> Int]
    /\ plan \in [Users -> Subscriptions \cup {NoPlan, Payg}]
    /\ used \in [Codes -> Nat]
    /\ rewards \in [Users -> Nat]
    /\ request \in [Requests -> [at : Places, pay : Payments \cup {NoPayment}, first : BOOLEAN]]
    /\ refund \in [Users -> [at : {"idle", "zero", "free"}, amount : Nat]]

Init ==
    /\ status = [p \in Payments |-> "NONE"]
    /\ money = [p \in Payments |-> "NO"]
    /\ applied = [p \in Payments |-> 0]
    /\ wallet = [u \in Users |-> 0]
    /\ ledger = [u \in Users |-> 0]
    /\ plan = [u \in Users |-> NoPlan]
    /\ used = [c \in Codes |-> 0]
    /\ rewards = [u \in Users |-> 0]
    /\ request = [r \in Requests |-> Idle]
    /\ refund = [u \in Users |-> [at |-> "idle", amount |-> 0]]

\* Request r begins with payment p, goes on with it, ends.
Begins(r, p, to) ==
    /\ request[r] = Idle
    /\ request' = [request EXCEPT ![r] = [at |-> to, pay |-> p, first |-> FALSE]]

At(r, p, place) == request[r].at = place /\ request[r].pay = p

Goes(r, p, from, to) ==
    /\ At(r, p, from)
    /\ request' = [request EXCEPT ![r].at = to]

Ends(r, p, from) ==
    /\ At(r, p, from)
    /\ request' = [request EXCEPT ![r] = Idle]

-----------------------------------------------------------------------------
(* A payment is begun.                                                     *)

\* Only a plan dearer than the running one is sold.
Upward(p) ==
    LET current == plan[Owner[p]]
    IN current \in Subscriptions => Price[p] > Price[current]

CodeValid(p) == CodeOf[p] # NoCode => used[CodeOf[p]] < MaxUses[CodeOf[p]]

Initiate(p) ==
    /\ p \notin Bazaar
    /\ status[p] = "NONE"
    /\ p \in Subscriptions => Upward(p) /\ CodeValid(p)
    /\ status' = [status EXCEPT ![p] = "PENDING"]
    /\ UNCHANGED <<applied, wallet, ledger, plan, used, money, rewards, request, refund>>

\* External: the buyer pays at the gateway, or in Bazaar's application.
BuyerPays(p) ==
    /\ money[p] = "NO"
    /\ p \in Bazaar \/ status[p] # "NONE"
    /\ money' = [money EXCEPT ![p] = "PAID"]
    /\ UNCHANGED <<rows, rewards, request, refund>>

-----------------------------------------------------------------------------
(* The gateway's callback.                                                 *)

\* Mutant: a failure is written over whatever the payment is.
MarkFailedAnyhow(p) == status' = [status EXCEPT ![p] = "FAILED"]

\* updateMany where PENDING
MarkFailed(p) ==
    status' = IF status[p] = "PENDING" THEN [status EXCEPT ![p] = "FAILED"] ELSE status

FailureCallback(p) ==
    /\ p \notin Bazaar
    /\ status[p] # "NONE"
    /\ Truthful => money[p] = "NO"
    /\ MarkFailed(p)
    /\ UNCHANGED <<applied, wallet, ledger, plan, used, money, rewards, request, refund>>

\* A payment that is completed or failed ends the callback.
ReadForVerify(r, p) ==
    /\ p \notin Bazaar
    /\ Truthful => money[p] # "NO"
    /\ status[p] = "PENDING"
    /\ Begins(r, p, "ask")
    /\ UNCHANGED <<rows, money, rewards, refund>>

\* Mutant: the callback's word is taken for it.
TrustCallback(r, p) ==
    /\ Goes(r, p, "ask", "count")
    /\ UNCHANGED <<rows, money, rewards, refund>>

\* External: the gateway confirms what was paid, again if asked again.
GatewayConfirms(r, p) ==
    /\ money[p] # "NO"
    /\ Goes(r, p, "ask", "count")
    /\ money' = [money EXCEPT ![p] = "VERIFIED"]
    /\ UNCHANGED <<rows, rewards, refund>>

\* External: nothing was paid, or it is verified and the gateway says so by
\* refusing (Vandar), or the answer is an error.
GatewayRefuses(r, p) ==
    /\ Goes(r, p, "ask", "refused")
    /\ UNCHANGED <<rows, money, rewards, refund>>

MarkRefused(r, p) ==
    /\ Ends(r, p, "refused")
    /\ MarkFailed(p)
    /\ UNCHANGED <<applied, wallet, ledger, plan, used, money, rewards, refund>>

-----------------------------------------------------------------------------
(* A purchase in Bazaar's application.  A token that has a row ends the     *)
(* confirmation with success.                                              *)

ReadForConfirm(r, p) ==
    /\ p \in Bazaar
    /\ status[p] = "NONE"
    /\ Begins(r, p, "validate")
    /\ UNCHANGED <<rows, money, rewards, refund>>

\* providerRef is unique: of two inserts one ends the confirmation (P2002).
ConfirmCreates(r, p) ==
    /\ money[p] # "NO"
    /\ \/ /\ status[p] = "NONE"
          /\ Goes(r, p, "validate", "count")
          /\ status' = [status EXCEPT ![p] = "PENDING"]
       \/ /\ status[p] # "NONE"
          /\ Ends(r, p, "validate")
          /\ UNCHANGED status
    /\ UNCHANGED <<applied, wallet, ledger, plan, used, money, rewards, refund>>

-----------------------------------------------------------------------------
(* Completion.                                                             *)

Completed(kind, u) == {q \in kind : status[q] = "COMPLETED" /\ Owner[q] = u}

\* Mutant: only plans are counted.
IsFirstPlan(p) ==
    IF p \in WalletTopups THEN Completed(WalletTopups, Owner[p]) = {}
    ELSE p \in Subscriptions /\ Owner[p] \in Referred /\ Completed(Subscriptions, Owner[p]) = {}

\* Is it the user's first?  Read before the transaction.
IsFirst(p) ==
    IF p \in WalletTopups THEN Completed(WalletTopups, Owner[p]) = {}
    ELSE p \in Subscriptions /\ Owner[p] \in Referred /\ Completed(Payments, Owner[p]) = {}

CountPrior(r, p) ==
    /\ At(r, p, "count")
    /\ request' = [request EXCEPT ![r] = [at |-> "complete", pay |-> p, first |-> IsFirst(p)]]
    /\ UNCHANGED <<rows, money, rewards, refund>>

\* Mutant: the completion does not look at the status.
ClaimAnyhow(p) == status' = [status EXCEPT ![p] = "COMPLETED"]

\* updateMany where PENDING, count = 1
Claim(p) == status[p] = "PENDING" /\ status' = [status EXCEPT ![p] = "COMPLETED"]

Add(f, x, n) == [f EXCEPT ![x] = @ + n]

\* One transaction: the claim and what the buyer paid for.
Complete(r, p) ==
    LET u     == Owner[p]
        first == request[r].first
    IN
    /\ IF p \in Subscriptions /\ first THEN Goes(r, p, "complete", "reward")
                                        ELSE Ends(r, p, "complete")
    /\ Claim(p)
    /\ applied' = Add(applied, p, 1)
    /\ wallet' = IF p \in WalletTopups THEN Add(wallet, u, Worth[p]) ELSE wallet
    /\ ledger' = IF p \in WalletTopups THEN Add(ledger, u, Worth[p]) ELSE ledger
    /\ plan' = IF p \in Subscriptions THEN [plan EXCEPT ![u] = p]
               ELSE IF p \in WalletTopups /\ first THEN [plan EXCEPT ![u] = Payg]
               ELSE plan
    /\ used' = IF p \in Subscriptions /\ CodeOf[p] # NoCode
               THEN Add(used, CodeOf[p], 1) ELSE used
    /\ UNCHANGED <<money, rewards, refund>>

\* Mutant: who lost the claim goes on to the reward.
LoserRewards(r, p) ==
    /\ status[p] # "PENDING"
    /\ IF p \in Subscriptions /\ request[r].first THEN Goes(r, p, "complete", "reward")
                                                  ELSE Ends(r, p, "complete")
    /\ UNCHANGED <<rows, money, rewards, refund>>

LosesClaim(r, p) ==
    /\ status[p] # "PENDING"
    /\ Ends(r, p, "complete")
    /\ UNCHANGED <<rows, money, rewards, refund>>

IssueRewards(r, p) ==
    /\ Ends(r, p, "reward")
    /\ rewards' = Add(rewards, Owner[p], 1)
    /\ UNCHANGED <<rows, money, refund>>

\* A crash, an error thrown, a purchase that Bazaar does not know.
Stops(r, p) ==
    /\ request[r] # Idle
    /\ Ends(r, p, request[r].at)
    /\ UNCHANGED <<rows, money, rewards, refund>>

-----------------------------------------------------------------------------
(* The wallet's other writers, and time.                                   *)

Debit(u) ==
    /\ wallet[u] > WalletFloor
    /\ wallet' = Add(wallet, u, -1)
    /\ ledger' = Add(ledger, u, -1)
    /\ UNCHANGED <<status, applied, plan, used, money, rewards, request, refund>>

\* Mutant: a debt is refunded.
ReadAnyForRefund(u) ==
    /\ refund[u].at = "idle"
    /\ refund' = [refund EXCEPT ![u] = [at |-> "zero", amount |-> wallet[u]]]
    /\ UNCHANGED <<rows, money, rewards, request>>

ReadForRefund(u) ==
    /\ refund[u].at = "idle"
    /\ refund' = [refund EXCEPT ![u] = IF wallet[u] > 0
                                       THEN [at |-> "zero", amount |-> wallet[u]]
                                       ELSE [at |-> "free", amount |-> 0]]
    /\ UNCHANGED <<rows, money, rewards, request>>

ZeroWallet(u) ==
    /\ refund[u].at = "zero"
    /\ wallet' = [wallet EXCEPT ![u] = 0]
    /\ ledger' = Add(ledger, u, -refund[u].amount)
    /\ refund' = [refund EXCEPT ![u] = [at |-> "free", amount |-> 0]]
    /\ UNCHANGED <<status, applied, plan, used, money, rewards, request>>

DropToFreePlan(u) ==
    /\ refund[u].at = "free"
    /\ plan' = [plan EXCEPT ![u] = NoPlan]
    /\ refund' = [refund EXCEPT ![u] = [at |-> "idle", amount |-> 0]]
    /\ UNCHANGED <<status, applied, wallet, ledger, used, money, rewards, request>>

\* SUBSCRIPTION_DAYS have passed.
PlanRunsOut(u) ==
    /\ plan[u] \in Subscriptions
    /\ plan' = [plan EXCEPT ![u] = NoPlan]
    /\ UNCHANGED <<status, applied, wallet, ledger, used, money, rewards, request, refund>>

-----------------------------------------------------------------------------

RequestStep(r, p) ==
    \/ ReadForVerify(r, p) \/ GatewayConfirms(r, p) \/ GatewayRefuses(r, p)
    \/ MarkRefused(r, p)
    \/ ReadForConfirm(r, p) \/ ConfirmCreates(r, p)
    \/ CountPrior(r, p) \/ Complete(r, p) \/ LosesClaim(r, p)
    \/ IssueRewards(r, p) \/ Stops(r, p)

UserStep(u) ==
    \/ Debit(u) \/ ReadForRefund(u) \/ ZeroWallet(u) \/ DropToFreePlan(u)
    \/ PlanRunsOut(u)

Next ==
    \/ \E p \in Payments : Initiate(p) \/ BuyerPays(p) \/ FailureCallback(p)
    \/ \E r \in Requests, p \in Payments : RequestStep(r, p)
    \/ \E u \in Users : UserStep(u)

Spec == Init /\ [][Next]_vars

-----------------------------------------------------------------------------

\* However many callbacks run at the same time, a payment's effect is booked
\* exactly when it is completed, and once (claimPaymentCompletion, 483-495:
\* only one callback wins, the loser makes no charge, plan or invoice).
AppliedOnce ==
    \A p \in Payments : applied[p] = IF status[p] = "COMPLETED" THEN 1 ELSE 0

\* Nothing is handed out before the gateway or Bazaar has confirmed that the
\* money was paid (verify 547-555, confirmBazaarPurchase 355-364).
Confirmed(p) == money[p] = IF p \in Bazaar THEN "PAID" ELSE "VERIFIED"

OnlyPaidIsCompleted ==
    \A p \in Payments : status[p] = "COMPLETED" => Confirmed(p)

\* What the whole of it promises: see PaymentPromise.
FateOf(st) ==
    CASE st = "COMPLETED" -> "GIVEN"
      [] st = "FAILED"    -> "REFUSED"
      [] OTHER            -> "OPEN"

Promise == INSTANCE PaymentPromise WITH
    fate    <- [p \in Payments |-> FateOf(status[p])],
    vouched <- {p \in Payments : Confirmed(p)},
    given   <- applied

\* Whatever callbacks and confirmations race, get lost or lie, the fate of a
\* payment is settled once: a late failure or a second verification that the
\* gateway refuses does not spoil what was completed, no second success revives
\* what has failed, and what is given is given once, for confirmed money
\* (claimPaymentCompletion 485-495, verify 507-512 and 558-561).
SettlesOnce == Promise!Spec

\* The requests that counted no earlier payment of u and may yet bring a reward.
Hopeful(u) ==
    {r \in Requests : /\ request[r].first
                      /\ request[r].pay \in Subscriptions /\ Owner[request[r].pay] = u}

\* A reward is for the first payment of a referred user: from when any payment of
\* the user is completed, of whatever kind, no further request can come to bring
\* one, whichever callbacks race, are lost or die; and there are never more
\* rewards than paid plans.  A second reward can only come from a plan whose
\* callback had counted before the first was completed (verify 609-620, 669, 703).
RewardGoesToFirst ==
    [][\A u \in Users :
          /\ rewards'[u] <= Cardinality(Completed(Subscriptions, u))'
          /\ Completed(Payments, u) # {} =>
                rewards'[u] + Cardinality(Hopeful(u))'
                    <= rewards[u] + Cardinality(Hopeful(u))]_vars

\* payments.service.ts 556-557 of a payment that another callback has confirmed:
\* do not mark it FAILED.
VerifiedDoesNotFail ==
    \A p \in Payments : money[p] = "VERIFIED" => status[p] # "FAILED"

=============================================================================
