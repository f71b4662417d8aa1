----------------------------- MODULE OrderState -----------------------------
(***************************************************************************)
(* OrderStateService: the only path that changes the status of an order.   *)
(* One transition is one database transaction under the row lock of the    *)
(* order: the status, the stock, the confirmed total of the bank card, the *)
(* redemption counter of the discount code, the conversation, the status   *)
(* event and the refund rows change together or not at all.  It is one     *)
(* step here, but for what it reads without a lock: an approval that finds *)
(* less on the shelf than was ordered holds no lock on that product until  *)
(* it sets its stock to zero, so its statements are steps of their own.    *)
(*                                                                         *)
(* The variables are the database rows the transaction reads and writes.   *)
(* The handlers that call it are in OrderLifecycle.                        *)
(***************************************************************************)
EXTENDS Integers, FiniteSetsExt, OrderMachine

CONSTANTS
    Orders,          \* conversations that may come to hold an order
    Products,
    Cards,           \* bank cards of the store
    NoCard,          \* the order shows no stored card (SnappPay, fallback card)
    NoRefund,        \* an unused refund row
    NoEvent,         \* no status event yet
    Items,           \* Items[o][p]: quantity of p in the cart of o
    Tracked,         \* products whose stock is counted (trackStock)
    Total,           \* Total[o]: order.totalAmount
    CardOf,          \* CardOf[o]: order.bankCardId
    InitialStock,
    MaxRedemptions,  \* cap of the discount code; no cap: any number >= |Orders|
    MaxRefunds,      \* bound: refund rows of the model
    MaxReceipts      \* bound: receipt images a buyer sends for one order

ASSUME OrderStateAssumption ==
    /\ NoCard \notin Cards
    /\ Items \in [Orders -> [Products -> Nat]]
    /\ Tracked \subseteq Products
    /\ Total \in [Orders -> Nat \ {0}]
    /\ CardOf \in [Orders -> Cards \cup {NoCard}]
    /\ InitialStock \in [Products -> Nat]
    /\ MaxRedemptions \in Nat
    /\ MaxRefunds \in Nat
    /\ MaxReceipts \in Nat

RefundIds == 1..MaxRefunds  \* in the order of createdAt

RefundStatuses == {"AWAITING_SELLER_CONFIRM", "AWAITING_DESTINATION", "READY",
                   "DONE", "CANCELLED"}

StatusReasons == {"ORDER_REJECTED", "ORDER_CANCELLED"}

\* MANUAL stands for the reasons a seller picks by hand: ITEM_UNAVAILABLE,
\* OVERPAID, RETURNED and OTHER, which no code path tells apart.
RefundReasons == StatusReasons \cup {"MANUAL"}

Refund == [order : Orders, amount : Nat \ {0}, reason : RefundReasons,
           status : RefundStatuses]

ASSUME SentinelAssumption ==
    /\ NoRefund \notin Refund
    /\ NoEvent \notin [from : Statuses \cup {"NONE"}, to : Statuses,
                       by : {"BUYER", "SELLER", "SYSTEM"}]

VARIABLES
    status,       \* order.status; NONE before the order row exists
    receipt,      \* order.receiptImageKey: the n-th image sent, 0 for none
    coded,        \* order.discountCodeId is set
    refunds,      \* the order_refunds table
    stock,        \* product.stock
    cardTotal,    \* storeBankCard.totalConfirmedToman
    redemptions,  \* storeDiscountCode.redemptionCount
    conv,         \* salesConversation.currentState of the order
    muted,        \* salesConversation.isMutedForHuman
    event,        \* the newest order_status_events row of the order
    approval      \* approval[o]: what an uncommitted approval of o has done:
                  \* the product it just found short of, and those it has
                  \* set to zero

rows == <<status, receipt, coded, refunds, stock, cardTotal, redemptions,
          conv, muted, event, approval>>

Actors == {"BUYER", "SELLER", "SYSTEM"}

ConvStates == {"BROWSING", "AWAITING_PAYMENT", "AWAITING_SELLER_APPROVAL",
               "COMPLETED", "REJECTED"}

RowsTypeOK ==
    /\ status \in [Orders -> Statuses \cup {"NONE"}]
    /\ receipt \in [Orders -> Nat]
    /\ coded \in [Orders -> BOOLEAN]
    /\ refunds \in [RefundIds -> Refund \cup {NoRefund}]
    /\ stock \in [Products -> Nat]
    /\ cardTotal \in [Cards -> Nat]
    /\ redemptions \in Nat
    /\ conv \in [Orders -> ConvStates]
    /\ muted \in [Orders -> BOOLEAN]
    /\ event \in [Orders -> [from : Statuses \cup {"NONE"}, to : Statuses,
                             by : Actors] \cup {NoEvent}]
    /\ approval \in [Orders -> [short : SUBSET Tracked, zeroed : SUBSET Tracked]]

NoApproval == [short |-> {}, zeroed |-> {}]

RowsInit ==
    /\ status = [o \in Orders |-> "NONE"]
    /\ receipt = [o \in Orders |-> 0]
    /\ coded = [o \in Orders |-> FALSE]
    /\ refunds = [r \in RefundIds |-> NoRefund]
    /\ stock = InitialStock
    /\ cardTotal = [c \in Cards |-> 0]
    /\ redemptions = 0
    /\ conv = [o \in Orders |-> "BROWSING"]
    /\ muted = [o \in Orders |-> FALSE]
    /\ event = [o \in Orders |-> NoEvent]
    /\ approval = [o \in Orders |-> NoApproval]

-----------------------------------------------------------------------------
(* The refund rows of an order (refund-tx.ts).                             *)

RefundsOf(o) == {r \in RefundIds : refunds[r] # NoRefund /\ refunds[r].order = o}

ForStatus(r) == refunds[r].reason \in StatusReasons

Claims(o) == {r \in RefundsOf(o) : refunds[r].status # "CANCELLED"}

Allotted(o) == SumFunction([r \in Claims(o) |-> refunds[r].amount])

\* Mutant: the order total, not what is left of it.
RemainingIgnoringClaims(o) == Total[o]

Remaining(o) == IF Total[o] > Allotted(o) THEN Total[o] - Allotted(o) ELSE 0

ValidAmount(o, a) == a \in 1..Total[o] /\ a <= Remaining(o)

NextRefundId(r) ==
    /\ refunds[r] = NoRefund
    /\ \A q \in RefundIds : q < r => refunds[q] # NoRefund

InsertRefund(o, a, why, st) ==
    \E r \in RefundIds :
        /\ NextRefundId(r)
        /\ refunds' = [refunds EXCEPT ![r] =
                [order |-> o, amount |-> a, reason |-> why, status |-> st]]

-----------------------------------------------------------------------------
(* What one transition decides and does (order-state.service.ts).          *)

\* The optional data of a transition: what the seller said about the money,
\* the amount to give back (0: not given), and whether an image is attached.
NoData == [money |-> "UNSAID", amount |-> 0, image |-> FALSE]

TransitionData(o) == [money : {"RECEIVED", "MISSING", "UNSAID"},
                      amount : 0..Total[o], image : BOOLEAN]

\* Mutant: only a transition out of REJECTED looks at the refunds.
ReopensOnlyRejected(o, to) == status[o] = "REJECTED"

Reopens(o, to) == status[o] = "REJECTED" \/ to = "APPROVED"

PaidBack(o) == \E r \in RefundsOf(o) : ForStatus(r) /\ refunds[r].status = "DONE"

\* Mutant: the receipt is the only sign of a payment.
PaidBeforeByImage(o) == receipt[o] > 0

PaidBefore(o) ==
    status[o] \in {"RECEIPT_SUBMITTED", "APPROVED"} \/ receipt[o] > 0

RefundRequired(o, to, d) ==
    /\ to \in {"REJECTED", "CANCELLED"}
    /\ PaidBefore(o)
    /\ d.money # "MISSING"

RefundAmount(o, d) == IF d.amount = 0 THEN Remaining(o) ELSE d.amount

InsertsRefund(o, to, d) == RefundRequired(o, to, d) /\ Remaining(o) > 0

\* The transaction commits; otherwise it is refused (Conflict, BadRequest) or
\* finds the order already there, and changes nothing.
Commits(o, to, d) ==
    /\ CanTransition(status[o], to)
    /\ ~(Reopens(o, to) /\ PaidBack(o))
    /\ InsertsRefund(o, to, d) => ValidAmount(o, RefundAmount(o, d))

\* Mutant: a refund nobody vouched for waits for the card number at once.
InitialRefundStatusUnheld(d) == "AWAITING_DESTINATION"

InitialRefundStatus(d) ==
    IF d.money = "RECEIVED" THEN "AWAITING_DESTINATION"
                            ELSE "AWAITING_SELLER_CONFIRM"

\* Mutant: an approval leaves a refund whose card number is known payable.
CancelledByApprovalNotReady(o, r) ==
    /\ refunds[r] # NoRefund
    /\ refunds[r].order = o
    /\ ForStatus(r)
    /\ refunds[r].status \in {"AWAITING_DESTINATION", "AWAITING_SELLER_CONFIRM"}

CancelledByApproval(o, r) ==
    /\ refunds[r] # NoRefund
    /\ refunds[r].order = o
    /\ ForStatus(r)
    /\ refunds[r].status \in {"AWAITING_DESTINATION", "AWAITING_SELLER_CONFIRM",
                              "READY"}

RefundEffect(o, to, d) ==
    \/ /\ to = "APPROVED"
       /\ refunds' = [r \in RefundIds |->
             IF CancelledByApproval(o, r)
             THEN [refunds[r] EXCEPT !.status = "CANCELLED"] ELSE refunds[r]]
    \/ /\ InsertsRefund(o, to, d)
       /\ InsertRefund(o, RefundAmount(o, d),
             IF to = "REJECTED" THEN "ORDER_REJECTED" ELSE "ORDER_CANCELLED",
             InitialRefundStatus(d))
    \/ /\ to # "APPROVED"
       /\ ~InsertsRefund(o, to, d)
       /\ UNCHANGED refunds

-----------------------------------------------------------------------------
(* Stock, bank card and discount code.                                     *)

Monus(a, b) == IF a > b THEN a - b ELSE 0

Takes(o, to) == ~HoldsStock(status[o]) /\ HoldsStock(to)

\* Mutant: a cancellation keeps what the order held.
GivesBackOnReject(o, to) == HoldsStock(status[o]) /\ to = "REJECTED"

GivesBack(o, to) == HoldsStock(status[o]) /\ ~HoldsStock(to)

\* An approval holds the row locks of its order, of the order's refunds and of
\* its card until it commits.
UnderWay(o) == approval[o] # NoApproval

\* Mutant: the stock is taken before the card is updated.
CardBusyNever(o) == FALSE

CardBusy(o) ==
    /\ CardOf[o] # NoCard
    /\ \E q \in Orders \ {o} : UnderWay(q) /\ CardOf[q] = CardOf[o]

InCart(o) == {p \in Tracked : Items[o][p] > 0}

ZeroedByOther(o) == UNION {approval[q].zeroed : q \in Orders \ {o}}

\* DEDUCT, the conditional decrement: it matches no row, and locks none.
FindShort(o, p) ==
    /\ Commits(o, "APPROVED", NoData)
    /\ ~CardBusy(o)
    /\ approval[o].short = {}
    /\ p \in InCart(o) \ approval[o].zeroed
    /\ stock[p] < Items[o][p]
    /\ approval' = [approval EXCEPT ![o].short = {p}]
    /\ UNCHANGED <<status, receipt, coded, refunds, stock, cardTotal,
                   redemptions, conv, muted, event>>

\* DEDUCT, the update to zero: whatever is there by now, and locked from here.
ZeroStock(o) ==
    /\ approval[o].short # {}
    /\ approval[o].short \cap ZeroedByOther(o) = {}
    /\ approval' = [approval EXCEPT
                        ![o] = [short |-> {}, zeroed |-> @.zeroed \cup @.short]]
    /\ UNCHANGED <<status, receipt, coded, refunds, stock, cardTotal,
                   redemptions, conv, muted, event>>

\* The 15 seconds of the transaction are over, it is the victim of a deadlock,
\* or the process dies.
RollBack(o) ==
    /\ UnderWay(o)
    /\ approval' = [approval EXCEPT ![o] = NoApproval]
    /\ UNCHANGED <<status, receipt, coded, refunds, stock, cardTotal,
                   redemptions, conv, muted, event>>

\* What a transition that moves goods waits for: the card, the products, and
\* of an approval that nothing more is found short.
GoodsMovable(o, to) ==
    /\ ~CardBusy(o)
    /\ InCart(o) \cap ZeroedByOther(o) = {}
    /\ Takes(o, to) =>
          /\ approval[o].short = {}
          /\ \A p \in InCart(o) \ approval[o].zeroed : Items[o][p] <= stock[p]

\* RESTORE adds the whole quantity.  Untracked products are left alone.
StockEffect(o, to) ==
    stock' = [p \in Products |->
        CASE p \in approval[o].zeroed           -> 0
          [] p \in Tracked \ approval[o].zeroed /\ Takes(o, to)
                                               -> stock[p] - Items[o][p]
          [] p \in Tracked /\ GivesBack(o, to) -> stock[p] + Items[o][p]
          [] OTHER                             -> stock[p]]

\* Mutant: the card keeps the amount of an order that was taken back.
CardEffectOneWay(o, to) ==
    cardTotal' = [c \in Cards |->
        IF c = CardOf[o] /\ Takes(o, to) THEN cardTotal[c] + Total[o]
                                         ELSE cardTotal[c]]

CardEffect(o, to) ==
    cardTotal' = [c \in Cards |->
        CASE c = CardOf[o] /\ Takes(o, to)     -> cardTotal[c] + Total[o]
          [] c = CardOf[o] /\ GivesBack(o, to) -> Monus(cardTotal[c], Total[o])
          [] OTHER                             -> cardTotal[c]]

Reconsumed(n) == IF n < MaxRedemptions THEN n + 1 ELSE n

\* Mutant: the code is consumed again only by an approval.
DiscountEffectOnApproval(o, to) ==
    redemptions' =
        CASE coded[o] /\ status[o] = "REJECTED" /\ to = "APPROVED"
                -> Reconsumed(redemptions)
          [] coded[o] /\ to \in {"REJECTED", "CANCELLED"} -> Monus(redemptions, 1)
          [] OTHER                                        -> redemptions

\* Mutant: a cancelled order keeps its use of the code.
DiscountEffectKeepsCancelled(o, to) ==
    redemptions' =
        CASE coded[o] /\ status[o] = "REJECTED" -> Reconsumed(redemptions)
          [] coded[o] /\ to = "REJECTED"        -> Monus(redemptions, 1)
          [] OTHER                              -> redemptions

DiscountEffect(o, to) ==
    redemptions' =
        CASE coded[o] /\ status[o] = "REJECTED"           -> Reconsumed(redemptions)
          [] coded[o] /\ to \in {"REJECTED", "CANCELLED"} -> Monus(redemptions, 1)
          [] OTHER                                        -> redemptions

-----------------------------------------------------------------------------
(* The transition itself.                                                  *)

\* Mutant: a cancelled order gives the conversation a state it does not have.
ConvAfterCancelled(o, to) ==
    CASE to \in {"APPROVED", "REJECTED"} -> IF to = "APPROVED" THEN "COMPLETED" ELSE to
      [] to = "CANCELLED"                -> "CANCELLED"
      [] OTHER                           -> conv[o]

ConvAfter(o, to) ==
    CASE to \in {"APPROVED", "CANCELLED"} -> "COMPLETED"
      [] to = "REJECTED"                  -> "REJECTED"
      [] OTHER                            -> conv[o]

Transition(o, to, by, d) ==
    /\ Commits(o, to, d)
    /\ UnderWay(o) => to = "APPROVED"
    /\ Takes(o, to) \/ GivesBack(o, to) => GoodsMovable(o, to)
    /\ d.image => receipt[o] < MaxReceipts
    /\ status' = [status EXCEPT ![o] = to]
    /\ receipt' = [receipt EXCEPT ![o] = IF d.image THEN @ + 1 ELSE @]
    /\ StockEffect(o, to)
    /\ CardEffect(o, to)
    /\ DiscountEffect(o, to)
    /\ conv' = [conv EXCEPT ![o] = ConvAfter(o, to)]
    /\ muted' = [muted EXCEPT ![o] = @ \/ to = "REJECTED"]
    /\ event' = [event EXCEPT ![o] = [from |-> status[o], to |-> to, by |-> by]]
    /\ RefundEffect(o, to, d)
    /\ approval' = [approval EXCEPT ![o] = NoApproval]
    /\ UNCHANGED coded

\* How a handler that has nothing left to do calls it: a refused transition
\* leaves the rows alone.
TryTransition(o, to, by, d) ==
    \/ Transition(o, to, by, d)
    \/ ~UnderWay(o) /\ ~Commits(o, to, d) /\ UNCHANGED rows

=============================================================================
