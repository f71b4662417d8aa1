--------------------------- MODULE OrderLifecycle ---------------------------
(***************************************************************************)
(* The handlers around OrderState: the buyer's chat and order page, the    *)
(* seller's panel and bot, and the expiry cron.  A handler that reads an   *)
(* order and acts on what it read in a later transaction is two steps with *)
(* the read kept in its client slot, so that every other handler may run   *)
(* in between; a handler that re-checks inside its transaction is one.     *)
(***************************************************************************)
EXTENDS OrderState

CONSTANTS
    Clients,      \* requests being served at the same time
    Idle,         \* a client slot that serves nothing
    CodeOrders,   \* orders whose cart carries the discount code
    HumanOrders,  \* bound: orders whose conversation the seller handles by hand
    MaxManual     \* bound: refunds a seller makes by hand

Job ==
    [kind : {"receipt"}, order : Orders, image : BOOLEAN] \cup
    [kind : {"persist"}, order : Orders, next : ConvStates] \cup
    [kind : {"reattach"}, order : Orders, seen : Statuses] \cup
    [kind : {"cancel"}, order : Orders] \cup
    [kind : {"reject"}, order : Orders, money : {"RECEIVED", "MISSING", "UNSAID"}] \cup
    [kind : {"refund"}, order : Orders, amount : Nat \ {0}]

ASSUME LifecycleAssumption ==
    /\ Idle \notin Job
    /\ CodeOrders \subseteq Orders
    /\ HumanOrders \subseteq Orders
    /\ MaxManual \in Nat

VARIABLES
    client,  \* client[c]: the request c serves, with what it has read
    batch    \* overdue orders the expiry passes have read and not yet handled

vars == <<rows, client, batch>>

TypeOK ==
    /\ RowsTypeOK
    /\ client \in [Clients -> Job \cup {Idle}]
    /\ batch \subseteq Orders

Init ==
    /\ RowsInit
    /\ client = [c \in Clients |-> Idle]
    /\ batch = {}

Serving(c, kind) == client[c] # Idle /\ client[c].kind = kind

Start(c, job) == client[c] = Idle /\ client' = [client EXCEPT ![c] = job]

Finish(c) == client' = [client EXCEPT ![c] = Idle]

-----------------------------------------------------------------------------
(* The buyer in the chat.  An engine turn holds the conversation's lock.   *)

ConvFree(o) ==
    \A c \in Clients : ~\E k \in {"receipt", "persist"} :
        Serving(c, k) /\ client[c].order = o

\* Mutant: the cap of the code is read, and not part of the update.
GrantsCodeUncapped(o) == o \in CodeOrders

GrantsCode(o) == o \in CodeOrders /\ redemptions < MaxRedemptions

PlaceOrder(c, o) ==
    /\ status[o] = "NONE"
    /\ ConvFree(o)
    /\ ~muted[o]
    /\ \A p \in Tracked : Items[o][p] <= stock[p]
    /\ Start(c, [kind |-> "persist", order |-> o, next |-> "AWAITING_PAYMENT"])
    /\ status' = [status EXCEPT ![o] = "PENDING_PAYMENT"]
    /\ coded' = [coded EXCEPT ![o] = GrantsCode(o)]
    /\ redemptions' = IF GrantsCode(o) THEN redemptions + 1 ELSE redemptions
    /\ event' = [event EXCEPT ![o] =
                    [from |-> "NONE", to |-> "PENDING_PAYMENT", by |-> "BUYER"]]
    /\ UNCHANGED <<receipt, refunds, stock, cardTotal, conv, muted, approval, batch>>

\* Checkout in a conversation that already holds an order shows that order.
ResumeOrder(c, o) ==
    /\ status[o] # "NONE"
    /\ ConvFree(o)
    /\ ~muted[o]
    /\ Start(c, [kind |-> "persist", order |-> o, next |-> "AWAITING_PAYMENT"])
    /\ UNCHANGED <<rows, batch>>

ReadForReceipt(c, o, image) ==
    /\ ConvFree(o)
    /\ conv[o] = "AWAITING_PAYMENT"
    /\ status[o] = "PENDING_PAYMENT"
    /\ Start(c, [kind |-> "receipt", order |-> o, image |-> image])
    /\ UNCHANGED <<rows, batch>>

SubmitReceipt(c) ==
    /\ Serving(c, "receipt")
    /\ LET o == client[c].order
           d == [NoData EXCEPT !.image = client[c].image]
       IN  \/ /\ Transition(o, "RECEIPT_SUBMITTED", "BUYER", d)
              /\ client' = [client EXCEPT ![c] =
                    [kind |-> "persist", order |-> o,
                     next |-> "AWAITING_SELLER_APPROVAL"]]
           \/ /\ ~Commits(o, "RECEIPT_SUBMITTED", d)
              /\ Finish(c)
              /\ UNCHANGED rows
    /\ UNCHANGED batch

\* The turn ends by writing the state it moved the conversation to.  Status
\* transitions do not count up the conversation's version, so the version
\* check passes whatever they wrote.
PersistTransition(c) ==
    /\ Serving(c, "persist")
    /\ conv' = [conv EXCEPT ![client[c].order] = client[c].next]
    /\ Finish(c)
    /\ UNCHANGED <<status, receipt, coded, refunds, stock, cardTotal,
                   redemptions, muted, event, approval, batch>>

\* A photo sent while the seller has the conversation.
ReadForReattach(c, o) ==
    /\ muted[o]
    /\ status[o] \in {"REJECTED", "PENDING_PAYMENT", "RECEIPT_SUBMITTED"}
    /\ Start(c, [kind |-> "reattach", order |-> o, seen |-> status[o]])
    /\ UNCHANGED <<rows, batch>>

ReattachReceipt(c) ==
    /\ Serving(c, "reattach")
    /\ LET o == client[c].order
       IN  IF client[c].seen = "REJECTED"
           THEN TryTransition(o, "RECEIPT_SUBMITTED", "BUYER",
                              [NoData EXCEPT !.image = TRUE])
           ELSE /\ ~UnderWay(o)
                /\ receipt[o] < MaxReceipts
                /\ receipt' = [receipt EXCEPT ![o] = @ + 1]
                /\ UNCHANGED <<status, coded, refunds, stock, cardTotal,
                               redemptions, conv, muted, event, approval>>
    /\ Finish(c)
    /\ UNCHANGED batch

-----------------------------------------------------------------------------
(* The buyer on the order page.                                            *)

ReadForCancel(c, o) ==
    /\ status[o] \in {"PENDING_PAYMENT", "RECEIPT_SUBMITTED"}
    /\ Start(c, [kind |-> "cancel", order |-> o])
    /\ UNCHANGED <<rows, batch>>

BuyerCancels(c) ==
    /\ Serving(c, "cancel")
    /\ TryTransition(client[c].order, "CANCELLED", "BUYER", NoData)
    /\ Finish(c)
    /\ UNCHANGED batch

ConfirmDelivery(o) ==
    /\ Transition(o, "DELIVERED", "BUYER", NoData)
    /\ UNCHANGED <<client, batch>>

CanSetDestination(r) == refunds[r].status = "AWAITING_DESTINATION"

\* It locks the order's row or the refund's own, which an approval under way
\* of the order holds both.
SetRefundStatus(r, st) ==
    /\ ~UnderWay(refunds[r].order)
    /\ refunds' = [refunds EXCEPT ![r].status = st]
    /\ UNCHANGED <<status, receipt, coded, stock, cardTotal, redemptions, conv,
                   muted, event, approval, client, batch>>

\* Also the card number caught in a chat message, and the one the seller types.
SetDestination(r) ==
    /\ refunds[r] # NoRefund
    /\ CanSetDestination(r)
    /\ SetRefundStatus(r, "READY")

-----------------------------------------------------------------------------
(* The seller.                                                             *)

\* While it runs an approval finds the shelf short of what was ordered.
ApproveShort(o) ==
    /\ ZeroStock(o) \/ \E p \in Products : FindShort(o, p)
    /\ UNCHANGED <<client, batch>>

ApprovalFails(o) ==
    /\ RollBack(o)
    /\ UNCHANGED <<client, batch>>

Approve(o) ==
    /\ Transition(o, "APPROVED", "SELLER", NoData)
    /\ UNCHANGED <<client, batch>>

Ship(o) ==
    /\ Transition(o, "SHIPPED", "SELLER", NoData)
    /\ UNCHANGED <<client, batch>>

Deliver(o) ==
    /\ Transition(o, "DELIVERED", "SELLER", NoData)
    /\ UNCHANGED <<client, batch>>

\* The panel insists on an answer about the money if the order it read shows
\* a payment; the transition that follows may find another order.
ReadForReject(c, o, money) ==
    /\ status[o] # "NONE"
    /\ PaidBefore(o) => money # "UNSAID"
    /\ Start(c, [kind |-> "reject", order |-> o, money |-> money])
    /\ UNCHANGED <<rows, batch>>

RejectOrder(c) ==
    /\ Serving(c, "reject")
    /\ \E a \in 0..Total[client[c].order] :
          TryTransition(client[c].order, "REJECTED", "SELLER",
              [NoData EXCEPT !.money = client[c].money, !.amount = a])
    /\ Finish(c)
    /\ UNCHANGED batch

ManualRefunds ==
    {r \in RefundIds : refunds[r] # NoRefund /\ ~ForStatus(r)}

\* createManual takes no lock: the sum it read may be old when it inserts.
ReadForRefund(c, o, a) ==
    /\ status[o] # "NONE"
    /\ ValidAmount(o, a)
    /\ Start(c, [kind |-> "refund", order |-> o, amount |-> a])
    /\ UNCHANGED <<rows, batch>>

CreateManualRefund(c) ==
    /\ Serving(c, "refund")
    /\ ~UnderWay(client[c].order)
    /\ Cardinality(ManualRefunds) < MaxManual
    /\ InsertRefund(client[c].order, client[c].amount, "MANUAL",
                    "AWAITING_DESTINATION")
    /\ Finish(c)
    /\ UNCHANGED <<status, receipt, coded, stock, cardTotal, redemptions, conv,
                   muted, event, approval, batch>>

\* Mutant: a refund that waits for the seller's word can be paid.
CanPayHeld(r) == refunds[r].status \notin {"DONE", "CANCELLED"}

CanPay(r) == refunds[r].status \in {"READY", "AWAITING_DESTINATION"}

MarkPaid(r) ==
    /\ refunds[r] # NoRefund
    /\ CanPay(r)
    /\ SetRefundStatus(r, "DONE")

ResolveSellerHold(r, moneyReceived) ==
    /\ refunds[r] # NoRefund
    /\ refunds[r].status = "AWAITING_SELLER_CONFIRM"
    /\ SetRefundStatus(r, IF moneyReceived THEN "AWAITING_DESTINATION"
                                           ELSE "CANCELLED")

SellerTakesOver(o) ==
    /\ o \in HumanOrders
    /\ ~muted[o]
    /\ muted' = [muted EXCEPT ![o] = TRUE]
    /\ UNCHANGED <<status, receipt, coded, refunds, stock, cardTotal,
                   redemptions, conv, event, approval, client, batch>>

BackToBot(o) ==
    /\ o \in HumanOrders
    /\ muted' = [muted EXCEPT ![o] = FALSE]
    /\ conv' = [conv EXCEPT ![o] = "BROWSING"]
    /\ UNCHANGED <<status, receipt, coded, refunds, stock, cardTotal,
                   redemptions, event, approval, client, batch>>

-----------------------------------------------------------------------------
(* The expiry cron, and a server process that dies.                        *)

\* Mutant: an order that already shows a receipt image is left alone.
OverdueNoImage == {o \in Orders : status[o] = "PENDING_PAYMENT" /\ receipt[o] = 0}

\* Time is abstract: any order still unpaid may be past its deadline.
Overdue == {o \in Orders : status[o] = "PENDING_PAYMENT"}

ExpiryReads ==
    /\ batch' \in {batch \cup S : S \in (SUBSET Overdue) \ {{}}}
    /\ UNCHANGED <<rows, client>>

ExpireOne(o) ==
    /\ o \in batch
    /\ TryTransition(o, "CANCELLED", "SYSTEM", NoData)
    /\ batch' = batch \ {o}
    /\ UNCHANGED client

WorkerCrash ==
    /\ batch # {}
    /\ batch' = {}
    /\ UNCHANGED <<rows, client>>

Crash(c) ==
    /\ client[c] # Idle
    /\ Finish(c)
    /\ UNCHANGED <<rows, batch>>

-----------------------------------------------------------------------------

ClientNext(c) ==
    \/ SubmitReceipt(c) \/ PersistTransition(c) \/ ReattachReceipt(c)
    \/ BuyerCancels(c) \/ RejectOrder(c) \/ CreateManualRefund(c) \/ Crash(c)

OrderNext(o) ==
    \/ ConfirmDelivery(o) \/ Approve(o) \/ Ship(o) \/ Deliver(o)
    \/ ApproveShort(o) \/ ApprovalFails(o)
    \/ SellerTakesOver(o) \/ BackToBot(o) \/ ExpireOne(o)

RequestNext(c, o) ==
    \/ PlaceOrder(c, o) \/ ResumeOrder(c, o)
    \/ ReadForReattach(c, o) \/ ReadForCancel(c, o)
    \/ \E image \in BOOLEAN : ReadForReceipt(c, o, image)
    \/ \E m \in {"RECEIVED", "MISSING", "UNSAID"} : ReadForReject(c, o, m)
    \/ \E a \in 1..Total[o] : ReadForRefund(c, o, a)

RefundNext(r) ==
    \/ SetDestination(r) \/ MarkPaid(r)
    \/ \E moneyReceived \in BOOLEAN : ResolveSellerHold(r, moneyReceived)

Next ==
    \/ \E c \in Clients : ClientNext(c)
    \/ \E o \in Orders : OrderNext(o)
    \/ \E c \in Clients, o \in Orders : RequestNext(c, o)
    \/ \E r \in RefundIds : RefundNext(r)
    \/ ExpiryReads
    \/ WorkerCrash

Spec == Init /\ [][Next]_vars

\* The cron runs again and again, and the worker does not die in every pass
\* before it comes to the order.  No transaction outlives its 15 seconds.
FairSpec ==
    /\ Spec
    /\ WF_vars(ExpiryReads)
    /\ \A o \in Orders : SF_vars(ExpireOne(o)) /\ WF_vars(ApprovalFails(o))

-----------------------------------------------------------------------------
(* Money and goods of one order.                                           *)

\* While the goods are set aside or gone, every refund of an earlier rejection
\* is cancelled: the seller never owes the goods and the money at once,
\* however approvals, rejections, holds and payouts of the refund interleave
\* (order-state.service.ts 147-163 and 298-310, refund.service.ts 168-184).
NeverGoodsAndMoney ==
    \A r \in RefundIds :
        /\ refunds[r] # NoRefund
        /\ ForStatus(r)
        /\ HoldsStock(status[refunds[r].order])
        => refunds[r].status = "CANCELLED"

FellThroughClaims(o) == {r \in Claims(o) : ForStatus(r)}

\* The refunds made by rejections and cancellations never add up to more than
\* the order, also when a manual refund took a part of it first and when the
\* order was approved and rejected again (refund-tx.ts 16-26).
FellThroughClaimsWithinTotal ==
    \A o \in Orders :
        SumFunction([r \in FellThroughClaims(o) |-> refunds[r].amount]) <= Total[o]

\* Cancelling an order that shows any sign of a payment, whoever cancels it and
\* whatever they had read, leaves refunds for the whole amount behind
\* (order-state.service.ts 271-297): the buyer's money is never just dropped.
CancelledPaymentIsClaimed ==
    [][\A o \in Orders :
          /\ status[o] \in {"RECEIPT_SUBMITTED", "APPROVED"} \/ receipt[o] > 0
          /\ status[o] # "CANCELLED" /\ status'[o] = "CANCELLED"
          => Allotted(o)' >= Total[o]]_vars

\* No refund of a rejection or cancellation becomes payable but by the word
\* of the seller on the money: given in the rejection itself, or when asked
\* afterwards.  A rejection that says nothing of it, because the receipt came
\* in after the panel had read the order, can only make a held one, like the
\* buyer and the cron (order-state.service.ts 288-292, store.service.ts
\* 2657-2672, refund.service.ts 312-324).
Payable(st) == st \in {"AWAITING_DESTINATION", "READY", "DONE"}

SaysReceivedNow(o) ==
    \E c \in Clients :
        /\ Serving(c, "reject")
        /\ client[c].order = o
        /\ client[c].money = "RECEIVED"
        /\ client'[c] = Idle

OnlySellerReleasesMoney ==
    [][\A r \in RefundIds :
          /\ refunds'[r] # NoRefund
          /\ refunds'[r].reason \in StatusReasons
          /\ Payable(refunds'[r].status)
          => \/ /\ refunds[r] # NoRefund
                /\ Payable(refunds[r].status)
             \/ /\ refunds[r] # NoRefund
                /\ refunds[r].status = "AWAITING_SELLER_CONFIRM"
                /\ refunds'[r].status = "AWAITING_DESTINATION"
             \/ /\ refunds[r] = NoRefund
                /\ SaysReceivedNow(refunds'[r].order)]_vars

\* What the whole of it promises: see OrderPromise.
PhaseOf(s) ==
    CASE s = "NONE"                       -> "ABSENT"
      [] s \in {"SHIPPED", "DELIVERED"}   -> "GONE"
      [] s = "APPROVED"                   -> "HELD"
      [] s = "CANCELLED"                  -> "DEAD"
      [] OTHER                            -> "OPEN"

Promise == INSTANCE OrderPromise WITH
    phase    <- [o \in Orders |-> PhaseOf(status[o])],
    returned <- {o \in Orders : PaidBack(o)}

\* An order is accepted only while its money was not paid back, and paid back
\* only while it is not accepted; what is shipped or cancelled stays so
\* (order-state.machine.ts 9-17, order-state.service.ts 147-163 and 300-310).
KeepsPromise == Promise!Spec

\* Every order left unpaid past its deadline leaves PENDING_PAYMENT in the end:
\* no receipt, manual refund or seller's message can pin it there
\* (order-expiry.service.ts 67-94).
OverdueOrderSettles ==
    \A o \in Orders : status[o] = "PENDING_PAYMENT" ~> status[o] # "PENDING_PAYMENT"

-----------------------------------------------------------------------------
(* What the orders of a store share.                                       *)

Holders == {o \in Orders : HoldsStock(status[o])}

Ordered(p) == [o \in Orders |-> Items[o][p]]

Holding(p) == SumFunctionOnSet(Ordered(p), Holders)

SameCard(p) ==
    \A o, q \in Orders :
        o # q /\ Items[o][p] > 0 /\ Items[q][p] > 0
        => CardOf[o] = CardOf[q] /\ CardOf[o] # NoCard

\* No item is lost of a product whose buyers are all shown the same bank card:
\* what is on the shelf and what orders hold is never less than the seller had,
\* although an approval that finds the shelf short writes a zero over whatever
\* is there by then.  The lock on the card, taken before the stock, keeps any
\* other order from giving back in between (order-state.service.ts 201-221,
\* order-stock.util.ts 37-58).  Orders of different cards do lose items.
StockNeverLost ==
    \A p \in Tracked :
        SameCard(p) => stock[p] + Holding(p) >= InitialStock[p]

EnoughFor(p) == InitialStock[p] >= SumFunction(Ordered(p))

\* Of a product of which there is enough for all orders none is invented
\* either, and what is not tracked does not move.
StockExact ==
    /\ \A p \in Tracked :
        EnoughFor(p) => stock[p] + Holding(p) = InitialStock[p]
    /\ \A p \in Products \ Tracked : stock[p] = InitialStock[p]

\* The confirmed total that decides which bank card the next buyer is shown is
\* the sum of the accepted orders of that card (order-state.service.ts 203-218).
CardTotalExact ==
    \A c \in Cards :
        cardTotal[c] = SumFunctionOnSet(Total, {o \in Holders : CardOf[o] = c})

LiveCoded ==
    {o \in Orders : coded[o] /\ status[o] \notin {"REJECTED", "CANCELLED"}}

\* The counter of a discount code never passes its cap, neither by orders
\* placed at the same time nor by orders that leave REJECTED again
\* (conversation-engine.service.ts 7974-7984, order-state.service.ts 326-338).
RedemptionsWithinCap == redemptions <= MaxRedemptions

\* The counter never counts an order twice, nor one that has fallen through.
RedemptionsNeverOverCount == redemptions <= Cardinality(LiveCoded)

\* Without a cap in the way the counter is exactly the orders that carry the
\* code and have not fallen through (order-state.service.ts 222-234).
RedemptionsExact == redemptions = Cardinality(LiveCoded)

-----------------------------------------------------------------------------
(* What comments and tests of the repository say, and the code does not do. *)

\* order-expiry.service.ts 88 takes the conflict of a receipt or an approval at
\* the same moment for granted, and order-lifecycle.e2e-spec.ts 624 says that
\* an order whose buyer sent a receipt does not expire.
ExpiresOnlyUnpaid ==
    [][\A o \in Orders :
          event'[o] # event[o] /\ event'[o].by = "SYSTEM"
          => status[o] = "PENDING_PAYMENT"]_vars

=============================================================================
