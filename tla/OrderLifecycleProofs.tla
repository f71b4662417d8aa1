------------------------ MODULE OrderLifecycleProofs ------------------------
(***************************************************************************)
(* Proofs about OrderLifecycle, for any number of orders, requests, refund *)
(* rows, products and cards, any prices and any cap of the discount code.  *)
(***************************************************************************)
EXTENDS OrderLifecycle, FiniteSetTheorems, TLAPS

Moneys == {"RECEIVED", "MISSING", "UNSAID"}

EventRow == [from : Statuses \cup {"NONE"}, to : Statuses, by : Actors]

Approval == [short : SUBSET Tracked, zeroed : SUBSET Tracked]

-----------------------------------------------------------------------------
(* Typing.                                                                 *)

\* What a transition may be called with.
LEMMA PlainData ==
    ASSUME NEW o \in Orders, NEW b \in BOOLEAN
    PROVE  /\ NoData \in TransitionData(o)
           /\ [NoData EXCEPT !.image = b] \in TransitionData(o)
  <1>1. Total[o] \in Nat
    BY OrderStateAssumption
  <1>2. NoData \in TransitionData(o)
    BY <1>1 DEF NoData, TransitionData
  <1> QED BY <1>2 DEF TransitionData

LEMMA SellerData ==
    ASSUME NEW o \in Orders, NEW m \in Moneys, NEW a \in 0..Total[o]
    PROVE  [NoData EXCEPT !.money = m, !.amount = a] \in TransitionData(o)
  BY PlainData DEF TransitionData, Moneys

\* Inserting a refund keeps the table well-formed.
LEMMA InsertType ==
    ASSUME refunds \in [RefundIds -> Refund \cup {NoRefund}],
           NEW o \in Orders, NEW a \in Nat \ {0}, NEW why \in RefundReasons,
           NEW st \in RefundStatuses, InsertRefund(o, a, why, st)
    PROVE  refunds' \in [RefundIds -> Refund \cup {NoRefund}]
  BY DEF InsertRefund, Refund

LEMMA RefundEffectType ==
    ASSUME RowsTypeOK, NEW o \in Orders, NEW to \in Statuses,
           NEW d \in TransitionData(o), Commits(o, to, d), RefundEffect(o, to, d)
    PROVE  refunds' \in [RefundIds -> Refund \cup {NoRefund}]
  <1>1. CASE to = "APPROVED" /\
             refunds' = [r \in RefundIds |->
                 IF CancelledByApproval(o, r)
                 THEN [refunds[r] EXCEPT !.status = "CANCELLED"] ELSE refunds[r]]
    <2>1. ASSUME NEW r \in RefundIds
          PROVE  refunds'[r] \in Refund \cup {NoRefund}
      BY <1>1 DEF RowsTypeOK, CancelledByApproval, Refund, RefundStatuses
    <2> QED BY <1>1, <2>1
  <1>2. CASE /\ InsertsRefund(o, to, d)
             /\ InsertRefund(o, RefundAmount(o, d),
                    IF to = "REJECTED" THEN "ORDER_REJECTED" ELSE "ORDER_CANCELLED",
                    InitialRefundStatus(d))
    <2>1. RefundAmount(o, d) \in Nat \ {0}
      BY <1>2, OrderStateAssumption DEF Commits, ValidAmount
    <2>2. InitialRefundStatus(d) \in RefundStatuses
      BY DEF InitialRefundStatus, RefundStatuses
    <2> QED
      BY <1>2, <2>1, <2>2, InsertType
         DEF RowsTypeOK, RefundReasons, StatusReasons
  <1>3. CASE UNCHANGED refunds
    BY <1>3 DEF RowsTypeOK
  <1> QED BY <1>1, <1>2, <1>3 DEF RefundEffect

LEMMA StockEffectType ==
    ASSUME RowsTypeOK, NEW o \in Orders, NEW to \in Statuses,
           Takes(o, to) => GoodsMovable(o, to), StockEffect(o, to)
    PROVE  stock' \in [Products -> Nat]
  <1>1. ASSUME NEW p \in Products
        PROVE  stock'[p] \in Nat
    <2>1. stock[p] \in Nat /\ Items[o][p] \in Nat
      BY OrderStateAssumption DEF RowsTypeOK
    <2>2. Takes(o, to) /\ p \in Tracked \ approval[o].zeroed
              => Items[o][p] <= stock[p]
      BY <2>1 DEF GoodsMovable, InCart
    <2> QED BY <2>1, <2>2 DEF StockEffect
  <1> QED BY <1>1 DEF StockEffect

LEMMA CardEffectType ==
    ASSUME RowsTypeOK, NEW o \in Orders, NEW to \in Statuses, CardEffect(o, to)
    PROVE  cardTotal' \in [Cards -> Nat]
  BY OrderStateAssumption DEF RowsTypeOK, CardEffect, Monus

LEMMA DiscountEffectType ==
    ASSUME RowsTypeOK, NEW o \in Orders, NEW to \in Statuses, DiscountEffect(o, to)
    PROVE  redemptions' \in Nat
  BY OrderStateAssumption DEF RowsTypeOK, DiscountEffect, Reconsumed, Monus

\* A transition keeps every row well-formed.
LEMMA TransitionType ==
    ASSUME RowsTypeOK, NEW o \in Orders, NEW to \in Statuses, NEW by \in Actors,
           NEW d \in TransitionData(o), Transition(o, to, by, d)
    PROVE  RowsTypeOK'
  <1>1. status' \in [Orders -> Statuses \cup {"NONE"}]
    BY DEF RowsTypeOK, Transition
  <1>2. receipt' \in [Orders -> Nat]
    BY DEF RowsTypeOK, Transition
  <1>3. coded' \in [Orders -> BOOLEAN]
    BY DEF RowsTypeOK, Transition
  <1>4. refunds' \in [RefundIds -> Refund \cup {NoRefund}]
    BY RefundEffectType DEF Transition
  <1>5. stock' \in [Products -> Nat] /\ cardTotal' \in [Cards -> Nat]
    BY StockEffectType, CardEffectType DEF Transition
  <1>10. approval' \in [Orders -> Approval]
    BY DEF RowsTypeOK, Transition, NoApproval, Approval
  <1>6. redemptions' \in Nat
    BY DiscountEffectType DEF Transition
  <1>7. conv' \in [Orders -> ConvStates]
    <2>1. ConvAfter(o, to) \in ConvStates
      BY DEF RowsTypeOK, ConvAfter, ConvStates
    <2> QED BY <2>1 DEF RowsTypeOK, Transition
  <1>8. muted' \in [Orders -> BOOLEAN]
    <2>1. (muted[o] \/ to = "REJECTED") \in BOOLEAN
      OBVIOUS
    <2> QED BY <2>1, Zenon DEF RowsTypeOK, Transition
  <1>9. event' \in [Orders -> EventRow \cup {NoEvent}]
    <2>1. [from |-> status[o], to |-> to, by |-> by] \in EventRow
      BY DEF EventRow, RowsTypeOK
    <2> QED BY <2>1 DEF RowsTypeOK, Transition, EventRow
  <1> QED
    BY <1>1, <1>2, <1>3, <1>4, <1>5, <1>6, <1>7, <1>8, <1>9, <1>10
       DEF RowsTypeOK, EventRow, Approval

\* What an approval under way notes of itself.
LEMMA ApprovalType ==
    ASSUME RowsTypeOK, NEW o \in Orders,
           \/ ZeroStock(o) \/ RollBack(o)
           \/ \E p \in Products : FindShort(o, p)
    PROVE  approval' \in [Orders -> Approval]
  <1>1. approval \in [Orders -> Approval] /\ approval[o] \in Approval
    BY DEF RowsTypeOK, Approval
  <1>2. \E a \in Approval : approval' = [approval EXCEPT ![o] = a]
    <2>1. CASE RollBack(o)
      BY <2>1 DEF RollBack, NoApproval, Approval
    <2>2. CASE ZeroStock(o)
      <3>1. [short |-> {}, zeroed |-> approval[o].zeroed \cup approval[o].short]
                \in Approval
        BY <1>1 DEF Approval
      <3> QED BY <1>1, <2>2, <3>1 DEF ZeroStock
    <2>3. ASSUME NEW p \in Products, FindShort(o, p)
          PROVE  \E a \in Approval : approval' = [approval EXCEPT ![o] = a]
      <3>1. [approval[o] EXCEPT !.short = {p}] \in Approval
        BY <1>1, <2>3 DEF FindShort, InCart, Approval
      <3>2. approval' = [approval EXCEPT ![o] = [approval[o] EXCEPT !.short = {p}]]
        BY <2>3 DEF FindShort
      <3> QED BY <3>1, <3>2
    <2> QED BY <2>1, <2>2, <2>3
  <1> QED BY <1>1, <1>2

LEMMA TryTransitionType ==
    ASSUME RowsTypeOK, NEW o \in Orders, NEW to \in Statuses, NEW by \in Actors,
           NEW d \in TransitionData(o), TryTransition(o, to, by, d)
    PROVE  RowsTypeOK'
  BY TransitionType DEF TryTransition, RowsTypeOK, rows

\* The fields of the request that a slot serves.
LEMMA ServedJob ==
    ASSUME client \in [Clients -> Job \cup {Idle}], NEW c \in Clients,
           client[c] # Idle
    PROVE  /\ client[c].order \in Orders
           /\ client[c].kind = "receipt" => client[c].image \in BOOLEAN
           /\ client[c].kind = "persist" => client[c].next \in ConvStates
           /\ client[c].kind = "reattach" => client[c].seen \in Statuses
           /\ client[c].kind = "reject" => client[c].money \in Moneys
           /\ client[c].kind = "refund" => client[c].amount \in Nat \ {0}
  <1>1. client[c] \in Job
    OBVIOUS
  <1> QED BY <1>1 DEF Job, Moneys

LEMMA StartType ==
    ASSUME client \in [Clients -> Job \cup {Idle}], NEW c \in Clients,
           NEW job \in Job, Start(c, job)
    PROVE  client' \in [Clients -> Job \cup {Idle}]
  BY DEF Start

LEMMA FinishType ==
    ASSUME client \in [Clients -> Job \cup {Idle}], NEW c \in Clients, Finish(c)
    PROVE  client' \in [Clients -> Job \cup {Idle}]
  BY DEF Finish

\* Every step keeps the types: requests that read, one row written by hand,
\* or one transition.
LEMMA TypeStep == TypeOK /\ [Next]_vars => TypeOK'
  <1> SUFFICES ASSUME TypeOK, [Next]_vars
               PROVE  TypeOK'
    OBVIOUS
  <1> USE DEF TypeOK
  <1>1. ASSUME NEW c \in Clients, ClientNext(c)
        PROVE  TypeOK'
    <2>1. CASE SubmitReceipt(c)
      <3> DEFINE o == client[c].order
                 d == [NoData EXCEPT !.image = client[c].image]
      <3>1. o \in Orders /\ client[c].image \in BOOLEAN
        BY <2>1, ServedJob DEF SubmitReceipt, Serving
      <3>2. d \in TransitionData(o)
        BY <3>1, PlainData
      <3>3. [kind |-> "persist", order |-> o, next |-> "AWAITING_SELLER_APPROVAL"]
                \in Job
        BY <3>1 DEF Job, ConvStates
      <3>4. CASE Transition(o, "RECEIPT_SUBMITTED", "BUYER", d)
        <4>1. RowsTypeOK'
          BY <3>1, <3>2, <3>4, TransitionType DEF Statuses, Actors
        <4> QED BY <2>1, <3>3, <4>1 DEF SubmitReceipt, Finish
      <3>5. CASE UNCHANGED rows
        BY <2>1, <3>3, <3>5, FinishType DEF SubmitReceipt, RowsTypeOK, rows
      <3> QED BY <2>1, <3>4, <3>5 DEF SubmitReceipt
    <2>2. CASE PersistTransition(c)
      BY <2>2, ServedJob, FinishType
         DEF PersistTransition, Serving, RowsTypeOK
    <2>3. CASE ReattachReceipt(c)
      <3> DEFINE o == client[c].order
      <3>1. o \in Orders
        BY <2>3, ServedJob DEF ReattachReceipt, Serving
      <3>2. [NoData EXCEPT !.image = TRUE] \in TransitionData(o)
        BY <3>1, PlainData
      <3>3. CASE client[c].seen = "REJECTED"
        BY <2>3, <3>1, <3>2, <3>3, TryTransitionType, FinishType
           DEF ReattachReceipt, Statuses, Actors
      <3>4. CASE client[c].seen # "REJECTED"
        BY <2>3, <3>1, <3>4, FinishType DEF ReattachReceipt, RowsTypeOK
      <3> QED BY <3>3, <3>4
    <2>4. CASE BuyerCancels(c)
      <3>1. client[c].order \in Orders
        BY <2>4, ServedJob DEF BuyerCancels, Serving
      <3>2. NoData \in TransitionData(client[c].order)
        BY <3>1, PlainData
      <3> QED
        BY <2>4, <3>1, <3>2, TryTransitionType, FinishType
           DEF BuyerCancels, Statuses, Actors
    <2>5. CASE RejectOrder(c)
      <3> DEFINE o == client[c].order
      <3>1. o \in Orders /\ client[c].money \in Moneys
        BY <2>5, ServedJob DEF RejectOrder, Serving
      <3>2. PICK a \in 0..Total[o] :
               TryTransition(o, "REJECTED", "SELLER",
                   [NoData EXCEPT !.money = client[c].money, !.amount = a])
        BY <2>5 DEF RejectOrder
      <3>3. [NoData EXCEPT !.money = client[c].money, !.amount = a]
                \in TransitionData(o)
        BY <3>1, SellerData
      <3> QED
        BY <2>5, <3>1, <3>2, <3>3, TryTransitionType, FinishType
           DEF RejectOrder, Statuses, Actors
    <2>6. CASE CreateManualRefund(c)
      <3>1. client[c].order \in Orders /\ client[c].amount \in Nat \ {0}
        BY <2>6, ServedJob DEF CreateManualRefund, Serving
      <3>2. refunds' \in [RefundIds -> Refund \cup {NoRefund}]
        BY <2>6, <3>1, InsertType
           DEF CreateManualRefund, RowsTypeOK, RefundReasons, RefundStatuses
      <3> QED BY <2>6, <3>2, FinishType DEF CreateManualRefund, RowsTypeOK
    <2>7. CASE Crash(c)
      BY <2>7, FinishType DEF Crash, RowsTypeOK, rows
    <2> QED
      BY <1>1, <2>1, <2>2, <2>3, <2>4, <2>5, <2>6, <2>7 DEF ClientNext
  <1>2. ASSUME NEW o \in Orders, OrderNext(o)
        PROVE  TypeOK'
    <2>1. NoData \in TransitionData(o)
      BY PlainData
    <2>2. CASE ConfirmDelivery(o)
      BY <2>1, <2>2, TransitionType DEF ConfirmDelivery, Statuses, Actors
    <2>3. CASE Approve(o)
      BY <2>1, <2>3, TransitionType DEF Approve, Statuses, Actors
    <2>4. CASE Ship(o)
      BY <2>1, <2>4, TransitionType DEF Ship, Statuses, Actors
    <2>5. CASE Deliver(o)
      BY <2>1, <2>5, TransitionType DEF Deliver, Statuses, Actors
    <2>6. CASE SellerTakesOver(o)
      BY <2>6 DEF SellerTakesOver, RowsTypeOK
    <2>7. CASE BackToBot(o)
      BY <2>7 DEF BackToBot, RowsTypeOK, ConvStates
    <2>8. CASE ExpireOne(o)
      BY <2>1, <2>8, TryTransitionType DEF ExpireOne, Statuses, Actors
    <2>9. CASE ApproveShort(o) \/ ApprovalFails(o)
      <3>1. approval' \in [Orders -> Approval]
        BY <2>9, ApprovalType DEF ApproveShort, ApprovalFails
      <3> QED
        BY <2>9, <3>1
           DEF ApproveShort, ApprovalFails, FindShort, ZeroStock, RollBack,
               RowsTypeOK, Approval
    <2> QED
      BY <1>2, <2>2, <2>3, <2>4, <2>5, <2>6, <2>7, <2>8, <2>9 DEF OrderNext
  <1>3. ASSUME NEW c \in Clients, NEW o \in Orders, RequestNext(c, o)
        PROVE  TypeOK'
    <2>1. CASE PlaceOrder(c, o)
      <3>1. client' \in [Clients -> Job \cup {Idle}]
        BY <2>1, StartType DEF PlaceOrder, Job, ConvStates
      <3>2. /\ coded' \in [Orders -> BOOLEAN]
            /\ redemptions' \in Nat
            /\ status' \in [Orders -> Statuses \cup {"NONE"}]
        BY <2>1 DEF PlaceOrder, GrantsCode, RowsTypeOK, Statuses
      <3>3. event' \in [Orders -> EventRow \cup {NoEvent}]
        BY <2>1 DEF PlaceOrder, RowsTypeOK, EventRow, Statuses, Actors
      <3> QED BY <2>1, <3>1, <3>2, <3>3 DEF PlaceOrder, RowsTypeOK, EventRow
    <2>2. CASE ResumeOrder(c, o)
      BY <2>2, StartType DEF ResumeOrder, Job, ConvStates, RowsTypeOK, rows
    <2>3. CASE ReadForReattach(c, o)
      BY <2>3, StartType DEF ReadForReattach, Job, Statuses, RowsTypeOK, rows
    <2>4. CASE ReadForCancel(c, o)
      BY <2>4, StartType DEF ReadForCancel, Job, RowsTypeOK, rows
    <2>5. ASSUME NEW image \in BOOLEAN, ReadForReceipt(c, o, image)
          PROVE  TypeOK'
      BY <2>5, StartType
         DEF ReadForReceipt, Job, RowsTypeOK, rows
    <2>6. ASSUME NEW m \in Moneys, ReadForReject(c, o, m)
          PROVE  TypeOK'
      BY <2>6, StartType
         DEF ReadForReject, Job, RowsTypeOK, rows, Moneys
    <2>7. ASSUME NEW a \in 1..Total[o], ReadForRefund(c, o, a)
          PROVE  TypeOK'
      <3>1. [kind |-> "refund", order |-> o, amount |-> a] \in Job
        BY OrderStateAssumption DEF Job
      <3> QED BY <2>7, <3>1, StartType DEF ReadForRefund, RowsTypeOK, rows
    <2> QED
      BY <1>3, <2>1, <2>2, <2>3, <2>4, <2>5, <2>6, <2>7 DEF RequestNext, Moneys
  <1>4. ASSUME NEW r \in RefundIds, RefundNext(r)
        PROVE  TypeOK'
    <2>1. ASSUME NEW st \in RefundStatuses, refunds[r] # NoRefund,
                 SetRefundStatus(r, st)
          PROVE  TypeOK'
      BY <2>1 DEF SetRefundStatus, RowsTypeOK, Refund
    <2>2. CASE SetDestination(r)
      BY <2>1, <2>2 DEF SetDestination, RefundStatuses
    <2>3. CASE MarkPaid(r)
      BY <2>1, <2>3 DEF MarkPaid, RefundStatuses
    <2>4. ASSUME NEW m \in BOOLEAN, ResolveSellerHold(r, m)
          PROVE  TypeOK'
      BY <2>1, <2>4 DEF ResolveSellerHold, RefundStatuses
    <2> QED BY <1>4, <2>2, <2>3, <2>4 DEF RefundNext
  <1>5. CASE ExpiryReads \/ WorkerCrash
    BY <1>5 DEF ExpiryReads, WorkerCrash, Overdue, RowsTypeOK, rows
  <1>6. CASE UNCHANGED vars
    BY <1>6 DEF vars, rows, RowsTypeOK
  <1> QED BY <1>1, <1>2, <1>3, <1>4, <1>5, <1>6 DEF Next

\* The rows and the requests keep their shapes for ever.
THEOREM TypeCorrect == Spec => []TypeOK
  <1>1. Init => TypeOK
    BY OrderStateAssumption
       DEF Init, RowsInit, TypeOK, RowsTypeOK, ConvStates, NoApproval
  <1> QED BY <1>1, TypeStep, PTL DEF Spec

-----------------------------------------------------------------------------
(* The steps as the tables see them.                                       *)

\* A transition with what was said about the money: only a seller's rejection
\* says that it arrived, and a cancellation comes without data.
SomeTransition ==
    \E o \in Orders, to \in Statuses, by \in Actors :
        \E d \in TransitionData(o) :
            /\ d.money = "RECEIVED" => SaysReceivedNow(o)
            /\ to = "CANCELLED" => d = NoData
            /\ Transition(o, to, by, d)

Tables == <<status, coded, refunds, stock, cardTotal, redemptions, event>>

\* Every step is a transition, a new order, a refund row made or moved by hand,
\* a statement of an approval that comes up short, or leaves all of it alone.
LEMMA AllStepCases ==
    ASSUME TypeOK, [Next]_vars
    PROVE  \/ SomeTransition
           \/ \E c \in Clients, o \in Orders : PlaceOrder(c, o)
           \/ \E c \in Clients : CreateManualRefund(c)
           \/ \E r \in RefundIds : RefundNext(r)
           \/ \E o \in Orders : ApproveShort(o) \/ ApprovalFails(o)
           \/ UNCHANGED <<Tables, approval>>
  <1> DEFINE Goal == \/ SomeTransition
                     \/ \E c \in Clients, o \in Orders : PlaceOrder(c, o)
                     \/ \E c \in Clients : CreateManualRefund(c)
                     \/ \E r \in RefundIds : RefundNext(r)
                     \/ \E o \in Orders : ApproveShort(o) \/ ApprovalFails(o)
                     \/ UNCHANGED <<Tables, approval>>
  <1>1. ASSUME NEW o \in Orders, NEW to \in Statuses, NEW by \in Actors,
               NEW d \in TransitionData(o),
               d.money = "RECEIVED" => SaysReceivedNow(o),
               to = "CANCELLED" => d = NoData,
               Transition(o, to, by, d) \/ TryTransition(o, to, by, d)
        PROVE  Goal
    BY <1>1 DEF SomeTransition, TryTransition, Tables, rows
  <1>2. ASSUME NEW o \in Orders, NEW b \in BOOLEAN
        PROVE  /\ NoData \in TransitionData(o)
               /\ NoData.money = "UNSAID"
               /\ [NoData EXCEPT !.image = b] \in TransitionData(o)
               /\ [NoData EXCEPT !.image = b].money = "UNSAID"
    BY PlainData DEF NoData
  <1>3. ASSUME NEW c \in Clients, ClientNext(c)
        PROVE  Goal
    <2> DEFINE o == client[c].order
    <2>1. client[c] # Idle => o \in Orders
      BY ServedJob DEF TypeOK
    <2>2. CASE SubmitReceipt(c)
      <3> DEFINE d == [NoData EXCEPT !.image = client[c].image]
      <3>1. o \in Orders /\ client[c].image \in BOOLEAN
        BY <2>2, ServedJob DEF SubmitReceipt, Serving, TypeOK
      <3>2. d \in TransitionData(o) /\ d.money = "UNSAID"
        BY <1>2, <3>1
      <3>3. Transition(o, "RECEIPT_SUBMITTED", "BUYER", d) \/ UNCHANGED rows
        BY <2>2 DEF SubmitReceipt
      <3>4. UNCHANGED rows => UNCHANGED <<Tables, approval>>
        BY DEF rows, Tables
      <3> QED BY <1>1, <3>1, <3>2, <3>3, <3>4 DEF Statuses, Actors
    <2>3. CASE ReattachReceipt(c)
      <3>1. o \in Orders
        BY <2>1, <2>3 DEF ReattachReceipt, Serving
      <3>2. TryTransition(o, "RECEIPT_SUBMITTED", "BUYER",
                          [NoData EXCEPT !.image = TRUE])
            \/ UNCHANGED <<Tables, approval>>
        BY <2>3 DEF ReattachReceipt, Tables
      <3> QED BY <1>1, <1>2, <3>1, <3>2 DEF Statuses, Actors
    <2>4. CASE BuyerCancels(c)
      BY <1>1, <1>2, <2>1, <2>4 DEF BuyerCancels, Serving, Statuses, Actors
    <2>5. CASE RejectOrder(c)
      <3>1. o \in Orders /\ client[c].money \in Moneys
        BY <2>5, ServedJob DEF RejectOrder, Serving, TypeOK
      <3>2. PICK a \in 0..Total[o] :
               TryTransition(o, "REJECTED", "SELLER",
                   [NoData EXCEPT !.money = client[c].money, !.amount = a])
        BY <2>5 DEF RejectOrder
      <3>3. [NoData EXCEPT !.money = client[c].money, !.amount = a]
                \in TransitionData(o)
        BY <3>1, SellerData
      <3>4. client[c].money = "RECEIVED" => SaysReceivedNow(o)
        BY <2>5 DEF RejectOrder, SaysReceivedNow, Finish, TypeOK
      <3> DEFINE d == [NoData EXCEPT !.money = client[c].money, !.amount = a]
      <3>5. d.money = client[c].money
        BY DEF NoData
      <3> HIDE DEF d
      <3> QED BY <1>1, <3>1, <3>2, <3>3, <3>4, <3>5 DEF Statuses, Actors, d
    <2>6. CASE CreateManualRefund(c)
      BY <2>6
    <2>7. CASE PersistTransition(c) \/ Crash(c)
      BY <2>7 DEF PersistTransition, Crash, Tables, rows
    <2> QED BY <1>3, <2>2, <2>3, <2>4, <2>5, <2>6, <2>7 DEF ClientNext
  <1>4. ASSUME NEW o \in Orders, OrderNext(o)
        PROVE  Goal
    <2>1. CASE SellerTakesOver(o) \/ BackToBot(o)
      BY <2>1 DEF SellerTakesOver, BackToBot, Tables
    <2>2. CASE ConfirmDelivery(o) \/ Approve(o) \/ Ship(o) \/ Deliver(o)
      BY <1>1, <1>2, <2>2
         DEF ConfirmDelivery, Approve, Ship, Deliver, Statuses, Actors
    <2>3. CASE ExpireOne(o)
      BY <1>1, <1>2, <2>3 DEF ExpireOne, Statuses, Actors
    <2>4. CASE ApproveShort(o) \/ ApprovalFails(o)
      BY <2>4
    <2> QED BY <1>4, <2>1, <2>2, <2>3, <2>4 DEF OrderNext
  <1>5. ASSUME NEW c \in Clients, NEW o \in Orders, RequestNext(c, o)
        PROVE  Goal
    BY <1>5
       DEF RequestNext, ResumeOrder, ReadForReattach, ReadForCancel,
           ReadForReceipt, ReadForReject, ReadForRefund, Tables, rows
  <1>6. CASE ExpiryReads \/ WorkerCrash \/ UNCHANGED vars
    BY <1>6 DEF ExpiryReads, WorkerCrash, vars, rows, Tables
  <1> QED BY <1>3, <1>4, <1>5, <1>6 DEF Next

\* What an approval under way notes is in no table yet.
LEMMA StepCases ==
    ASSUME TypeOK, [Next]_vars
    PROVE  \/ SomeTransition
           \/ \E c \in Clients, o \in Orders : PlaceOrder(c, o)
           \/ \E c \in Clients : CreateManualRefund(c)
           \/ \E r \in RefundIds : RefundNext(r)
           \/ UNCHANGED Tables
  <1>1. (\E o \in Orders : ApproveShort(o) \/ ApprovalFails(o)) => UNCHANGED Tables
    BY DEF ApproveShort, ApprovalFails, FindShort, ZeroStock, RollBack, Tables
  <1> QED BY <1>1, AllStepCases

\* What a transition does to one refund row.
LEMMA TransitionRefunds ==
    ASSUME TypeOK, NEW o \in Orders, NEW to \in Statuses, NEW by \in Actors,
           NEW d \in TransitionData(o), Transition(o, to, by, d),
           NEW r \in RefundIds
    PROVE  \/ /\ refunds'[r] = refunds[r]
              /\ ~(to = "APPROVED" /\ CancelledByApproval(o, r))
           \/ /\ to = "APPROVED" /\ CancelledByApproval(o, r)
              /\ refunds'[r] = [refunds[r] EXCEPT !.status = "CANCELLED"]
              /\ refunds'[r] \in Refund
           \/ /\ refunds[r] = NoRefund /\ refunds'[r] # NoRefund
              /\ to \in {"REJECTED", "CANCELLED"}
              /\ refunds'[r].order = o
              /\ refunds'[r].status = InitialRefundStatus(d)
  <1>1. refunds' \in [RefundIds -> Refund \cup {NoRefund}]
    BY TransitionType DEF TypeOK, RowsTypeOK
  <1>2. RefundEffect(o, to, d)
    BY DEF Transition
  <1>3. CASE to = "APPROVED"
    <2>1. ~InsertsRefund(o, to, d)
      BY <1>3 DEF InsertsRefund, RefundRequired
    <2>2. refunds'[r] = IF CancelledByApproval(o, r)
                        THEN [refunds[r] EXCEPT !.status = "CANCELLED"]
                        ELSE refunds[r]
      BY <1>2, <1>3, <2>1 DEF RefundEffect
    <2> QED
      BY <1>1, <1>3, <2>2, SentinelAssumption
         DEF CancelledByApproval, TypeOK, RowsTypeOK, Refund, RefundStatuses
  <1>4. CASE InsertsRefund(o, to, d)
    <2> DEFINE why == IF to = "REJECTED" THEN "ORDER_REJECTED" ELSE "ORDER_CANCELLED"
    <2>1. to \in {"REJECTED", "CANCELLED"}
      BY <1>4 DEF InsertsRefund, RefundRequired
    <2>2. PICK q \in RefundIds :
             /\ refunds[q] = NoRefund
             /\ refunds' = [refunds EXCEPT ![q] =
                    [order |-> o, amount |-> RefundAmount(o, d), reason |-> why,
                     status |-> InitialRefundStatus(d)]]
      BY <1>2, <1>4, <2>1 DEF RefundEffect, InsertRefund, NextRefundId
    <2>3. RefundAmount(o, d) \in Nat \ {0}
      BY <1>4, OrderStateAssumption DEF Transition, Commits, ValidAmount
    <2>4. InitialRefundStatus(d) \in RefundStatuses
      BY DEF InitialRefundStatus, RefundStatuses
    <2>5. [order |-> o, amount |-> RefundAmount(o, d), reason |-> why,
           status |-> InitialRefundStatus(d)] \in Refund
      BY <2>3, <2>4 DEF Refund, RefundReasons, StatusReasons
    <2> QED
      BY <2>1, <2>2, <2>5, SentinelAssumption DEF TypeOK, RowsTypeOK
  <1>5. CASE to # "APPROVED" /\ ~InsertsRefund(o, to, d)
    BY <1>2, <1>5 DEF RefundEffect
  <1> QED BY <1>3, <1>4, <1>5

\* What the three ways to move a refund row have in common.
LEMMA RefundMoves ==
    ASSUME TypeOK, NEW r \in RefundIds, RefundNext(r)
    PROVE  /\ UNCHANGED <<status, coded, stock, cardTotal, redemptions, event,
                          client>>
           /\ \E st \in RefundStatuses :
                 /\ refunds' = [refunds EXCEPT ![r].status = st]
                 /\ refunds[r] # NoRefund
                 /\ \/ st = "READY" /\ CanSetDestination(r)
                    \/ st = "DONE" /\ CanPay(r)
                    \/ /\ st \in {"AWAITING_DESTINATION", "CANCELLED"}
                       /\ refunds[r].status = "AWAITING_SELLER_CONFIRM"
  BY DEF RefundNext, SetDestination, MarkPaid, ResolveSellerHold,
         SetRefundStatus, RefundStatuses

-----------------------------------------------------------------------------
(* Never the goods and the money.                                          *)

\* The invariant is inductive together with the types: an approval is refused
\* when the money was paid back and otherwise cancels what is left of it, and
\* no other step makes a refund of an order that holds goods or revives one.
LEMMA GoodsAndMoneyStep ==
    TypeOK /\ NeverGoodsAndMoney /\ [Next]_vars => NeverGoodsAndMoney'
  <1> SUFFICES ASSUME TypeOK, NeverGoodsAndMoney, [Next]_vars,
                      NEW r \in RefundIds,
                      refunds'[r] # NoRefund, ForStatus(r)',
                      HoldsStock(status'[refunds'[r].order])
               PROVE  refunds'[r].status = "CANCELLED"
    BY DEF NeverGoodsAndMoney
  <1>1. ASSUME NEW o \in Orders, NEW to \in Statuses, NEW by \in Actors,
               NEW d \in TransitionData(o), Transition(o, to, by, d)
        PROVE  refunds'[r].status = "CANCELLED"
    <2>1. status' = [status EXCEPT ![o] = to] /\ Commits(o, to, d)
      BY <1>1 DEF Transition
    <2>2. CASE /\ refunds'[r] = refunds[r]
               /\ ~(to = "APPROVED" /\ CancelledByApproval(o, r))
      <3>1. refunds[r] \in Refund /\ refunds[r].order \in Orders
            /\ ForStatus(r) /\ refunds[r].status \in RefundStatuses
        BY <2>2 DEF TypeOK, RowsTypeOK, Refund, ForStatus
      <3>2. CASE HoldsStock(status[refunds[r].order])
        BY <2>2, <3>1, <3>2 DEF NeverGoodsAndMoney
      <3>3. CASE ~HoldsStock(status[refunds[r].order])
        <4>1. refunds[r].order = o /\ HoldsStock(to)
          BY <2>1, <2>2, <3>1, <3>3 DEF TypeOK, RowsTypeOK
        <4>2. to = "APPROVED"
          BY <2>1, <3>3, <4>1
             DEF Commits, CanTransition, OrderTransitions, HoldsStock, StockHeld
        <4>3. refunds[r].status # "DONE"
          BY <2>1, <2>2, <3>1, <4>1, <4>2
             DEF Commits, Reopens, PaidBack, RefundsOf
        <4> QED
          BY <2>2, <3>1, <4>1, <4>2, <4>3
             DEF CancelledByApproval, RefundStatuses
      <3> QED BY <3>2, <3>3
    <2>3. CASE /\ CancelledByApproval(o, r)
               /\ refunds'[r] = [refunds[r] EXCEPT !.status = "CANCELLED"]
      BY <2>3 DEF TypeOK, RowsTypeOK, CancelledByApproval, Refund
    <2>4. CASE to \in {"REJECTED", "CANCELLED"} /\ refunds'[r].order = o
      BY <2>1, <2>4 DEF TypeOK, RowsTypeOK, HoldsStock, StockHeld
    <2> QED BY <1>1, <2>2, <2>3, <2>4, TransitionRefunds
  <1>2. ASSUME NEW c \in Clients, NEW o \in Orders, PlaceOrder(c, o)
        PROVE  refunds'[r].status = "CANCELLED"
    BY <1>2 DEF PlaceOrder, NeverGoodsAndMoney, TypeOK, RowsTypeOK, Refund,
                ForStatus, HoldsStock, StockHeld
  <1>3. ASSUME NEW c \in Clients, CreateManualRefund(c)
        PROVE  refunds'[r].status = "CANCELLED"
    BY <1>3 DEF CreateManualRefund, InsertRefund, NeverGoodsAndMoney,
                TypeOK, RowsTypeOK, ForStatus, StatusReasons
  <1>4. ASSUME NEW q \in RefundIds, RefundNext(q)
        PROVE  refunds'[r].status = "CANCELLED"
    <2>1. PICK st \in RefundStatuses :
             /\ status' = status
             /\ refunds' = [refunds EXCEPT ![q].status = st]
             /\ refunds[q] # NoRefund
             /\ refunds[q].status # "CANCELLED"
      BY <1>4, RefundMoves DEF CanSetDestination, CanPay
    <2>2. refunds[q] \in Refund
      BY <2>1 DEF TypeOK, RowsTypeOK
    <2>3. CASE r = q
      BY <2>1, <2>2, <2>3
         DEF NeverGoodsAndMoney, TypeOK, RowsTypeOK, Refund, ForStatus
    <2>4. CASE r # q
      BY <2>1, <2>4 DEF NeverGoodsAndMoney, TypeOK, RowsTypeOK, ForStatus
    <2> QED BY <2>3, <2>4
  <1>5. CASE UNCHANGED Tables
    BY <1>5 DEF Tables, NeverGoodsAndMoney, ForStatus
  <1> QED BY <1>1, <1>2, <1>3, <1>4, <1>5, StepCases DEF SomeTransition

\* Whatever the requests, the sellers and the cron do, an order whose goods are
\* set aside or gone has no live refund of an earlier rejection.
THEOREM NoGoodsWithMoney == Spec => []NeverGoodsAndMoney
  <1>1. Init => NeverGoodsAndMoney
    BY DEF Init, RowsInit, NeverGoodsAndMoney
  <1> QED BY <1>1, TypeCorrect, GoodsAndMoneyStep, PTL DEF Spec

-----------------------------------------------------------------------------
(* The discount code.                                                      *)

LEMMA CapStep == TypeOK /\ RedemptionsWithinCap /\ [Next]_vars
                    => RedemptionsWithinCap'
  <1> SUFFICES ASSUME TypeOK, RedemptionsWithinCap, [Next]_vars
               PROVE  redemptions' <= MaxRedemptions
    BY DEF RedemptionsWithinCap
  <1> USE OrderStateAssumption DEF RedemptionsWithinCap, TypeOK, RowsTypeOK
  <1>1. CASE SomeTransition
    BY <1>1 DEF SomeTransition, Transition, DiscountEffect, Reconsumed, Monus
  <1>2. ASSUME NEW c \in Clients, NEW o \in Orders, PlaceOrder(c, o)
        PROVE  redemptions' <= MaxRedemptions
    BY <1>2 DEF PlaceOrder, GrantsCode
  <1>3. ASSUME NEW c \in Clients, CreateManualRefund(c)
        PROVE  redemptions' <= MaxRedemptions
    BY <1>3 DEF CreateManualRefund
  <1>4. ASSUME NEW r \in RefundIds, RefundNext(r)
        PROVE  redemptions' <= MaxRedemptions
    BY <1>4, RefundMoves
  <1>5. CASE UNCHANGED Tables
    BY <1>5 DEF Tables
  <1> QED BY <1>1, <1>2, <1>3, <1>4, <1>5, StepCases

\* No number of orders, placed or revived in any order, brings the counter of
\* the code over its cap.
THEOREM CapHolds == Spec => []RedemptionsWithinCap
  <1>1. Init => RedemptionsWithinCap
    BY OrderStateAssumption DEF Init, RowsInit, RedemptionsWithinCap
  <1> QED BY <1>1, TypeCorrect, CapStep, PTL DEF Spec

UnplacedUncoded == \A o \in Orders : status[o] = "NONE" => ~coded[o]

\* What a step does to the orders that count as uses of the code, and to the
\* counter.
LEMMA LiveSteps ==
    ASSUME TypeOK, UnplacedUncoded, [Next]_vars
    PROVE  /\ UnplacedUncoded'
           /\ \/ LiveCoded' = LiveCoded /\ redemptions' = redemptions
              \/ \E o \in Orders \ LiveCoded :
                    /\ LiveCoded' = LiveCoded \cup {o}
                    /\ redemptions' = Reconsumed(redemptions)
              \/ \E o \in LiveCoded :
                    /\ LiveCoded' = LiveCoded \ {o}
                    /\ redemptions' = Monus(redemptions, 1)
  <1> DEFINE Goal == /\ UnplacedUncoded'
                     /\ \/ LiveCoded' = LiveCoded /\ redemptions' = redemptions
                        \/ \E o \in Orders \ LiveCoded :
                              /\ LiveCoded' = LiveCoded \cup {o}
                              /\ redemptions' = Reconsumed(redemptions)
                        \/ \E o \in LiveCoded :
                              /\ LiveCoded' = LiveCoded \ {o}
                              /\ redemptions' = Monus(redemptions, 1)
  <1>1. /\ status \in [Orders -> Statuses \cup {"NONE"}]
        /\ coded \in [Orders -> BOOLEAN]
    BY DEF TypeOK, RowsTypeOK
  <1>2. ASSUME NEW o \in Orders, NEW to \in Statuses, NEW by \in Actors,
               NEW d \in TransitionData(o), Transition(o, to, by, d)
        PROVE  Goal
    <2>1. /\ <<status[o], to>> \in OrderTransitions
          /\ status' = [status EXCEPT ![o] = to]
          /\ coded' = coded
          /\ DiscountEffect(o, to)
      BY <1>2 DEF Transition, Commits, CanTransition
    <2>2. /\ status[o] \notin {"CANCELLED", "NONE"}
          /\ status[o] = "REJECTED" => to \notin {"REJECTED", "CANCELLED"}
      BY <2>1 DEF OrderTransitions
    <2>3. \A q \in Orders : status'[q] = IF q = o THEN to ELSE status[q]
      BY <1>1, <2>1
    <2>4. UnplacedUncoded'
      BY <1>2, <2>1, <2>3 DEF UnplacedUncoded, Statuses
    <2>5. CASE coded[o] /\ status[o] = "REJECTED"
      <3>1. redemptions' = Reconsumed(redemptions)
        BY <2>1, <2>2, <2>5 DEF DiscountEffect
      <3>2. o \notin LiveCoded
        BY <2>5 DEF LiveCoded
      <3>3. LiveCoded' = LiveCoded \cup {o}
        <4>1. \A q \in Orders : q \in LiveCoded' <=> q \in LiveCoded \/ q = o
          BY <2>1, <2>2, <2>3, <2>5 DEF LiveCoded
        <4>2. LiveCoded' \subseteq Orders /\ LiveCoded \subseteq Orders
          BY DEF LiveCoded
        <4> QED  BY <4>1, <4>2
      <3> QED  BY <2>4, <3>1, <3>2, <3>3
    <2>6. CASE coded[o] /\ status[o] # "REJECTED" /\ to \in {"REJECTED", "CANCELLED"}
      <3>1. redemptions' = Monus(redemptions, 1)
        BY <2>1, <2>6 DEF DiscountEffect
      <3>2. o \in LiveCoded /\ LiveCoded' = LiveCoded \ {o}
        BY <2>1, <2>2, <2>3, <2>6 DEF LiveCoded
      <3> QED  BY <2>4, <3>1, <3>2
    <2>7. CASE ~coded[o] \/ (status[o] # "REJECTED"
                                /\ to \notin {"REJECTED", "CANCELLED"})
      <3>1. redemptions' = redemptions
        BY <2>1, <2>7 DEF DiscountEffect
      <3>2. LiveCoded' = LiveCoded
        BY <2>1, <2>2, <2>3, <2>7 DEF LiveCoded
      <3> QED  BY <2>4, <3>1, <3>2
    <2> QED  BY <2>5, <2>6, <2>7
  <1>3. ASSUME NEW c \in Clients, NEW o \in Orders, PlaceOrder(c, o)
        PROVE  Goal
    <2>1. /\ status[o] = "NONE" /\ ~coded[o]
          /\ \A q \in Orders :
                status'[q] = IF q = o THEN "PENDING_PAYMENT" ELSE status[q]
          /\ \A q \in Orders : coded'[q] = IF q = o THEN GrantsCode(o) ELSE coded[q]
          /\ redemptions' = IF GrantsCode(o) THEN redemptions + 1 ELSE redemptions
      BY <1>1, <1>3 DEF PlaceOrder, UnplacedUncoded
    <2>2. UnplacedUncoded'
      BY <2>1 DEF UnplacedUncoded
    <2>3. CASE GrantsCode(o)
      <3>1. redemptions' = Reconsumed(redemptions)
        BY <2>1, <2>3 DEF GrantsCode, Reconsumed
      <3>2. o \notin LiveCoded /\ LiveCoded' = LiveCoded \cup {o}
        BY <2>1, <2>3 DEF LiveCoded
      <3> QED  BY <2>2, <3>1, <3>2
    <2>4. CASE ~GrantsCode(o)
      BY <2>1, <2>2, <2>4 DEF LiveCoded
    <2> QED  BY <2>3, <2>4
  <1>4. CASE UNCHANGED <<status, coded, redemptions>>
    BY <1>4 DEF LiveCoded, UnplacedUncoded
  <1>5. ASSUME NEW c \in Clients, CreateManualRefund(c)
        PROVE  Goal
    BY <1>4, <1>5 DEF CreateManualRefund
  <1>6. ASSUME NEW r \in RefundIds, RefundNext(r)
        PROVE  Goal
    BY <1>4, <1>6, RefundMoves
  <1>7. CASE UNCHANGED Tables
    BY <1>4, <1>7 DEF Tables
  <1> QED  BY <1>2, <1>3, <1>5, <1>6, <1>7, StepCases DEF SomeTransition

LEMMA NoneLive == Init => UnplacedUncoded /\ LiveCoded = {} /\ redemptions = 0
  BY DEF Init, RowsInit, UnplacedUncoded, LiveCoded

\* However orders are placed, fall through and are revived, the counter never
\* counts an order twice, nor one that has fallen through.
THEOREM NoOverCount == Spec => []RedemptionsNeverOverCount
  <1> DEFINE Inv == /\ TypeOK /\ UnplacedUncoded
                    /\ IsFiniteSet(LiveCoded) /\ RedemptionsNeverOverCount
  <1>1. Init /\ TypeOK => Inv
    BY NoneLive, FS_EmptySet DEF RedemptionsNeverOverCount
  <1>2. Inv /\ [Next]_vars => Inv'
    <2> SUFFICES ASSUME Inv, [Next]_vars PROVE Inv'
      OBVIOUS
    <2> DEFINE live == LiveCoded'
    <2>1. redemptions \in Nat /\ Cardinality(LiveCoded) \in Nat
      BY FS_CardinalityType DEF TypeOK, RowsTypeOK
    <2>2. TypeOK' /\ UnplacedUncoded'
      BY TypeStep, LiveSteps
    <2> HIDE DEF live
    <2>3. CASE live = LiveCoded /\ redemptions' = redemptions
      BY <2>2, <2>3 DEF RedemptionsNeverOverCount, live
    <2>4. ASSUME NEW o \in Orders \ LiveCoded, live = LiveCoded \cup {o},
                 redemptions' = Reconsumed(redemptions)
          PROVE  Inv'
      <3>1. IsFiniteSet(live) /\ Cardinality(live) = Cardinality(LiveCoded) + 1
        BY <2>4, FS_AddElement
      <3>2. redemptions' <= Cardinality(live)
        BY <2>1, <2>4, <3>1, OrderStateAssumption
           DEF RedemptionsNeverOverCount, Reconsumed
      <3> QED  BY <2>2, <3>1, <3>2 DEF RedemptionsNeverOverCount, live
    <2>5. ASSUME NEW o \in LiveCoded, live = LiveCoded \ {o},
                 redemptions' = Monus(redemptions, 1)
          PROVE  Inv'
      <3>1. IsFiniteSet(live) /\ Cardinality(live) = Cardinality(LiveCoded) - 1
        BY <2>5, FS_RemoveElement
      <3>2. Cardinality(live) \in Nat
        BY <3>1, FS_CardinalityType
      <3>3. redemptions' <= Cardinality(live)
        BY <2>1, <2>5, <3>1, <3>2 DEF RedemptionsNeverOverCount, Monus
      <3> QED  BY <2>2, <3>1, <3>3 DEF RedemptionsNeverOverCount, live
    <2> QED  BY <2>3, <2>4, <2>5, LiveSteps DEF live
  <1> QED  BY <1>1, <1>2, TypeCorrect, PTL DEF Spec

\* Without a cap in the way the counter is exactly the orders that carry the
\* code and have not fallen through.
THEOREM CountExact ==
    ASSUME IsFiniteSet(Orders), Cardinality(Orders) <= MaxRedemptions
    PROVE  Spec => []RedemptionsExact
  <1> DEFINE Inv == TypeOK /\ UnplacedUncoded /\ RedemptionsExact
  <1>1. Init /\ TypeOK => Inv
    BY NoneLive, FS_EmptySet DEF RedemptionsExact
  <1>2. Inv /\ [Next]_vars => Inv'
    <2> SUFFICES ASSUME Inv, [Next]_vars PROVE Inv'
      OBVIOUS
    <2> DEFINE live == LiveCoded'
    <2>1. LiveCoded \in SUBSET Orders /\ live \in SUBSET Orders
      BY DEF LiveCoded
    <2> HIDE DEF live
    <2>2. /\ IsFiniteSet(LiveCoded) /\ Cardinality(LiveCoded) \in Nat
          /\ IsFiniteSet(live) /\ Cardinality(live) \in Nat
          /\ Cardinality(live) <= Cardinality(Orders)
          /\ Cardinality(Orders) \in Nat
      BY <2>1, FS_Subset, FS_CardinalityType
    <2>3. TypeOK' /\ UnplacedUncoded'
      BY TypeStep, LiveSteps
    <2>4. CASE live = LiveCoded /\ redemptions' = redemptions
      BY <2>3, <2>4 DEF RedemptionsExact, live
    <2>5. ASSUME NEW o \in Orders \ LiveCoded, live = LiveCoded \cup {o},
                 redemptions' = Reconsumed(redemptions)
          PROVE  Inv'
      <3>1. Cardinality(live) = Cardinality(LiveCoded) + 1
        BY <2>2, <2>5, FS_AddElement
      <3>2. redemptions' = Cardinality(live)
        BY <2>2, <2>5, <3>1, OrderStateAssumption DEF RedemptionsExact, Reconsumed
      <3> QED  BY <2>3, <3>2 DEF RedemptionsExact, live
    <2>6. ASSUME NEW o \in LiveCoded, live = LiveCoded \ {o},
                 redemptions' = Monus(redemptions, 1)
          PROVE  Inv'
      <3>1. Cardinality(live) = Cardinality(LiveCoded) - 1
        BY <2>2, <2>6, FS_RemoveElement
      <3>2. redemptions' = Cardinality(live)
        BY <2>2, <2>6, <3>1 DEF RedemptionsExact, Monus
      <3> QED  BY <2>3, <3>2 DEF RedemptionsExact, live
    <2> QED  BY <2>4, <2>5, <2>6, LiveSteps DEF live
  <1> QED  BY <1>1, <1>2, TypeCorrect, PTL DEF Spec

-----------------------------------------------------------------------------
(* Who lets the money go.                                                  *)

ReleaseOf(r) ==
    /\ refunds'[r] # NoRefund
    /\ refunds'[r].reason \in StatusReasons
    /\ Payable(refunds'[r].status)
    => \/ /\ refunds[r] # NoRefund
          /\ Payable(refunds[r].status)
       \/ /\ refunds[r] # NoRefund
          /\ refunds[r].status = "AWAITING_SELLER_CONFIRM"
          /\ refunds'[r].status = "AWAITING_DESTINATION"
       \/ /\ refunds[r] = NoRefund
          /\ SaysReceivedNow(refunds'[r].order)

LEMMA ReleaseStep ==
    ASSUME TypeOK, [Next]_vars, NEW r \in RefundIds
    PROVE  ReleaseOf(r)
  <1> USE DEF ReleaseOf, Payable
  <1>1. ASSUME NEW o \in Orders, NEW to \in Statuses, NEW by \in Actors,
               NEW d \in TransitionData(o),
               d.money = "RECEIVED" => SaysReceivedNow(o),
               Transition(o, to, by, d)
        PROVE  ReleaseOf(r)
    <2>2. CASE refunds'[r] = refunds[r]
      BY <2>2
    <2>3. CASE /\ CancelledByApproval(o, r)
               /\ refunds'[r] = [refunds[r] EXCEPT !.status = "CANCELLED"]
      BY <2>3 DEF CancelledByApproval, TypeOK, RowsTypeOK, Refund
    <2>4. CASE /\ refunds[r] = NoRefund
               /\ refunds'[r].order = o
               /\ refunds'[r].status = InitialRefundStatus(d)
      BY <1>1, <2>4 DEF InitialRefundStatus
    <2> QED BY <1>1, <2>2, <2>3, <2>4, TransitionRefunds
  <1>2. ASSUME NEW c \in Clients, NEW o \in Orders, PlaceOrder(c, o)
        PROVE  ReleaseOf(r)
    BY <1>2 DEF PlaceOrder
  <1>3. ASSUME NEW c \in Clients, CreateManualRefund(c)
        PROVE  ReleaseOf(r)
    BY <1>3 DEF CreateManualRefund, InsertRefund, TypeOK, RowsTypeOK, StatusReasons
  <1>4. ASSUME NEW q \in RefundIds, RefundNext(q)
        PROVE  ReleaseOf(r)
    <2>1. PICK st \in RefundStatuses :
             /\ refunds' = [refunds EXCEPT ![q].status = st]
             /\ refunds[q] # NoRefund
             /\ \/ st = "READY" /\ CanSetDestination(q)
                \/ st = "DONE" /\ CanPay(q)
                \/ /\ st \in {"AWAITING_DESTINATION", "CANCELLED"}
                   /\ refunds[q].status = "AWAITING_SELLER_CONFIRM"
      BY <1>4, RefundMoves
    <2>2. refunds[q] \in Refund
      BY <2>1 DEF TypeOK, RowsTypeOK
    <2>3. CASE r = q
      BY <2>1, <2>2, <2>3 DEF CanSetDestination, CanPay, TypeOK, RowsTypeOK, Refund
    <2>4. CASE r # q
      BY <2>1, <2>4 DEF TypeOK, RowsTypeOK
    <2> QED BY <2>3, <2>4
  <1>5. CASE UNCHANGED Tables
    BY <1>5 DEF Tables
  <1> QED BY <1>1, <1>2, <1>3, <1>4, <1>5, StepCases DEF SomeTransition

\* A refund of a rejection or cancellation becomes payable by the seller's word
\* on the money only: a rejection whose request said it had arrived inserts it
\* payable, or the answer asked for afterwards lets a held one go.
THEOREM MoneyReleasedBySeller == Spec => OnlySellerReleasesMoney
  <1>1. TypeOK /\ [Next]_vars =>
            [\A r \in RefundIds :
               /\ refunds'[r] # NoRefund
               /\ refunds'[r].reason \in StatusReasons
               /\ Payable(refunds'[r].status)
               => \/ /\ refunds[r] # NoRefund
                     /\ Payable(refunds[r].status)
                  \/ /\ refunds[r] # NoRefund
                     /\ refunds[r].status = "AWAITING_SELLER_CONFIRM"
                     /\ refunds'[r].status = "AWAITING_DESTINATION"
                  \/ /\ refunds[r] = NoRefund
                     /\ SaysReceivedNow(refunds'[r].order)]_vars
    BY ReleaseStep DEF ReleaseOf
  <1> QED BY <1>1, TypeCorrect, PTL DEF Spec, OnlySellerReleasesMoney

-----------------------------------------------------------------------------
(* The orders keep their promise.                                          *)

\* Only an order that was placed has refunds or requests about it.
Placed ==
    /\ \A r \in RefundIds :
          refunds[r] # NoRefund => status[refunds[r].order] # "NONE"
    /\ \A c \in Clients :
          client[c] # Idle => status[client[c].order] # "NONE"

\* An order stays placed.
LEMMA StaysPlaced ==
    ASSUME TypeOK, [Next]_vars, NEW o \in Orders, status[o] # "NONE"
    PROVE  status'[o] # "NONE"
  <1>1. CASE SomeTransition
    BY <1>1 DEF SomeTransition, Transition, TypeOK, RowsTypeOK, Statuses
  <1>2. CASE \E c \in Clients, q \in Orders : PlaceOrder(c, q)
    BY <1>2 DEF PlaceOrder, TypeOK, RowsTypeOK
  <1>3. CASE \E c \in Clients : CreateManualRefund(c)
    BY <1>3 DEF CreateManualRefund
  <1>4. CASE \E r \in RefundIds : RefundNext(r)
    BY <1>4, RefundMoves
  <1>5. CASE UNCHANGED Tables
    BY <1>5 DEF Tables
  <1> QED BY <1>1, <1>2, <1>3, <1>4, <1>5, StepCases

\* A new request is about an order that is there.
LEMMA RequestsPlaced ==
    ASSUME TypeOK, Placed, [Next]_vars, NEW c \in Clients, client'[c] # Idle
    PROVE  status'[client'[c].order] # "NONE"
  <1>1. CASE client'[c] = client[c]
    <2>1. client[c].order \in Orders
      BY <1>1, ServedJob DEF TypeOK
    <2> QED BY <1>1, <2>1, StaysPlaced DEF Placed
  <1>2. ASSUME NEW q \in Clients, NEW o \in Orders, status[o] # "NONE",
               NEW job, job.order = o, Start(q, job)
        PROVE  status'[client'[c].order] # "NONE"
    BY <1>1, <1>2, StaysPlaced DEF Start, TypeOK
  <1>3. ASSUME NEW q \in Clients, Finish(q)
        PROVE  status'[client'[c].order] # "NONE"
    BY <1>1, <1>3 DEF Finish, TypeOK
  <1>4. ASSUME NEW q \in Clients, ClientNext(q)
        PROVE  status'[client'[c].order] # "NONE"
    <2>1. CASE SubmitReceipt(q)
      <3>1. client[q].order \in Orders /\ status[client[q].order] # "NONE"
        BY <2>1, ServedJob DEF SubmitReceipt, Serving, TypeOK, Placed
      <3>2. CASE client' = [client EXCEPT ![q] =
                    [kind |-> "persist", order |-> client[q].order,
                     next |-> "AWAITING_SELLER_APPROVAL"]]
        BY <1>1, <3>1, <3>2, StaysPlaced DEF TypeOK
      <3> QED BY <1>3, <2>1, <3>2 DEF SubmitReceipt
    <2> QED
      BY <1>3, <1>4, <2>1
         DEF ClientNext, PersistTransition, ReattachReceipt, BuyerCancels,
             RejectOrder, CreateManualRefund, Crash
  <1>5. ASSUME NEW o \in Orders, OrderNext(o)
        PROVE  client' = client
    BY <1>5 DEF OrderNext, ConfirmDelivery, Approve, Ship, Deliver,
                SellerTakesOver, BackToBot, ExpireOne, ApproveShort,
                ApprovalFails
  <1>6. ASSUME NEW q \in Clients, NEW o \in Orders, RequestNext(q, o)
        PROVE  status'[client'[c].order] # "NONE"
    <2>1. CASE PlaceOrder(q, o)
      BY <1>1, <2>1 DEF PlaceOrder, Start, TypeOK, RowsTypeOK
    <2> QED
      BY <1>2, <1>6, <2>1
         DEF RequestNext, ResumeOrder, ReadForReattach, ReadForCancel,
             ReadForReceipt, ReadForReject, ReadForRefund
  <1>7. ASSUME NEW r \in RefundIds, RefundNext(r)
        PROVE  client' = client
    BY <1>7, RefundMoves
  <1>8. CASE ExpiryReads \/ WorkerCrash \/ UNCHANGED vars
    BY <1>1, <1>8 DEF ExpiryReads, WorkerCrash, vars
  <1> QED BY <1>1, <1>4, <1>5, <1>6, <1>7, <1>8 DEF Next

LEMMA PlacedStep == TypeOK /\ Placed /\ [Next]_vars => Placed'
  <1> SUFFICES ASSUME TypeOK, Placed, [Next]_vars, NEW r \in RefundIds,
                      refunds'[r] # NoRefund
               PROVE  status'[refunds'[r].order] # "NONE"
    BY RequestsPlaced DEF Placed
  <1>1. CASE /\ refunds[r] # NoRefund
             /\ refunds'[r].order = refunds[r].order
    BY <1>1, StaysPlaced DEF Placed, TypeOK, RowsTypeOK, Refund
  <1>2. ASSUME NEW o \in Orders, NEW to \in Statuses, NEW by \in Actors,
               NEW d \in TransitionData(o), Transition(o, to, by, d)
        PROVE  status'[refunds'[r].order] # "NONE"
    <2>1. status' = [status EXCEPT ![o] = to]
      BY <1>2 DEF Transition
    <2>2. CASE refunds'[r] = refunds[r]
      BY <1>1, <2>2
    <2>3. CASE /\ CancelledByApproval(o, r)
               /\ refunds'[r] = [refunds[r] EXCEPT !.status = "CANCELLED"]
      BY <1>1, <2>3 DEF CancelledByApproval, TypeOK, RowsTypeOK, Refund
    <2>4. CASE refunds'[r].order = o
      BY <2>1, <2>4 DEF TypeOK, RowsTypeOK, Statuses
    <2> QED BY <1>2, <2>2, <2>3, <2>4, TransitionRefunds
  <1>3. ASSUME NEW c \in Clients, NEW o \in Orders, PlaceOrder(c, o)
        PROVE  status'[refunds'[r].order] # "NONE"
    BY <1>1, <1>3 DEF PlaceOrder
  <1>4. ASSUME NEW c \in Clients, CreateManualRefund(c)
        PROVE  status'[refunds'[r].order] # "NONE"
    <2>1. client[c].order \in Orders /\ status[client[c].order] # "NONE"
      BY <1>4, ServedJob DEF CreateManualRefund, Serving, TypeOK, Placed
    <2> QED
      BY <1>1, <1>4, <2>1
         DEF CreateManualRefund, InsertRefund, TypeOK, RowsTypeOK
  <1>5. ASSUME NEW q \in RefundIds, RefundNext(q)
        PROVE  status'[refunds'[r].order] # "NONE"
    <2>1. PICK st \in RefundStatuses :
             refunds[q] # NoRefund /\ refunds' = [refunds EXCEPT ![q].status = st]
      BY <1>5, RefundMoves
    <2> QED BY <1>1, <2>1 DEF TypeOK, RowsTypeOK, Refund
  <1>6. CASE UNCHANGED Tables
    BY <1>1, <1>6 DEF Tables
  <1> QED BY <1>2, <1>3, <1>4, <1>5, <1>6, StepCases DEF SomeTransition

\* A row that shows that the money of an order was paid back.
PaidRow(r, o) ==
    /\ refunds[r] # NoRefund
    /\ refunds[r].order = o
    /\ ForStatus(r)
    /\ refunds[r].status = "DONE"

LEMMA PaidBackByRow ==
    \A o \in Orders : PaidBack(o) <=> \E r \in RefundIds : PaidRow(r, o)
  BY DEF PaidBack, PaidRow, RefundsOf

\* A transition neither pays money back nor unpays it.
LEMMA TransitionKeepsPaid ==
    ASSUME TypeOK, NEW o \in Orders, NEW to \in Statuses, NEW by \in Actors,
           NEW d \in TransitionData(o), Transition(o, to, by, d),
           NEW q \in Orders
    PROVE  PaidBack(q)' <=> PaidBack(q)
  <1>1. ASSUME NEW r \in RefundIds
        PROVE  PaidRow(r, q)' <=> PaidRow(r, q)
    <2>1. InitialRefundStatus(d) # "DONE"
      BY DEF InitialRefundStatus
    <2>2. CASE refunds'[r] = refunds[r]
      BY <2>2 DEF PaidRow, ForStatus
    <2>3. CASE /\ CancelledByApproval(o, r)
               /\ refunds'[r] = [refunds[r] EXCEPT !.status = "CANCELLED"]
      BY <2>3 DEF CancelledByApproval, PaidRow, TypeOK, RowsTypeOK, Refund
    <2>4. CASE refunds[r] = NoRefund /\ refunds'[r].status = InitialRefundStatus(d)
      BY <2>1, <2>4 DEF PaidRow
    <2> QED BY <2>2, <2>3, <2>4, TransitionRefunds
  <1>2. PaidBack(q)' <=> \E r \in RefundIds : PaidRow(r, q)'
    BY PaidBackByRow DEF PaidBack, PaidRow, RefundsOf, ForStatus
  <1> QED BY <1>1, <1>2, PaidBackByRow

\* How a change of the rows looks from the promise.
LEMMA PromiseMove ==
    ASSUME TypeOK, NEW o \in Orders, NEW to \in Statuses,
           status' = [status EXCEPT ![o] = to],
           \A q \in Orders : PaidBack(q)' <=> PaidBack(q)
    PROVE  \/ PhaseOf(to) = PhaseOf(status[o]) /\ UNCHANGED Promise!vars
           \/ /\ PhaseOf(to) # PhaseOf(status[o])
              /\ \A from : PhaseOf(status[o]) \in from
                               => Promise!Move(o, from, PhaseOf(to))
  <1>1. {q \in Orders : PaidBack(q)'} = {q \in Orders : PaidBack(q)}
    OBVIOUS
  <1>2. [q \in Orders |-> PhaseOf(status'[q])]
            = [[q \in Orders |-> PhaseOf(status[q])] EXCEPT ![o] = PhaseOf(to)]
    BY DEF TypeOK, RowsTypeOK
  <1>3. CASE PhaseOf(to) = PhaseOf(status[o])
    BY <1>1, <1>2, <1>3 DEF Promise!vars
  <1>4. CASE PhaseOf(to) # PhaseOf(status[o])
    BY <1>1, <1>2, <1>4 DEF Promise!Move
  <1> QED BY <1>3, <1>4

\* Every step of the detailed specification is a step of the promise or leaves
\* it as it is.
LEMMA PromiseStep ==
    TypeOK /\ NeverGoodsAndMoney /\ Placed /\ [Next]_vars
        => [Promise!Next]_(Promise!vars)
  <1> SUFFICES ASSUME TypeOK, NeverGoodsAndMoney, Placed, [Next]_vars
               PROVE  [Promise!Next]_(Promise!vars)
    OBVIOUS
  <1> DEFINE Same == UNCHANGED Promise!vars
  <1>1. ASSUME status' = status, \A q \in Orders : PaidBack(q)' <=> PaidBack(q)
        PROVE  Same
    <2>1. {q \in Orders : PaidBack(q)'} = {q \in Orders : PaidBack(q)}
      BY <1>1
    <2> QED BY <1>1, <2>1 DEF Promise!vars
  <1>2. (refunds' = refunds) => \A q \in Orders : PaidBack(q)' <=> PaidBack(q)
    BY DEF PaidBack, RefundsOf, ForStatus
  <1>3. ASSUME NEW o \in Orders, NEW to \in Statuses, NEW by \in Actors,
               NEW d \in TransitionData(o), Transition(o, to, by, d)
        PROVE  Promise!Next \/ Same
    <2>1. /\ status' = [status EXCEPT ![o] = to]
          /\ CanTransition(status[o], to)
          /\ to = "APPROVED" => ~PaidBack(o)
      BY <1>3 DEF Transition, Commits, Reopens
    <2>2. \A q \in Orders : PaidBack(q)' <=> PaidBack(q)
      BY <1>3, TransitionKeepsPaid
    <2>3. CASE PhaseOf(to) # PhaseOf(status[o])
      <3>1. \A from : PhaseOf(status[o]) \in from
                          => Promise!Move(o, from, PhaseOf(to))
        BY <2>1, <2>2, <2>3, PromiseMove
      <3>2. \/ PhaseOf(status[o]) = "OPEN" /\ PhaseOf(to) = "HELD" /\ to = "APPROVED"
            \/ PhaseOf(status[o]) = "HELD" /\ PhaseOf(to) = "OPEN"
            \/ PhaseOf(status[o]) = "HELD" /\ PhaseOf(to) = "GONE"
            \/ PhaseOf(status[o]) \in {"OPEN", "HELD"} /\ PhaseOf(to) = "DEAD"
        BY <2>1, <2>3 DEF CanTransition, OrderTransitions, PhaseOf
      <3>3. CASE to = "APPROVED"
        BY <2>1, <3>1, <3>2, <3>3 DEF Promise!Next, Promise!Accept, PhaseOf
      <3>4. CASE to # "APPROVED"
        BY <3>1, <3>2, <3>4
           DEF Promise!Next, Promise!TakeBack, Promise!HandOver, Promise!Kill
      <3> QED BY <3>3, <3>4
    <2> QED BY <2>1, <2>2, <2>3, PromiseMove
  <1>4. ASSUME NEW c \in Clients, NEW o \in Orders, PlaceOrder(c, o)
        PROVE  Promise!Next \/ Same
    <2>1. /\ status[o] = "NONE" /\ refunds' = refunds
          /\ status' = [status EXCEPT ![o] = "PENDING_PAYMENT"]
      BY <1>4 DEF PlaceOrder
    <2>2. PhaseOf("NONE") = "ABSENT" /\ PhaseOf("PENDING_PAYMENT") = "OPEN"
      BY DEF PhaseOf
    <2>3. Promise!Move(o, {"ABSENT"}, "OPEN")
      BY <1>2, <2>1, <2>2, PromiseMove DEF Statuses
    <2> QED BY <2>3 DEF Promise!Next, Promise!Place
  <1>5. ASSUME NEW c \in Clients, CreateManualRefund(c)
        PROVE  Promise!Next \/ Same
    <2>1. client[c].order \in Orders
      BY <1>5, ServedJob DEF CreateManualRefund, Serving, TypeOK
    <2>2. PICK r \in RefundIds :
             /\ refunds[r] = NoRefund
             /\ refunds' = [refunds EXCEPT ![r] =
                    [order |-> client[c].order, amount |-> client[c].amount,
                     reason |-> "MANUAL", status |-> "AWAITING_DESTINATION"]]
      BY <1>5 DEF CreateManualRefund, InsertRefund, NextRefundId
    <2>3. ASSUME NEW q \in Orders, NEW p \in RefundIds
          PROVE  PaidRow(p, q)' <=> PaidRow(p, q)
      BY <2>2 DEF PaidRow, ForStatus, StatusReasons, TypeOK, RowsTypeOK
    <2>4. \A q \in Orders : PaidBack(q)' <=> \E p \in RefundIds : PaidRow(p, q)'
      BY PaidBackByRow DEF PaidBack, PaidRow, RefundsOf, ForStatus
    <2>5. status' = status
      BY <1>5 DEF CreateManualRefund
    <2> QED BY <1>1, <2>3, <2>4, <2>5, PaidBackByRow
  <1>6. ASSUME NEW r \in RefundIds, RefundNext(r)
        PROVE  Promise!Next \/ Same
    <2>1. PICK st \in RefundStatuses :
             /\ status' = status
             /\ refunds' = [refunds EXCEPT ![r].status = st]
             /\ refunds[r] # NoRefund
             /\ refunds[r].status \notin {"DONE", "CANCELLED"}
      BY <1>6, RefundMoves DEF CanSetDestination, CanPay
    <2>2. refunds[r] \in Refund
      BY <2>1 DEF TypeOK, RowsTypeOK
    <2> PICK o \in Orders : o = refunds[r].order
      BY <2>2 DEF Refund
    <2>3. refunds'[r] \in Refund /\ refunds'[r] = [refunds[r] EXCEPT !.status = st]
      BY <2>1, <2>2 DEF TypeOK, RowsTypeOK, Refund
    <2>4. ASSUME NEW q \in Orders, NEW p \in RefundIds, p # r \/ q # o
          PROVE  PaidRow(p, q)' <=> PaidRow(p, q)
      <3>1. CASE p # r
        BY <2>1, <3>1 DEF PaidRow, ForStatus, TypeOK, RowsTypeOK
      <3>2. CASE p = r /\ q # o
        BY <2>2, <2>3, <3>2 DEF PaidRow, Refund
      <3> QED BY <2>4, <3>1, <3>2
    <2>5. ~PaidRow(r, o)
      BY <2>1 DEF PaidRow
    <2>6. PaidRow(r, o)' <=> (st = "DONE" /\ ForStatus(r))
      BY <2>2, <2>3, SentinelAssumption DEF PaidRow, ForStatus, Refund
    <2>7. \A q \in Orders : PaidBack(q)' <=> \E p \in RefundIds : PaidRow(p, q)'
      BY DEF PaidBack, PaidRow, RefundsOf, ForStatus
    <2>8. CASE st = "DONE" /\ ForStatus(r)
      <3>1. PaidBack(o)'
        BY <2>2, <2>6, <2>7, <2>8
      <3>2. \A q \in Orders : q # o => (PaidBack(q)' <=> PaidBack(q))
        BY <2>4, <2>7, PaidBackByRow
      <3>3. {q \in Orders : PaidBack(q)'} = {q \in Orders : PaidBack(q)} \cup {o}
        BY <2>2, <3>1, <3>2
      <3>4. PhaseOf(status[o]) \in {"OPEN", "DEAD"}
        <4>1. status[o] # "NONE"
          BY <2>1, <2>2 DEF Placed
        <4>2. ~HoldsStock(status[o])
          BY <2>1, <2>2, <2>8 DEF NeverGoodsAndMoney
        <4> QED BY <4>1, <4>2 DEF PhaseOf, HoldsStock, StockHeld
      <3>5. Promise!PayBack(o)
        BY <2>1, <2>2, <3>3, <3>4 DEF Promise!PayBack
      <3> QED BY <2>2, <3>5 DEF Promise!Next
    <2>9. CASE ~(st = "DONE" /\ ForStatus(r))
      <3>1. \A q \in Orders, p \in RefundIds : PaidRow(p, q)' <=> PaidRow(p, q)
        BY <2>4, <2>5, <2>6, <2>9
      <3> QED BY <1>1, <2>1, <2>7, <3>1, PaidBackByRow
    <2> QED BY <2>8, <2>9
  <1>7. CASE UNCHANGED Tables
    BY <1>1, <1>2, <1>7 DEF Tables
  <1> QED BY <1>3, <1>4, <1>5, <1>6, <1>7, StepCases DEF SomeTransition

\* The orders do what OrderPromise says and nothing else.
THEOREM PromiseKept == Spec => KeepsPromise
  <1>1. Init => Placed /\ Promise!Init
    BY DEF Init, RowsInit, Placed, Promise!Init, PhaseOf, PaidBack, RefundsOf
  <1>2. Spec => []Placed
    <2>1. Init => Placed
      BY <1>1
    <2> QED BY <2>1, TypeCorrect, PlacedStep, PTL DEF Spec
  <1> QED
    BY <1>1, <1>2, TypeCorrect, NoGoodsWithMoney, PromiseStep, PTL
       DEF Spec, KeepsPromise, Promise!Spec

=============================================================================
