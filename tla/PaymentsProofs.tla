---------------------------- MODULE PaymentsProofs ----------------------------
(***************************************************************************)
(* Proofs about Payments: types, a payment booked once, only for money     *)
(* that was confirmed; its fate settled once; rewards for first payments.  *)
(***************************************************************************)
EXTENDS Payments, FiniteSetTheorems, TLAPS

-----------------------------------------------------------------------------
(* Types.                                                                  *)

Slot == [at : Places, pay : Payments \cup {NoPayment}, first : BOOLEAN]

LEMMA SlotChange ==
    ASSUME request \in [Requests -> Slot], NEW r \in Requests, NEW to \in Places
    PROVE  [request[r] EXCEPT !.at = to] \in Slot
  BY DEF Slot

LEMMA SlotTypes ==
    ASSUME request \in [Requests -> Slot], NEW r \in Requests, NEW p \in Payments,
           NEW from, NEW to \in Places,
           Goes(r, p, from, to) \/ Ends(r, p, from)
    PROVE  request' \in [Requests -> Slot]
  <1>1. Idle \in Slot
    BY DEF Idle, Slot, Places
  <1>2. [request[r] EXCEPT !.at = to] \in Slot
    BY SlotChange
  <1> QED  BY <1>1, <1>2 DEF Goes, Ends

LEMMA BeginTypes ==
    ASSUME request \in [Requests -> Slot], NEW r \in Requests, NEW p \in Payments,
           NEW to \in Places, Begins(r, p, to)
    PROVE  request' \in [Requests -> Slot]
  <1>1. [at |-> to, pay |-> p, first |-> FALSE] \in Slot
    BY DEF Slot
  <1> QED  BY <1>1 DEF Begins

\* A step that changes only a slot keeps the types if the slot keeps its own.
LEMMA OnlyRequest ==
    ASSUME TypeOK, request' \in [Requests -> Slot], UNCHANGED <<rows, money, rewards, refund>>
    PROVE  TypeOK'
  BY DEF TypeOK, Slot, rows

LEMMA RequestTypes ==
    ASSUME TypeOK, NEW r \in Requests, NEW p \in Payments, RequestStep(r, p)
    PROVE  TypeOK'
  <1>0. /\ request \in [Requests -> Slot]
        /\ "idle" \in Places /\ "ask" \in Places /\ "validate" \in Places
        /\ "refused" \in Places /\ "count" \in Places
    BY DEF TypeOK, Slot, Places
  <1>1. CASE ReadForVerify(r, p)
    <2>1. request' \in [Requests -> Slot]
      BY <1>0, <1>1, BeginTypes DEF ReadForVerify
    <2> QED  BY <1>1, <2>1, OnlyRequest DEF ReadForVerify
  <1>2. CASE GatewayConfirms(r, p)
    <2>1. request' \in [Requests -> Slot]
      BY <1>0, <1>2, SlotTypes DEF GatewayConfirms
    <2>2. money' \in [Payments -> {"NO", "PAID", "VERIFIED"}]
      BY <1>2 DEF GatewayConfirms, TypeOK
    <2> QED  BY <1>2, <2>1, <2>2 DEF GatewayConfirms, Slot, TypeOK, rows
  <1>3. CASE GatewayRefuses(r, p)
    <2>1. request' \in [Requests -> Slot]
      BY <1>0, <1>3, SlotTypes DEF GatewayRefuses
    <2> QED  BY <1>3, <2>1, OnlyRequest DEF GatewayRefuses
  <1>4. CASE MarkRefused(r, p)
    <2>1. request' \in [Requests -> Slot]
      BY <1>0, <1>4, SlotTypes DEF MarkRefused
    <2>2. status' \in [Payments -> Statuses]
      BY <1>4 DEF MarkRefused, MarkFailed, TypeOK, Statuses
    <2> QED  BY <1>4, <2>1, <2>2 DEF MarkRefused, Slot, TypeOK
  <1>5. CASE ReadForConfirm(r, p)
    <2>1. request' \in [Requests -> Slot]
      BY <1>0, <1>5, BeginTypes DEF ReadForConfirm
    <2> QED  BY <1>5, <2>1, OnlyRequest DEF ReadForConfirm
  <1>6. CASE ConfirmCreates(r, p)
    <2>1. request' \in [Requests -> Slot]
      BY <1>0, <1>6, SlotTypes DEF ConfirmCreates
    <2>2. status' \in [Payments -> Statuses]
      BY <1>6 DEF ConfirmCreates, TypeOK, Statuses
    <2> QED  BY <1>6, <2>1, <2>2 DEF ConfirmCreates, Slot, TypeOK
  <1> USE PaymentsAssumption DEF TypeOK, rows, Statuses, Places, Idle, At, Begins, Goes, Ends
  <1>7. CASE CountPrior(r, p)
    <2>1. IsFirst(p) \in BOOLEAN
      BY DEF IsFirst
    <2> QED  BY <1>7, <2>1 DEF CountPrior
  <1>8. CASE Complete(r, p)
    <2> USE <1>8 DEF Complete
    <2>1. Owner[p] \in Users
      OBVIOUS
    <2>2. status' \in [Payments -> Statuses] /\ money' \in [Payments -> {"NO", "PAID", "VERIFIED"}]
      BY DEF Claim
    <2>3. applied' \in [Payments -> Nat]
      BY DEF Add
    <2>4. wallet' \in [Users -> Int] /\ ledger' \in [Users -> Int]
      BY <2>1 DEF Add, Payments
    <2>5. plan' \in [Users -> Subscriptions \cup {NoPlan, Payg}]
      BY <2>1
    <2>6. used' \in [Codes -> Nat]
      BY DEF Add
    <2>7. request' \in [Requests -> Slot]
      BY SlotTypes DEF Slot
    <2> QED  BY <2>2, <2>3, <2>4, <2>5, <2>6, <2>7 DEF Slot
  <1>9. CASE LosesClaim(r, p)      BY <1>9 DEF LosesClaim
  <1>10. CASE IssueRewards(r, p)   BY <1>10 DEF IssueRewards, Add
  <1>11. CASE Stops(r, p)          BY <1>11 DEF Stops
  <1> QED
    BY <1>1, <1>2, <1>3, <1>4, <1>5, <1>6, <1>7, <1>8, <1>9, <1>10, <1>11 DEF RequestStep

LEMMA UserTypes ==
    ASSUME TypeOK, NEW u \in Users, UserStep(u)
    PROVE  TypeOK'
  <1> USE PaymentsAssumption DEF TypeOK, rows, Add
  <1>1. CASE Debit(u)          BY <1>1 DEF Debit
  <1>2. CASE ReadForRefund(u)  BY <1>2 DEF ReadForRefund
  <1>3. CASE ZeroWallet(u)     BY <1>3 DEF ZeroWallet
  <1>4. CASE DropToFreePlan(u) BY <1>4 DEF DropToFreePlan
  <1>5. CASE PlanRunsOut(u)    BY <1>5 DEF PlanRunsOut
  <1> QED  BY <1>1, <1>2, <1>3, <1>4, <1>5 DEF UserStep

LEMMA TypesKept == TypeOK /\ [Next]_vars => TypeOK'
  <1> SUFFICES ASSUME TypeOK, [Next]_vars
               PROVE  TypeOK'
    OBVIOUS
  <1>1. ASSUME NEW p \in Payments, Initiate(p) \/ BuyerPays(p) \/ FailureCallback(p)
        PROVE  TypeOK'
    BY <1>1 DEF TypeOK, Initiate, BuyerPays, FailureCallback, MarkFailed, Statuses, rows
  <1>2. CASE UNCHANGED vars
    BY <1>2 DEF vars, rows, TypeOK
  <1> QED  BY <1>1, <1>2, RequestTypes, UserTypes DEF Next

\* Every row and slot keeps its shape; in particular an amount to refund is never
\* negative, although the wallet may be (pricing.service.ts, refundWallet).
THEOREM PaymentTypes == Spec => []TypeOK
  <1>1. Init => TypeOK
    BY PaymentsAssumption DEF Init, TypeOK, Statuses, Places, Idle
  <1> QED  BY <1>1, TypesKept, PTL DEF Spec

-----------------------------------------------------------------------------
(* A payment's effect is booked when it is completed, and once.            *)

LEMMA BookedKept == TypeOK /\ AppliedOnce /\ [Next]_vars => AppliedOnce'
  <1> SUFFICES ASSUME TypeOK, AppliedOnce, [Next]_vars
               PROVE  AppliedOnce'
    OBVIOUS
  <1> USE DEF TypeOK, AppliedOnce, rows
  <1>1. ASSUME NEW p \in Payments, Initiate(p) \/ BuyerPays(p) \/ FailureCallback(p)
        PROVE  AppliedOnce'
    BY <1>1 DEF Initiate, BuyerPays, FailureCallback, MarkFailed
  <1>2. ASSUME NEW r \in Requests, NEW p \in Payments, RequestStep(r, p)
        PROVE  AppliedOnce'
    <2>1. CASE MarkRefused(r, p)
      BY <2>1 DEF MarkRefused, MarkFailed
    <2>2. CASE ConfirmCreates(r, p)
      BY <2>2 DEF ConfirmCreates
    <2>3. CASE Complete(r, p)
      BY <2>3 DEF Complete, Claim, Add
    <2>4. CASE UNCHANGED <<status, applied>>
      BY <2>4
    <2> QED
      BY <1>2, <2>1, <2>2, <2>3, <2>4 DEF RequestStep, ReadForVerify, GatewayConfirms,
         GatewayRefuses, ReadForConfirm, CountPrior, LosesClaim, IssueRewards, Stops
  <1>3. ASSUME NEW u \in Users, UserStep(u)
        PROVE  AppliedOnce'
    BY <1>3 DEF UserStep, Debit, ReadForRefund, ZeroWallet, DropToFreePlan, PlanRunsOut
  <1>4. CASE UNCHANGED vars
    BY <1>4 DEF vars
  <1> QED  BY <1>1, <1>2, <1>3, <1>4 DEF Next

\* Any number of callbacks and confirmations together book a payment's effect
\* once, and only with the completion (claimPaymentCompletion).
THEOREM BookedOnce == Spec => []AppliedOnce
  <1>1. Init => AppliedOnce
    BY DEF Init, AppliedOnce
  <1> QED  BY <1>1, PaymentTypes, BookedKept, PTL DEF Spec

-----------------------------------------------------------------------------
(* Nothing is completed before the money was confirmed: what a request that is
   about to complete knows of the money stays true.                          *)

PaidUnderway ==
    /\ \A b \in Bazaar : money[b] # "VERIFIED"
    /\ \A r \in Requests :
        /\ request[r].at = "ask" => request[r].pay \notin Bazaar
        /\ request[r].at = "validate" => request[r].pay \in Bazaar
        /\ request[r].at \in {"count", "complete"} =>
             request[r].pay \in Payments /\ Confirmed(request[r].pay)

LEMMA MoneyKept ==
    ASSUME TypeOK, PaidUnderway, [Next]_vars
    PROVE  /\ \A q \in Payments : Confirmed(q) => Confirmed(q)'
           /\ \A b \in Bazaar : money'[b] # "VERIFIED"
  <1> USE PaymentsAssumption DEF TypeOK, PaidUnderway, Confirmed, Payments
  <1>1. ASSUME NEW p \in Payments, BuyerPays(p)
        PROVE  /\ \A q \in Payments : Confirmed(q) => Confirmed(q)'
               /\ \A b \in Bazaar : money'[b] # "VERIFIED"
    BY <1>1 DEF BuyerPays
  <1>2. ASSUME NEW r \in Requests, NEW p \in Payments, GatewayConfirms(r, p)
        PROVE  /\ \A q \in Payments : Confirmed(q) => Confirmed(q)'
               /\ \A b \in Bazaar : money'[b] # "VERIFIED"
    BY <1>2 DEF GatewayConfirms, Goes, At
  <1>3. CASE UNCHANGED money
    BY <1>3
  <1> QED
    BY <1>1, <1>2, <1>3 DEF Next, vars, Initiate, FailureCallback, RequestStep, ReadForVerify,
       GatewayRefuses, MarkRefused, ReadForConfirm, ConfirmCreates, CountPrior, Complete,
       LosesClaim, IssueRewards, Stops, UserStep, Debit, ReadForRefund, ZeroWallet,
       DropToFreePlan, PlanRunsOut

\* What PaidUnderway says of one slot.
Sound(s) ==
    /\ s.at = "ask" => s.pay \notin Bazaar
    /\ s.at = "validate" => s.pay \in Bazaar
    /\ s.at \in {"count", "complete"} => s.pay \in Payments /\ Confirmed(s.pay)

LEMMA GoesOn ==
    ASSUME request \in [Requests -> Slot], NEW r \in Requests, NEW p \in Payments,
           NEW from, NEW to \in Places, Goes(r, p, from, to)
    PROVE  \E s \in Slot : /\ request' = [request EXCEPT ![r] = s]
                           /\ s.at = to /\ s.pay = p
  <1> DEFINE s == [request[r] EXCEPT !.at = to]
  <1>1. s \in Slot
    BY SlotChange
  <1>2. s.at = to /\ s.pay = p
    BY DEF Goes, At, Slot
  <1>3. request' = [request EXCEPT ![r] = s]
    BY DEF Goes
  <1> QED  BY <1>1, <1>2, <1>3

\* A slot that begins or ends.
LEMMA NewSlots ==
    ASSUME NEW p \in Payments, NEW first \in BOOLEAN, NEW to \in Places
    PROVE  /\ Idle \in Slot /\ Sound(Idle)'
           /\ [at |-> to, pay |-> p, first |-> first] \in Slot
  BY DEF Idle, Slot, Places, Sound

LEMMA SlotsKept ==
    ASSUME TypeOK, PaidUnderway, NEW r \in Requests, NEW p \in Payments, RequestStep(r, p)
    PROVE  \E s \in Slot : /\ request' = [request EXCEPT ![r] = s]
                           /\ Sound(s)'
  <1>0. /\ request \in [Requests -> Slot]
        /\ \A to \in {"ask", "validate", "refused", "count", "complete", "reward"} : to \in Places
    BY DEF TypeOK, Slot, Places
  <1>9. Idle \in Slot /\ Sound(Idle)'
    BY <1>0, NewSlots
  <1>1. CASE ReadForVerify(r, p)
    <2> DEFINE s == [at |-> "ask", pay |-> p, first |-> FALSE]
    <2>1. s \in Slot
      BY <1>0, NewSlots
    <2>2. request' = [request EXCEPT ![r] = s] /\ p \notin Bazaar
      BY <1>1 DEF ReadForVerify, Begins
    <2>3. Sound(s)'
      BY <2>2 DEF Sound
    <2> QED  BY <2>1, <2>2, <2>3
  <1>2. CASE GatewayConfirms(r, p)
    <2> PICK s \in Slot : request' = [request EXCEPT ![r] = s] /\ s.at = "count" /\ s.pay = p
      BY <1>0, <1>2, GoesOn DEF GatewayConfirms
    <2>1. money' = [money EXCEPT ![p] = "VERIFIED"] /\ p \notin Bazaar
      BY <1>2 DEF GatewayConfirms, Goes, At, PaidUnderway
    <2>2. Sound(s)'
      BY <2>1 DEF Sound, Confirmed, TypeOK
    <2> QED  BY <2>2
  <1>3. CASE GatewayRefuses(r, p)
    <2> PICK s \in Slot : request' = [request EXCEPT ![r] = s] /\ s.at = "refused" /\ s.pay = p
      BY <1>0, <1>3, GoesOn DEF GatewayRefuses
    <2>1. Sound(s)'
      BY DEF Sound
    <2> QED  BY <2>1
  <1>4. CASE MarkRefused(r, p) \/ LosesClaim(r, p) \/ IssueRewards(r, p) \/ Stops(r, p)
    <2>1. request' = [request EXCEPT ![r] = Idle]
      BY <1>4 DEF MarkRefused, LosesClaim, IssueRewards, Stops, Ends
    <2> QED  BY <1>9, <2>1
  <1>5. CASE ReadForConfirm(r, p)
    <2> DEFINE s == [at |-> "validate", pay |-> p, first |-> FALSE]
    <2>1. s \in Slot
      BY <1>0, NewSlots
    <2>2. request' = [request EXCEPT ![r] = s] /\ p \in Bazaar
      BY <1>5 DEF ReadForConfirm, Begins
    <2>3. Sound(s)'
      BY <2>2 DEF Sound
    <2> QED  BY <2>1, <2>2, <2>3
  <1>6. CASE ConfirmCreates(r, p)
    <2>1. CASE Ends(r, p, "validate")
      BY <1>9, <2>1 DEF Ends
    <2>2. CASE Goes(r, p, "validate", "count")
      <3> PICK s \in Slot : request' = [request EXCEPT ![r] = s] /\ s.at = "count" /\ s.pay = p
        BY <1>0, <2>2, GoesOn
      <3>1. p \in Bazaar
        BY <2>2 DEF Goes, At, PaidUnderway
      <3>2. money[p] = "PAID" /\ money' = money
        BY <1>6, <3>1 DEF ConfirmCreates, PaidUnderway, TypeOK
      <3>3. Sound(s)'
        BY <3>1, <3>2 DEF Sound, Confirmed
      <3> QED  BY <3>3
    <2> QED  BY <1>6, <2>1, <2>2 DEF ConfirmCreates
  <1>7. CASE CountPrior(r, p)
    <2>1. IsFirst(p) \in BOOLEAN
      BY DEF IsFirst
    <2> PICK s \in Slot : s = [at |-> "complete", pay |-> p, first |-> IsFirst(p)]
      BY <1>0, <2>1, NewSlots
    <2>2. money' = money /\ Confirmed(p)
      BY <1>7 DEF CountPrior, At, PaidUnderway
    <2>3. s.at = "complete" /\ s.pay = p
      OBVIOUS
    <2>4. Sound(s)'
      BY <2>2, <2>3 DEF Sound, Confirmed
    <2>5. request' = [request EXCEPT ![r] = s]
      BY <1>7 DEF CountPrior
    <2> QED  BY <2>4, <2>5
  <1>8. CASE Complete(r, p)
    <2>1. CASE Ends(r, p, "complete")
      BY <1>9, <2>1 DEF Ends
    <2>2. CASE Goes(r, p, "complete", "reward")
      <3> PICK s \in Slot : request' = [request EXCEPT ![r] = s] /\ s.at = "reward" /\ s.pay = p
        BY <1>0, <2>2, GoesOn
      <3>1. Sound(s)'
        BY DEF Sound
      <3> QED  BY <3>1
    <2> QED  BY <1>8, <2>1, <2>2 DEF Complete
  <1> QED
    BY <1>1, <1>2, <1>3, <1>4, <1>5, <1>6, <1>7, <1>8 DEF RequestStep

LEMMA UnderwayKept ==
    TypeOK /\ PaidUnderway /\ [Next]_vars => PaidUnderway'
  <1> SUFFICES ASSUME TypeOK, PaidUnderway, [Next]_vars
               PROVE  PaidUnderway'
    OBVIOUS
  <1>1. CASE UNCHANGED request
    BY <1>1, MoneyKept DEF PaidUnderway
  <1>2. ASSUME NEW r \in Requests, NEW p \in Payments, RequestStep(r, p)
        PROVE  PaidUnderway'
    <2> PICK s \in Slot : request' = [request EXCEPT ![r] = s] /\ Sound(s)'
      BY <1>2, SlotsKept
    <2>1. request'[r] = s /\ \A q \in Requests \ {r} : request'[q] = request[q]
      BY DEF TypeOK
    <2>2. \A q \in Requests : request'[q] = s \/ request'[q] = request[q]
      BY <2>1
    <2> QED  BY <2>2, MoneyKept DEF PaidUnderway, Sound
  <1> QED
    BY <1>1, <1>2 DEF Next, vars, Initiate, BuyerPays, FailureCallback, UserStep, Debit,
       ReadForRefund, ZeroWallet, DropToFreePlan, PlanRunsOut

LEMMA PaidKept ==
    TypeOK /\ PaidUnderway /\ OnlyPaidIsCompleted /\ [Next]_vars => OnlyPaidIsCompleted'
  <1> SUFFICES ASSUME TypeOK, PaidUnderway, OnlyPaidIsCompleted, [Next]_vars,
                      NEW q \in Payments, status'[q] = "COMPLETED"
               PROVE  Confirmed(q)'
    BY DEF OnlyPaidIsCompleted, Confirmed
  <1>1. CASE status[q] = "COMPLETED"
    BY <1>1, MoneyKept DEF OnlyPaidIsCompleted, Confirmed
  <1>2. CASE status[q] # "COMPLETED"
    <2>1. \E r \in Requests : Complete(r, q)
      BY <1>2 DEF Next, TypeOK, vars, rows, Initiate, BuyerPays, FailureCallback, MarkFailed,
         RequestStep, ReadForVerify, GatewayConfirms, GatewayRefuses, MarkRefused,
         ReadForConfirm, ConfirmCreates, CountPrior, Complete, Claim, LosesClaim,
         IssueRewards, Stops, UserStep, Debit, ReadForRefund, ZeroWallet,
         DropToFreePlan, PlanRunsOut
    <2>2. Confirmed(q)
      BY <2>1 DEF Complete, Goes, Ends, At, PaidUnderway
    <2> QED  BY <2>2, MoneyKept
  <1> QED  BY <1>1, <1>2

\* No payment is completed unless the gateway, or Bazaar, has confirmed it, even
\* when callbacks say what they like (verify, confirmBazaarPurchase).
THEOREM OnlyForMoney == Spec => []OnlyPaidIsCompleted
  <1>1. Init => PaidUnderway /\ OnlyPaidIsCompleted
    BY PaymentsAssumption DEF Init, PaidUnderway, OnlyPaidIsCompleted, Idle, Payments
  <1> QED  BY <1>1, PaymentTypes, UnderwayKept, PaidKept, PTL DEF Spec

-----------------------------------------------------------------------------
(* The fate of a payment is settled once: the refinement of PaymentPromise.  *)

\* Steps that complete or fail nothing vouch for one payment at most.
LEMMA Vouching ==
    ASSUME TypeOK, PaidUnderway, [Next]_vars,
           \A q \in Payments : FateOf(status'[q]) = FateOf(status[q]),
           applied' = applied
    PROVE  [Promise!Next]_(Promise!vars)
  <1>1. [q \in Payments |-> FateOf(status'[q])] = [q \in Payments |-> FateOf(status[q])]
    OBVIOUS
  <1> DEFINE now  == {q \in Payments : Confirmed(q)}
             then == {q \in Payments : Confirmed(q)'}
  <1>2. CASE then = now
    BY <1>1, <1>2 DEF Promise!vars
  <1>3. ASSUME NEW p \in Payments, \A q \in Payments \ {p} : money'[q] = money[q]
        PROVE  [Promise!Next]_(Promise!vars)
    <2>1. then = now \/ then = now \cup {p}
      BY <1>3, MoneyKept DEF Confirmed
    <2>2. CASE then = now \cup {p}
      BY <1>1, <2>2 DEF Promise!Next, Promise!Vouch
    <2> QED  BY <1>2, <2>1, <2>2
  <1>4. ASSUME NEW p \in Payments, BuyerPays(p) PROVE [Promise!Next]_(Promise!vars)
    BY <1>3, <1>4 DEF BuyerPays, TypeOK
  <1>5. ASSUME NEW r \in Requests, NEW p \in Payments, GatewayConfirms(r, p)
        PROVE  [Promise!Next]_(Promise!vars)
    BY <1>3, <1>5 DEF GatewayConfirms, TypeOK
  <1>6. CASE UNCHANGED money
    BY <1>2, <1>6 DEF Confirmed
  <1> QED
    BY <1>4, <1>5, <1>6 DEF Next, vars, Initiate, FailureCallback, RequestStep, ReadForVerify,
       GatewayRefuses, MarkRefused, ReadForConfirm, ConfirmCreates, CountPrior, Complete,
       LosesClaim, IssueRewards, Stops, UserStep, Debit, ReadForRefund, ZeroWallet,
       DropToFreePlan, PlanRunsOut

LEMMA Failing ==
    ASSUME TypeOK, NEW p \in Payments, MarkFailed(p), UNCHANGED <<applied, money>>
    PROVE  [Promise!Next]_(Promise!vars)
  <1>1. {q \in Payments : Confirmed(q)'} = {q \in Payments : Confirmed(q)}
    BY DEF Confirmed
  <1>2. CASE status' = status
    BY <1>1, <1>2 DEF Promise!vars
  <1>3. CASE status[p] = "PENDING" /\ status' = [status EXCEPT ![p] = "FAILED"]
    <2>1. [q \in Payments |-> FateOf(status'[q])]
              = [[q \in Payments |-> FateOf(status[q])] EXCEPT ![p] = "REFUSED"]
      BY <1>3 DEF TypeOK, FateOf
    <2>2. FateOf(status[p]) = "OPEN"
      BY <1>3 DEF FateOf
    <2> QED  BY <1>1, <2>1, <2>2 DEF Promise!Next, Promise!Refuse
  <1> QED  BY <1>2, <1>3 DEF MarkFailed

LEMMA Giving ==
    ASSUME TypeOK, PaidUnderway, NEW r \in Requests, NEW p \in Payments, Complete(r, p)
    PROVE  [Promise!Next]_(Promise!vars)
  <1>1. /\ status[p] = "PENDING" /\ status' = [status EXCEPT ![p] = "COMPLETED"]
        /\ applied' = [applied EXCEPT ![p] = @ + 1] /\ money' = money
    BY DEF Complete, Claim, Add
  <1>2. Confirmed(p)
    BY DEF Complete, Goes, Ends, At, PaidUnderway
  <1>3. {q \in Payments : Confirmed(q)'} = {q \in Payments : Confirmed(q)}
    BY <1>1 DEF Confirmed
  <1>4. [q \in Payments |-> FateOf(status'[q])]
            = [[q \in Payments |-> FateOf(status[q])] EXCEPT ![p] = "GIVEN"]
    BY <1>1 DEF TypeOK, FateOf
  <1>5. FateOf(status[p]) = "OPEN"
    BY <1>1 DEF FateOf
  <1> QED  BY <1>1, <1>2, <1>3, <1>4, <1>5 DEF Promise!Next, Promise!Give

LEMMA PromiseStep ==
    TypeOK /\ PaidUnderway /\ [Next]_vars => [Promise!Next]_(Promise!vars)
  <1> SUFFICES ASSUME TypeOK, PaidUnderway, [Next]_vars
               PROVE  [Promise!Next]_(Promise!vars)
    OBVIOUS
  <1> DEFINE SameFate == /\ \A q \in Payments : FateOf(status'[q]) = FateOf(status[q])
                         /\ applied' = applied
  <1>1. ASSUME SameFate PROVE [Promise!Next]_(Promise!vars)
    BY <1>1, Vouching
  <1>2. ASSUME NEW p \in Payments, Initiate(p) \/ BuyerPays(p)
        PROVE  SameFate
    BY <1>2 DEF Initiate, BuyerPays, FateOf, TypeOK, rows
  <1>3. ASSUME NEW p \in Payments, FailureCallback(p)
        PROVE  [Promise!Next]_(Promise!vars)
    BY <1>3, Failing DEF FailureCallback
  <1>4. ASSUME NEW r \in Requests, NEW p \in Payments, RequestStep(r, p)
        PROVE  [Promise!Next]_(Promise!vars)
    <2>1. CASE MarkRefused(r, p)
      BY <2>1, Failing DEF MarkRefused
    <2>2. CASE Complete(r, p)
      BY <2>2, Giving
    <2>3. CASE ConfirmCreates(r, p)
      BY <1>1, <2>3 DEF ConfirmCreates, FateOf, TypeOK
    <2>4. CASE UNCHANGED <<status, applied>>
      BY <1>1, <2>4
    <2> QED
      BY <1>4, <2>1, <2>2, <2>3, <2>4 DEF RequestStep, ReadForVerify, GatewayConfirms,
         GatewayRefuses, ReadForConfirm, CountPrior, LosesClaim, IssueRewards, Stops, rows
  <1>5. CASE UNCHANGED <<status, applied>>
    BY <1>1, <1>5
  <1> QED
    BY <1>1, <1>2, <1>3, <1>4, <1>5 DEF Next, vars, rows, UserStep, Debit, ReadForRefund,
       ZeroWallet, DropToFreePlan, PlanRunsOut

\* Callbacks, confirmations, crashes and lies of any number settle the fate of a
\* payment once, for good, and give only what was paid for.
THEOREM SettledOnce == Spec => SettlesOnce
  <1>1. Init => PaidUnderway /\ Promise!Init
    <2>1. Init => PaidUnderway
      BY PaymentsAssumption DEF Init, PaidUnderway, Idle, Payments
    <2>2. ASSUME Init PROVE Promise!Init
      <3>1. [q \in Payments |-> FateOf(status[q])] = [q \in Payments |-> "OPEN"]
        BY <2>2 DEF Init, FateOf
      <3>2. {q \in Payments : Confirmed(q)} = {}
        BY <2>2 DEF Init, Confirmed
      <3> QED  BY <2>2, <3>1, <3>2 DEF Init, Promise!Init
    <2> QED  BY <2>1, <2>2
  <1> QED
    BY <1>1, PaymentTypes, UnderwayKept, PromiseStep, PTL
       DEF Spec, SettlesOnce, Promise!Spec

-----------------------------------------------------------------------------
(* Rewards never run ahead of payments: with the requests that are about to
   issue one they are still at most as many as the user's paid plans.        *)

Rewarding(u) == {r \in Requests : request[r].at = "reward" /\ Owner[request[r].pay] = u}

Paid(u) == Completed(Subscriptions, u)

Accounted(u) ==
    /\ IsFiniteSet(Rewarding(u)) /\ IsFiniteSet(Paid(u))
    /\ rewards[u] + Cardinality(Rewarding(u)) <= Cardinality(Paid(u))

\* Fewer slots, as many rewards, no payment less.
LEMMA AccountedShrinks ==
    ASSUME TypeOK, TypeOK', NEW u \in Users, Accounted(u), rewards'[u] = rewards[u],
           Rewarding(u)' \subseteq Rewarding(u),
           Paid(u)' = Paid(u)
    PROVE  Accounted(u)'
  <1>1. IsFiniteSet(Rewarding(u)') /\ Cardinality(Rewarding(u)') <= Cardinality(Rewarding(u))
    BY FS_Subset DEF Accounted
  <1>2. /\ Cardinality(Rewarding(u)) \in Nat /\ Cardinality(Rewarding(u)') \in Nat
        /\ Cardinality(Paid(u)) \in Nat /\ rewards[u] \in Nat
    BY <1>1, FS_CardinalityType DEF Accounted, TypeOK
  <1>3. rewards'[u] + Cardinality(Rewarding(u)') <= Cardinality(Paid(u)')
    BY <1>1, <1>2 DEF Accounted
  <1> QED  BY <1>1, <1>3 DEF Accounted

LEMMA CompleteAccounted ==
    ASSUME TypeOK, TypeOK', NEW r \in Requests, NEW p \in Payments, Complete(r, p),
           NEW u \in Users, Accounted(u)
    PROVE  Accounted(u)'
  <1> USE PaymentsAssumption DEF TypeOK
  <1>0. rewards'[u] = rewards[u] /\ status' = [status EXCEPT ![p] = "COMPLETED"] /\ status[p] = "PENDING"
    BY DEF Complete, Claim
  <1>1. CASE p \in Subscriptions /\ Owner[p] = u
    <2>1. Paid(u)' = Paid(u) \cup {p} /\ p \notin Paid(u)
      BY <1>0, <1>1 DEF Paid, Completed, Payments
    <2>9. /\ IsFiniteSet(Paid(u) \cup {p})
          /\ Cardinality(Paid(u) \cup {p}) = Cardinality(Paid(u)) + 1
      BY <2>1, FS_AddElement DEF Accounted
    <2>2. IsFiniteSet(Paid(u)') /\ Cardinality(Paid(u)') = Cardinality(Paid(u)) + 1
      BY <2>1, <2>9
    <2>3. Rewarding(u)' \subseteq Rewarding(u) \cup {r}
      BY <1>1 DEF Complete, Goes, Ends, At, Rewarding, Idle
    <2>4. r \notin Rewarding(u)
      BY DEF Complete, Goes, Ends, At, Rewarding
    <2>5. /\ IsFiniteSet(Rewarding(u) \cup {r})
          /\ Cardinality(Rewarding(u) \cup {r}) = Cardinality(Rewarding(u)) + 1
      BY <2>4, FS_AddElement DEF Accounted
    <2>6. IsFiniteSet(Rewarding(u)') /\ Cardinality(Rewarding(u)') <= Cardinality(Rewarding(u)) + 1
      BY <2>3, <2>5, FS_Subset
    <2>7. /\ Cardinality(Rewarding(u)) \in Nat /\ Cardinality(Rewarding(u)') \in Nat
          /\ Cardinality(Paid(u)) \in Nat /\ rewards[u] \in Nat
      BY <2>6, FS_CardinalityType DEF Accounted
    <2>8. rewards'[u] + Cardinality(Rewarding(u)') <= Cardinality(Paid(u)')
      BY <1>0, <2>2, <2>6, <2>7 DEF Accounted
    <2> QED  BY <2>2, <2>6, <2>8 DEF Accounted
  <1>2. CASE ~(p \in Subscriptions /\ Owner[p] = u)
    <2>1. Paid(u)' = Paid(u)
      BY <1>0, <1>2 DEF Paid, Completed, Payments
    <2>2. CASE Ends(r, p, "complete")
      <3>1. Rewarding(u)' \subseteq Rewarding(u)
        BY <2>2 DEF Ends, Rewarding, Idle
      <3> QED  BY <1>0, <2>1, <3>1, AccountedShrinks
    <2>3. CASE p \in Subscriptions /\ Goes(r, p, "complete", "reward")
      <3>1. Owner[p] # u /\ request[r].pay = p /\ request'[r].pay = p
        BY <1>2, <2>3 DEF Goes, At
      <3>2. Rewarding(u)' \subseteq Rewarding(u)
        BY <2>3, <3>1 DEF Goes, Rewarding
      <3> QED  BY <1>0, <2>1, <3>2, AccountedShrinks
    <2> QED  BY <2>2, <2>3 DEF Complete
  <1> QED  BY <1>1, <1>2

LEMMA RewardAccounted ==
    ASSUME TypeOK, TypeOK', NEW r \in Requests, NEW p \in Payments, IssueRewards(r, p),
           NEW u \in Users, Accounted(u)
    PROVE  Accounted(u)'
  <1> USE PaymentsAssumption DEF TypeOK
  <1>0. Paid(u)' = Paid(u)
    BY DEF IssueRewards, rows, Paid, Completed
  <1>1. CASE Owner[p] = u
    <2>1. r \in Rewarding(u) /\ Rewarding(u)' = Rewarding(u) \ {r}
      BY <1>1 DEF IssueRewards, Ends, At, Rewarding, Idle
    <2>6. /\ IsFiniteSet(Rewarding(u) \ {r})
          /\ Cardinality(Rewarding(u) \ {r}) = Cardinality(Rewarding(u)) - 1
      BY <2>1, FS_RemoveElement DEF Accounted
    <2>2. IsFiniteSet(Rewarding(u)') /\ Cardinality(Rewarding(u)') = Cardinality(Rewarding(u)) - 1
      BY <2>1, <2>6
    <2>3. rewards'[u] = rewards[u] + 1
      BY <1>1 DEF IssueRewards, Add
    <2>4. /\ Cardinality(Rewarding(u)) \in Nat /\ Cardinality(Paid(u)) \in Nat /\ rewards[u] \in Nat
      BY FS_CardinalityType DEF Accounted
    <2>5. rewards'[u] + Cardinality(Rewarding(u)') <= Cardinality(Paid(u)')
      BY <1>0, <2>2, <2>3, <2>4 DEF Accounted
    <2> QED  BY <1>0, <2>2, <2>5 DEF Accounted
  <1>2. CASE Owner[p] # u
    <2>1. Rewarding(u)' \subseteq Rewarding(u)
      BY <1>2 DEF IssueRewards, Ends, At, Rewarding, Idle
    <2>2. rewards'[u] = rewards[u]
      BY <1>2 DEF IssueRewards, Add
    <2> QED  BY <1>0, <2>1, <2>2, AccountedShrinks
  <1> QED  BY <1>1, <1>2

LEMMA AccountedKept ==
    TypeOK /\ TypeOK' /\ (\A u \in Users : Accounted(u)) /\ [Next]_vars
        => (\A u \in Users : Accounted(u))'
  <1> SUFFICES ASSUME TypeOK, TypeOK', \A u \in Users : Accounted(u), [Next]_vars, NEW u \in Users
               PROVE  Accounted(u)'
    OBVIOUS
  <1>1. ASSUME NEW r \in Requests, NEW p \in Payments, RequestStep(r, p)
        PROVE  Accounted(u)'
    <2>1. CASE Complete(r, p)      BY <2>1, CompleteAccounted
    <2>2. CASE IssueRewards(r, p)  BY <2>2, RewardAccounted
    <2>3. CASE \/ ReadForVerify(r, p) \/ GatewayConfirms(r, p) \/ GatewayRefuses(r, p)
               \/ MarkRefused(r, p) \/ ReadForConfirm(r, p) \/ ConfirmCreates(r, p)
               \/ CountPrior(r, p) \/ LosesClaim(r, p) \/ Stops(r, p)
      <3>1. rewards' = rewards
        BY <2>3 DEF ReadForVerify, GatewayConfirms, GatewayRefuses, MarkRefused,
           ReadForConfirm, ConfirmCreates, CountPrior, LosesClaim, Stops
      <3>2. Paid(u)' = Paid(u)
        BY <2>3 DEF ReadForVerify, GatewayConfirms, GatewayRefuses, MarkRefused, MarkFailed,
           ReadForConfirm, ConfirmCreates, CountPrior, LosesClaim, Stops, rows, Paid, Completed,
           TypeOK, Payments
      <3>3. Rewarding(u)' \subseteq Rewarding(u)
        BY <2>3 DEF ReadForVerify, GatewayConfirms, GatewayRefuses, MarkRefused,
           ReadForConfirm, ConfirmCreates, CountPrior, LosesClaim, Stops, TypeOK,
           Begins, Goes, Ends, Idle, Rewarding
      <3> QED  BY <3>1, <3>2, <3>3, AccountedShrinks
    <2> QED  BY <1>1, <2>1, <2>2, <2>3 DEF RequestStep
  <1>2. CASE \/ \E p \in Payments : Initiate(p) \/ BuyerPays(p) \/ FailureCallback(p)
             \/ \E v \in Users : UserStep(v)
             \/ UNCHANGED vars
    <2>1. rewards' = rewards /\ request' = request
      BY <1>2 DEF Initiate, BuyerPays, FailureCallback, UserStep, Debit, ReadForRefund,
         ZeroWallet, DropToFreePlan, PlanRunsOut, vars
    <2>2. Paid(u)' = Paid(u)
      BY <1>2 DEF Initiate, BuyerPays, FailureCallback, MarkFailed, UserStep, Debit,
         ReadForRefund, ZeroWallet, DropToFreePlan, PlanRunsOut, vars, rows, Paid, Completed,
         TypeOK, Payments
    <2> QED  BY <2>1, <2>2, AccountedShrinks DEF Rewarding
  <1> QED  BY <1>1, <1>2 DEF Next

\* Only a request past its count may hold itself for the first, and one that
\* issues a reward does.
FirstSlots ==
    \A r \in Requests :
        /\ request[r].first => request[r].at \in {"complete", "reward"}
        /\ request[r].at = "reward" =>
              request[r].first /\ request[r].pay \in Subscriptions

\* Slot by slot: a request that goes on keeps its payment and what it counted.
LEMMA Moves ==
    ASSUME request \in [Requests -> Slot], NEW r \in Requests, NEW p \in Payments,
           NEW from, NEW to \in Places, Goes(r, p, from, to)
    PROVE  /\ request[r].at = from /\ request[r].pay = p
           /\ request'[r].at = to /\ request'[r].pay = p
           /\ request'[r].first = request[r].first
           /\ \A q \in Requests \ {r} : request'[q] = request[q]
  <1> DEFINE s == [request[r] EXCEPT !.at = to]
  <1>1. s.at = to /\ s.pay = request[r].pay /\ s.first = request[r].first
    BY DEF Slot
  <1>2. request' = [request EXCEPT ![r] = s]
    BY DEF Goes
  <1>3. request[r].at = from /\ request[r].pay = p
    BY DEF Goes, At
  <1> HIDE DEF s
  <1> QED  BY <1>1, <1>2, <1>3

LEMMA Beginning ==
    ASSUME request \in [Requests -> Slot], NEW r \in Requests, NEW p \in Payments,
           NEW place, place # "reward", Begins(r, p, place)
    PROVE  /\ ~request'[r].first /\ request'[r].at # "reward"
           /\ \A q \in Requests \ {r} : request'[q] = request[q]
  BY DEF Begins

LEMMA Ending ==
    ASSUME request \in [Requests -> Slot], NEW r \in Requests, NEW p \in Payments,
           NEW place, Ends(r, p, place)
    PROVE  /\ ~request'[r].first /\ request'[r].at # "reward"
           /\ \A q \in Requests \ {r} : request'[q] = request[q]
  BY DEF Ends, Idle

\* What a step of a request does to its slot.
LEMMA SlotSteps ==
    ASSUME TypeOK, NEW r \in Requests, NEW p \in Payments, RequestStep(r, p)
    PROVE  /\ \A q \in Requests \ {r} : request'[q] = request[q]
           /\ \/ ~request'[r].first /\ request'[r].at # "reward"
              \/ /\ request[r].pay = p /\ request'[r].pay = p
                 /\ request[r].at \in {"ask", "validate"}
                 /\ request'[r].first = request[r].first
                 /\ request'[r].at # "reward"
              \/ /\ request'[r].pay = p /\ request'[r].at = "complete"
                 /\ request'[r].first = IsFirst(p)
              \/ /\ request[r].pay = p /\ request'[r].pay = p
                 /\ request[r].first /\ request'[r].first
                 /\ request'[r].at = "reward" /\ p \in Subscriptions
  <1>0. /\ request \in [Requests -> Slot]
        /\ \A to \in {"ask", "validate", "refused", "count", "complete", "reward"} : to \in Places
    BY DEF TypeOK, Slot, Places
  <1>1. CASE GatewayConfirms(r, p)
    <2>1. Goes(r, p, "ask", "count")
      BY <1>1 DEF GatewayConfirms
    <2> QED  BY <1>0, <2>1, Moves
  <1>2. CASE GatewayRefuses(r, p)
    <2>1. Goes(r, p, "ask", "refused")
      BY <1>2 DEF GatewayRefuses
    <2> QED  BY <1>0, <2>1, Moves
  <1>3. CASE ReadForVerify(r, p) \/ ReadForConfirm(r, p)
    <2>1. Begins(r, p, "ask") \/ Begins(r, p, "validate")
      BY <1>3 DEF ReadForVerify, ReadForConfirm
    <2> QED  BY <1>0, <2>1, Beginning
  <1>4. CASE ConfirmCreates(r, p)
    <2>1. Goes(r, p, "validate", "count") \/ Ends(r, p, "validate")
      BY <1>4 DEF ConfirmCreates
    <2> QED  BY <1>0, <2>1, Moves, Ending
  <1>5. CASE CountPrior(r, p)
    BY <1>0, <1>5 DEF CountPrior
  <1>6. CASE Complete(r, p)
    <2>1. CASE Ends(r, p, "complete")
      BY <1>0, <2>1, Ending
    <2>2. CASE /\ Goes(r, p, "complete", "reward")
               /\ p \in Subscriptions /\ request[r].first
      BY <1>0, <2>2, Moves
    <2> QED  BY <1>6, <2>1, <2>2 DEF Complete
  <1>7. CASE MarkRefused(r, p) \/ LosesClaim(r, p) \/ IssueRewards(r, p) \/ Stops(r, p)
    <2>1. \E place : Ends(r, p, place)
      BY <1>7 DEF MarkRefused, LosesClaim, IssueRewards, Stops
    <2> QED  BY <1>0, <2>1, Ending
  <1> QED  BY <1>1, <1>2, <1>3, <1>4, <1>5, <1>6, <1>7 DEF RequestStep

LEMMA FirstSlotsKept == TypeOK /\ FirstSlots /\ [Next]_vars => FirstSlots'
  <1> SUFFICES ASSUME TypeOK, FirstSlots, [Next]_vars
               PROVE  FirstSlots'
    OBVIOUS
  <1>1. ASSUME NEW r \in Requests, NEW p \in Payments, RequestStep(r, p)
        PROVE  FirstSlots'
    BY <1>1, SlotSteps DEF FirstSlots
  <1>2. CASE UNCHANGED request
    BY <1>2 DEF FirstSlots
  <1> QED
    BY <1>1, <1>2 DEF Next, vars, Initiate, BuyerPays, FailureCallback, UserStep, Debit,
       ReadForRefund, ZeroWallet, DropToFreePlan, PlanRunsOut

\* Who hopes for a reward has counted; a count that finds a payment ends the hope.
LEMMA HopesShrink ==
    ASSUME TypeOK, NEW r \in Requests, NEW p \in Payments, RequestStep(r, p),
           NEW u \in Users, Completed(Payments, u) # {}
    PROVE  Hopeful(u)' \subseteq Hopeful(u)
  <1>1. p \in Subscriptions /\ Owner[p] = u => ~IsFirst(p)
    BY PaymentsAssumption DEF IsFirst, Payments
  <1> QED  BY <1>1, SlotSteps DEF Hopeful

\* The requests that hope are finitely many.
HopesFinite == \A u \in Users : IsFiniteSet(Hopeful(u))

LEMMA HopesFiniteKept == TypeOK /\ HopesFinite /\ [Next]_vars => HopesFinite'
  <1> SUFFICES ASSUME TypeOK, HopesFinite, [Next]_vars, NEW u \in Users
               PROVE  IsFiniteSet(Hopeful(u)')
    BY DEF HopesFinite
  <1>1. IsFiniteSet(Hopeful(u))
    BY DEF HopesFinite
  <1>2. ASSUME NEW r \in Requests, NEW p \in Payments, RequestStep(r, p)
        PROVE  IsFiniteSet(Hopeful(u)')
    <2>1. \A q \in Requests \ {r} : request'[q] = request[q]
      BY <1>2, SlotSteps
    <2>2. Hopeful(u)' \subseteq Hopeful(u) \cup {r}
      BY <2>1 DEF Hopeful
    <2>3. IsFiniteSet(Hopeful(u) \cup {r})
      BY <1>1, FS_AddElement
    <2> QED  BY <2>2, <2>3, FS_Subset
  <1>3. CASE UNCHANGED request
    BY <1>1, <1>3 DEF Hopeful
  <1> QED
    BY <1>2, <1>3 DEF Next, vars, Initiate, BuyerPays, FailureCallback, UserStep, Debit,
       ReadForRefund, ZeroWallet, DropToFreePlan, PlanRunsOut

LEMMA NoNewHope ==
    ASSUME TypeOK, FirstSlots, HopesFinite, [Next]_vars,
           NEW u \in Users, Completed(Payments, u) # {}
    PROVE  rewards'[u] + Cardinality(Hopeful(u))' <= rewards[u] + Cardinality(Hopeful(u))
  <1>0. IsFiniteSet(Hopeful(u)) /\ rewards[u] \in Nat /\ Cardinality(Hopeful(u)) \in Nat
    BY FS_CardinalityType DEF HopesFinite, TypeOK
  <1>1. ASSUME Hopeful(u)' \subseteq Hopeful(u), rewards'[u] = rewards[u]
        PROVE  rewards'[u] + Cardinality(Hopeful(u)') <= rewards[u] + Cardinality(Hopeful(u))
    <2>1. /\ Cardinality(Hopeful(u)') <= Cardinality(Hopeful(u))
          /\ IsFiniteSet(Hopeful(u)')
      BY <1>0, <1>1, FS_Subset
    <2>2. Cardinality(Hopeful(u)') \in Nat
      BY <2>1, FS_CardinalityType
    <2> QED  BY <1>0, <1>1, <2>1, <2>2
  <1>2. ASSUME NEW r \in Requests, NEW p \in Payments, IssueRewards(r, p), Owner[p] = u
        PROVE  rewards'[u] + Cardinality(Hopeful(u)') <= rewards[u] + Cardinality(Hopeful(u))
    <2>1. r \in Hopeful(u) /\ Hopeful(u)' = Hopeful(u) \ {r}
      BY <1>2 DEF IssueRewards, Ends, At, Idle, Hopeful, FirstSlots, TypeOK
    <2>2. Cardinality(Hopeful(u) \ {r}) = Cardinality(Hopeful(u)) - 1
      BY <1>0, <2>1, FS_RemoveElement
    <2>3. rewards'[u] = rewards[u] + 1
      BY <1>2 DEF IssueRewards, Add, TypeOK
    <2> QED  BY <1>0, <2>1, <2>2, <2>3
  <1>3. ASSUME NEW r \in Requests, NEW p \in Payments, RequestStep(r, p)
        PROVE  rewards'[u] + Cardinality(Hopeful(u)') <= rewards[u] + Cardinality(Hopeful(u))
    <2>1. Hopeful(u)' \subseteq Hopeful(u)
      BY <1>3, HopesShrink
    <2>2. CASE IssueRewards(r, p) /\ Owner[p] = u
      BY <1>2, <2>2
    <2>3. CASE ~(IssueRewards(r, p) /\ Owner[p] = u)
      <3>1. rewards'[u] = rewards[u]
        BY <1>3, <2>3, PaymentsAssumption
           DEF RequestStep, ReadForVerify, GatewayConfirms, GatewayRefuses, MarkRefused,
               ReadForConfirm, ConfirmCreates, CountPrior, Complete, LosesClaim,
               IssueRewards, Stops, Add, TypeOK
      <3> QED  BY <1>1, <2>1, <3>1
    <2> QED  BY <2>2, <2>3
  <1>4. CASE UNCHANGED <<request, rewards>>
    BY <1>1, <1>4 DEF Hopeful
  <1> QED
    BY <1>3, <1>4 DEF Next, vars, Initiate, BuyerPays, FailureCallback, UserStep, Debit,
       ReadForRefund, ZeroWallet, DropToFreePlan, PlanRunsOut

\* Whichever callbacks win or lose the claim and whichever processes die before
\* the reward: once a payment of the user is completed no request becomes one that
\* may bring a reward, and there are never more rewards than paid plans.
THEOREM RewardsForTheFirst == Spec => RewardGoesToFirst
  <1> DEFINE Inv == TypeOK /\ (\A u \in Users : Accounted(u)) /\ FirstSlots /\ HopesFinite
  <1>1. Init => Inv
    <2> SUFFICES ASSUME Init PROVE Inv
      OBVIOUS
    <2>1. TypeOK
      BY PaymentsAssumption DEF Init, TypeOK, Statuses, Places, Idle
    <2>2. ASSUME NEW u \in Users
          PROVE  Accounted(u) /\ IsFiniteSet(Hopeful(u))
      <3>1. Rewarding(u) = {} /\ Paid(u) = {} /\ Hopeful(u) = {}
        BY DEF Init, Rewarding, Paid, Completed, Idle, Payments, Hopeful
      <3> QED  BY <2>2, <3>1, FS_EmptySet DEF Accounted, Init
    <2>3. FirstSlots
      BY DEF Init, FirstSlots, Idle
    <2> QED  BY <2>1, <2>2, <2>3 DEF HopesFinite
  <1>2. Inv /\ [Next]_vars => Inv'
    <2> SUFFICES ASSUME Inv, [Next]_vars PROVE Inv'
      OBVIOUS
    <2>1. TypeOK'
      BY TypesKept
    <2> QED  BY <2>1, AccountedKept, FirstSlotsKept, HopesFiniteKept
  <1>3. Inv /\ Inv' /\ [Next]_vars =>
            [\A u \in Users :
                /\ rewards'[u] <= Cardinality(Completed(Subscriptions, u))'
                /\ Completed(Payments, u) # {} =>
                      rewards'[u] + Cardinality(Hopeful(u))'
                          <= rewards[u] + Cardinality(Hopeful(u))]_vars
    <2> SUFFICES ASSUME Inv, Inv', [Next]_vars, NEW u \in Users
                 PROVE  /\ rewards'[u] <= Cardinality(Completed(Subscriptions, u))'
                        /\ Completed(Payments, u) # {} =>
                              rewards'[u] + Cardinality(Hopeful(u))'
                                  <= rewards[u] + Cardinality(Hopeful(u))
      OBVIOUS
    <2>1. /\ TypeOK' /\ IsFiniteSet(Rewarding(u)') /\ IsFiniteSet(Paid(u)')
          /\ rewards'[u] + Cardinality(Rewarding(u)') <= Cardinality(Paid(u)')
      BY DEF Accounted
    <2>2. /\ rewards'[u] \in Nat /\ Cardinality(Rewarding(u)') \in Nat
          /\ Cardinality(Paid(u)') \in Nat
      BY <2>1, FS_CardinalityType DEF TypeOK
    <2>3. rewards'[u] <= Cardinality(Paid(u)')
      BY <2>1, <2>2
    <2> QED  BY <2>3, NoNewHope DEF Paid
  <1> HIDE DEF Inv
  <1> QED  BY <1>1, <1>2, <1>3, PTL DEF Spec, RewardGoesToFirst

=============================================================================
