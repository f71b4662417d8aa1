-------------------------- MODULE StoreCreditProofs -------------------------
(***************************************************************************)
(* Proofs about StoreCredit, for any number of chats and tools, any        *)
(* markups and any amounts: types, the total that is the sum of the        *)
(* buckets, the trial that is not overspent, the reservations that belong  *)
(* to somebody, the uses and purchases that are paid, and the debts that   *)
(* are needed.                                                             *)
(***************************************************************************)
EXTENDS StoreCredit, CreditPlannerProofs

-----------------------------------------------------------------------------
(* The ledger: an operation keeps its types, and leaves a total that is    *)
(* the sum of the buckets.                                                 *)

LedgerOK == balance \in Int /\ bucket \in Amounts /\ held \subseteq Sources

Balanced == balance = Sum(bucket)

LEMMA Healed ==
    ASSUME LedgerOK
    PROVE  /\ HealedBucket \in Amounts
           /\ Sum(HealedBucket) = balance
           /\ HealedRows \subseteq Sources
  <1>1. Sum(bucket) \in Int
    BY SumInt DEF LedgerOK
  <1>2. ASSUME NEW f \in Amounts, NEW d \in Int
        PROVE  /\ [f EXCEPT !["LEGACY"] = @ + d] \in Amounts
               /\ Sum([f EXCEPT !["LEGACY"] = @ + d]) = Sum(f) + d
    BY DEF Amounts, Sum, Sources
  <1>3. balance - Sum(bucket) \in Int
        /\ Sum(bucket) + (balance - Sum(bucket)) = balance
    BY <1>1 DEF LedgerOK
  <1>4. HealedRows \subseteq Sources
    BY DEF LedgerOK, HealedRows, Sources
  <1>5. bucket \in Amounts
    BY DEF LedgerOK
  <1> QED  BY <1>2, <1>3, <1>4, <1>5 DEF HealedBucket

LEMMA DebitsHeal ==
    ASSUME LedgerOK, NEW charges \in Amounts, NEW total,
           Sum(charges) = total, Debits(charges, total)
    PROVE  LedgerOK' /\ Balanced'
  <1>1. HealedBucket \in Amounts /\ Sum(HealedBucket) = balance
        /\ HealedRows \subseteq Sources
    BY Healed
  <1>2. ASSUME NEW f \in Amounts, NEW g \in Amounts
        PROVE  /\ [s \in Sources |-> f[s] - g[s]] \in Amounts
               /\ Sum([s \in Sources |-> f[s] - g[s]]) = Sum(f) - Sum(g)
    BY DEF Amounts, Sum, Sources
  <1>3. bucket' \in Amounts /\ Sum(bucket') = balance - total
    BY <1>1, <1>2 DEF Debits
  <1>4. balance' = balance - total /\ total \in Int
    BY SumInt DEF Debits
  <1>5. held' \subseteq Sources
    BY <1>1 DEF Debits
  <1>6. balance' \in Int
    BY <1>4 DEF LedgerOK
  <1>7. Sum(bucket)' = Sum(bucket')
    BY DEF Sum
  <1>8. LedgerOK'
    BY <1>3, <1>5, <1>6 DEF LedgerOK
  <1> QED  BY <1>3, <1>4, <1>7, <1>8 DEF Balanced

LEMMA CreditsHeal ==
    ASSUME LedgerOK, NEW s \in Sources, NEW a \in Int, Credits(s, a)
    PROVE  LedgerOK' /\ Balanced'
  <1>1. HealedBucket \in Amounts /\ Sum(HealedBucket) = balance
        /\ HealedRows \subseteq Sources
    BY Healed
  <1>2. ASSUME NEW f \in Amounts
        PROVE  /\ [f EXCEPT ![s] = @ + a] \in Amounts
               /\ Sum([f EXCEPT ![s] = @ + a]) = Sum(f) + a
    BY DEF Amounts, Sum, Sources
  <1>3. bucket' \in Amounts /\ Sum(bucket') = balance + a
    BY <1>1, <1>2 DEF Credits
  <1>4. balance' = balance + a /\ held' \subseteq Sources
    BY <1>1 DEF Credits
  <1>5. balance' \in Int
    BY <1>4 DEF LedgerOK
  <1>6. Sum(bucket)' = Sum(bucket')
    BY DEF Sum
  <1>7. LedgerOK'
    BY <1>3, <1>4, <1>5 DEF LedgerOK
  <1> QED  BY <1>3, <1>4, <1>6, <1>7 DEF Balanced

LEMMA TypedLedger ==
    ASSUME TypeOK
    PROVE  LedgerOK /\ trial \in Nat
  BY StoreCreditAssumption DEF TypeOK, LedgerOK, Amounts

\* What a use takes from the trial, and what it may charge to the buckets.
LEMMA UseTypes ==
    ASSUME TypeOK, NEW k \in Kinds, NEW raw \in Nat
    PROVE  /\ OfTrial(k, raw) \in 0..trial
           /\ Charges(k, raw) \in Amounts
  <1>1. LedgerOK /\ trial \in Nat
    BY TypedLedger
  <1>2. OfTrial(k, raw) \in 0..trial
    <2>1. GlobalMarkup[k] \in Nat
      BY PartsInt
    <2>2. raw * GlobalMarkup[k] \in Nat
      BY <2>1
    <2> QED  BY <1>1, <2>2 DEF OfTrial, TrialCharge, Lesser
  <1>3. Due(k, raw) \in Int
    <2>1. DueAfterTrial(k, raw, trial) \in Int
      BY <1>1, DueInt
    <2>2. raw * Unit \in Int
      BY PlannerAssumption
    <2> QED  BY <2>1, <2>2 DEF Due
  <1> QED  BY <1>1, <1>2, <1>3, Healed, BucketChargesInt DEF Charges

LEMMA ChargeLedger ==
    ASSUME TypeOK, NEW u \in Users, Charge(u)
    PROVE  /\ LedgerOK' /\ Balanced'
           /\ trial' \in Nat /\ trial' <= trial
           /\ trialSpent' + trial' = trialSpent + trial
           /\ trialSpent' \in Nat
  <1>1. KindOf(u) \in Kinds
    BY DEF KindOf, Kinds
  <1>2. PICK raw \in RawCosts :
            /\ Debits(Charges(KindOf(u), raw), Sum(Charges(KindOf(u), raw)))
            /\ trial' = trial - OfTrial(KindOf(u), raw)
            /\ trialSpent' = trialSpent + OfTrial(KindOf(u), raw)
    BY DEF Charge
  <1>3. raw \in Nat
    BY <1>2, StoreCreditAssumption
  <1>4. /\ OfTrial(KindOf(u), raw) \in 0..trial
        /\ Charges(KindOf(u), raw) \in Amounts
    BY <1>1, <1>3, UseTypes
  <1>5. LedgerOK /\ trial \in Nat
    BY TypedLedger
  <1>6. LedgerOK' /\ Balanced'
    BY <1>2, <1>4, <1>5, DebitsHeal
  <1>7. trialSpent \in Nat
    BY DEF TypeOK
  <1> QED  BY <1>2, <1>4, <1>5, <1>6, <1>7

LEMMA TopupLedger ==
    ASSUME TypeOK, Topup
    PROVE  LedgerOK' /\ Balanced'
  <1>1. PICK s \in TopupSources, a \in TopupAmounts : Credits(s, a)
    BY DEF Topup
  <1>2. s \in Sources /\ a \in Int
    BY StoreCreditAssumption
  <1> QED  BY <1>1, <1>2, TypedLedger, CreditsHeal

LEMMA AdminDebitLedger ==
    ASSUME TypeOK, AdminDebit
    PROVE  LedgerOK' /\ Balanced'
  <1>1. PICK a \in AdminDebits : Debits(AdminCharges(HealedBucket, a), a)
    BY DEF AdminDebit
  <1>2. a \in Int
    BY StoreCreditAssumption
  <1>3. HealedBucket \in Amounts
    BY TypedLedger, Healed
  <1>4. /\ AdminCharges(HealedBucket, a) \in Amounts
        /\ Sum(AdminCharges(HealedBucket, a)) = a
    BY <1>2, <1>3, AdminChargesExact
  <1> QED  BY <1>1, <1>4, TypedLedger, DebitsHeal

LEMMA PurchaseLedger ==
    ASSUME TypeOK, BuyPlacement
    PROVE  LedgerOK' /\ Balanced'
  <1>1. PICK price \in Prices :
            Debits(PriceCharges(HealedBucket, price),
                   Sum(PriceCharges(HealedBucket, price)))
    BY DEF BuyPlacement
  <1>2. price \in Nat
    BY StoreCreditAssumption
  <1>3. HealedBucket \in Amounts
    BY TypedLedger, Healed
  <1>4. PriceCharges(HealedBucket, price) \in Amounts
    BY <1>2, <1>3, PriceChargesInt
  <1> QED  BY <1>1, <1>4, TypedLedger, DebitsHeal

-----------------------------------------------------------------------------
(* Types.                                                                  *)

\* The part of the state that belongs to no ledger operation.
Others ==
    /\ trialPhase \in {"NONE", "RUNNING", "OVER"}
    /\ cache \in Int \cup {NoCache}
    /\ resv \in Int
    /\ billing \in [Chats -> {"PAID", "BLOCKED"}]
    /\ pc \in [Users -> Places]
    /\ seen \in [Users -> Int]
    /\ desk \in {"idle", "invalidate", "invalidateOnly", "clear", "reread",
                 "reopen"}
    /\ orphans \in Nat

Trial == trial \in 0..TrialCredit /\ trialSpent \in Nat

LEMMA TypeParts == TypeOK <=> LedgerOK /\ Trial /\ Others
  BY DEF TypeOK, LedgerOK, Amounts, Trial, Others

LEMMA SpendableInt ==
    ASSUME LedgerOK, Trial
    PROVE  Spendable \in Int
  BY StoreCreditAssumption DEF LedgerOK, Trial, Spendable

LEMMA Kept ==
    ASSUME LedgerOK, Trial, Others', UNCHANGED <<ledger, trial, trialSpent>>
    PROVE  TypeOK'
  BY DEF TypeOK, LedgerOK, Amounts, Trial, Others, ledger

LEMMA ChatTypes ==
    ASSUME TypeOK, NEW c \in Chats, ChatStep(c)
    PROVE  TypeOK'
  <1> USE DEF Goes, Forgets
  <1>0. /\ LedgerOK /\ Trial /\ Others /\ c \in Users /\ Spendable \in Int
        /\ Estimate \in Nat /\ TrialCredit \in Nat
    BY TypeParts, SpendableInt, StoreCreditAssumption DEF Users
  <1>1. CASE StartChat(c)
    <2>1. Others'
      BY <1>0, <1>1 DEF StartChat, Others, Places, trials
    <2>2. UNCHANGED <<ledger, trial, trialSpent>>
      BY <1>1 DEF StartChat, trials
    <2> QED  BY <1>0, <2>1, <2>2, Kept
  <1>2. CASE GrantTrial(c)
    <2>1. Others'
      BY <1>0, <1>2 DEF GrantTrial, Others, Places
    <2>2. Trial'
      BY <1>0, <1>2 DEF GrantTrial, Trial
    <2> QED  BY <1>0, <1>2, <2>1, <2>2 DEF GrantTrial, ledger, LedgerOK,
                                           Amounts, Trial, Others, TypeOK
  <1>3. CASE DecideBilling(c)
    <2>1. Others'
      BY <1>0, <1>3 DEF DecideBilling, Others, Places, trials
    <2>2. UNCHANGED <<ledger, trial, trialSpent>>
      BY <1>3 DEF DecideBilling, trials
    <2> QED  BY <1>0, <2>1, <2>2, Kept
  <1>4. CASE CreateChat(c)
    <2>1. Others'
      BY <1>0, <1>4 DEF CreateChat, Others, Places, trials
    <2>2. UNCHANGED <<ledger, trial, trialSpent>>
      BY <1>4 DEF CreateChat, trials
    <2> QED  BY <1>0, <2>1, <2>2, Kept
  <1>5. CASE BeginTurn(c)
    <2>1. Others'
      BY <1>0, <1>5 DEF BeginTurn, Others, Places, trials
    <2>2. UNCHANGED <<ledger, trial, trialSpent>>
      BY <1>5 DEF BeginTurn, trials
    <2> QED  BY <1>0, <2>1, <2>2, Kept
  <1>6. CASE FillCache(c)
    <2>1. Others'
      BY <1>0, <1>6 DEF FillCache, Others, Places, trials
    <2>2. UNCHANGED <<ledger, trial, trialSpent>>
      BY <1>6 DEF FillCache, trials
    <2> QED  BY <1>0, <2>1, <2>2, Kept
  <1>7. CASE Reserve(c)
    <2>1. Others'
      BY <1>0, <1>7 DEF Reserve, Others, Places, trials
    <2>2. UNCHANGED <<ledger, trial, trialSpent>>
      BY <1>7 DEF Reserve, trials
    <2> QED  BY <1>0, <2>1, <2>2, Kept
  <1>8. CASE Recache(c)
    <2>1. Others'
      BY <1>0, <1>8 DEF Recache, Others, Places, trials
    <2>2. UNCHANGED <<ledger, trial, trialSpent>>
      BY <1>8 DEF Recache, trials
    <2> QED  BY <1>0, <2>1, <2>2, Kept
  <1>9. CASE Release(c)
    <2>1. Others'
      BY <1>0, <1>9 DEF Release, Others, Places, trials
    <2>2. UNCHANGED <<ledger, trial, trialSpent>>
      BY <1>9 DEF Release, trials
    <2> QED  BY <1>0, <2>1, <2>2, Kept
  <1>10. CASE ResetCounter(c)
    <2>1. Others'
      BY <1>0, <1>10 DEF ResetCounter, Others, Places, trials
    <2>2. UNCHANGED <<ledger, trial, trialSpent>>
      BY <1>10 DEF ResetCounter, trials
    <2> QED  BY <1>0, <2>1, <2>2, Kept
  <1>11. CASE TurnDies(c)
    <2>1. Others'
      BY <1>0, <1>11 DEF TurnDies, Others, Places, trials
    <2>2. UNCHANGED <<ledger, trial, trialSpent>>
      BY <1>11 DEF TurnDies, trials
    <2> QED  BY <1>0, <2>1, <2>2, Kept
  <1>12. CASE BeginVoice(c)
    <2>1. Others'
      BY <1>0, <1>12 DEF BeginVoice, Others, Places, trials
    <2>2. UNCHANGED <<ledger, trial, trialSpent>>
      BY <1>12 DEF BeginVoice, trials
    <2> QED  BY <1>0, <2>1, <2>2, Kept
  <1>13. CASE FillForVoice(c)
    <2>1. Others'
      BY <1>0, <1>13 DEF FillForVoice, Others, Places, trials
    <2>2. UNCHANGED <<ledger, trial, trialSpent>>
      BY <1>13 DEF FillForVoice, trials
    <2> QED  BY <1>0, <2>1, <2>2, Kept
  <1> QED  BY <1>1, <1>2, <1>3, <1>4, <1>5, <1>6, <1>7, <1>8, <1>9, <1>10,
              <1>11, <1>12, <1>13 DEF ChatStep

LEMMA ChargeTypes ==
    ASSUME TypeOK, NEW u \in Users, Charge(u)
    PROVE  TypeOK'
  <1>1. /\ LedgerOK' /\ trial' \in Nat /\ trial' <= trial /\ trialSpent' \in Nat
    BY ChargeLedger
  <1>2. LedgerOK /\ Trial /\ Others
    BY TypeParts
  <1>3. Trial'
    BY <1>1, <1>2, StoreCreditAssumption DEF Trial
  <1>4. Spendable' \in Int
    BY <1>1 DEF Spendable, LedgerOK
  <1>5. Others'
    BY <1>2, <1>4 DEF Charge, Goes, Others, Places
  <1> QED  BY <1>1, <1>3, <1>5 DEF TypeOK, LedgerOK, Amounts, Trial, Others

LEMMA DeskTypes ==
    ASSUME TypeOK, DeskStep
    PROVE  TypeOK'
  <1>0. LedgerOK /\ Trial /\ Others
    BY TypeParts
  <1>1. CASE Topup \/ AdminDebit \/ BuyPlacement
    <2>1. LedgerOK'
      BY <1>1, TopupLedger, AdminDebitLedger, PurchaseLedger
    <2>2. Trial' /\ Others'
      BY <1>0, <1>1 DEF Topup, AdminDebit, BuyPlacement, trials, Trial, Others
    <2> QED  BY <2>1, <2>2 DEF TypeOK, LedgerOK, Amounts, Trial, Others
  <1>2. CASE \/ Invalidate \/ BackToBot \/ ClearForReopening
             \/ ReadForReopening \/ ReopenChats \/ DeskDies
    <2>1. Others'
      BY <1>0, <1>2 DEF Invalidate, BackToBot, ClearForReopening,
         ReadForReopening, ReopenChats, DeskDies, Others, trials
    <2>2. UNCHANGED <<ledger, trial, trialSpent>>
      BY <1>2 DEF Invalidate, BackToBot, ClearForReopening,
         ReadForReopening, ReopenChats, DeskDies, trials
    <2> QED  BY <1>0, <2>1, <2>2, Kept
  <1> QED  BY <1>1, <1>2 DEF DeskStep

\* The steps of nobody in particular, of a tool, and the end of a use.
LEMMA OtherTypes ==
    ASSUME TypeOK,
           \/ \E t \in Tools : BeginTool(t)
           \/ \E u \in Users : Record(u)
           \/ ReservationsExpire \/ CacheExpires \/ TrialEnds
           \/ UNCHANGED vars
    PROVE  TypeOK'
  <1>0. LedgerOK /\ Trial /\ Others
    BY TypeParts
  <1>1. CASE \E t \in Tools : BeginTool(t)
    <2>1. PICK t \in Tools : BeginTool(t)
      BY <1>1
    <2>2. Others' /\ UNCHANGED <<ledger, trial, trialSpent>>
      BY <1>0, <2>1 DEF BeginTool, Goes, Others, Places, trials, Users
    <2> QED  BY <1>0, <2>2, Kept
  <1>2. CASE \E u \in Users : Record(u)
    <2>1. PICK u \in Users : Record(u)
      BY <1>2
    <2>2. Others' /\ UNCHANGED <<ledger, trial, trialSpent>>
      BY <1>0, <2>1 DEF Record, Goes, Forgets, Others, Places, trials
    <2> QED  BY <1>0, <2>2, Kept
  <1>3. CASE ReservationsExpire \/ CacheExpires \/ TrialEnds
    <2>1. Others' /\ UNCHANGED <<ledger, trial, trialSpent>>
      BY <1>0, <1>3 DEF ReservationsExpire, CacheExpires, TrialEnds, Others,
         trials
    <2> QED  BY <1>0, <2>1, Kept
  <1>4. CASE UNCHANGED vars
    <2>1. Others' /\ UNCHANGED <<ledger, trial, trialSpent>>
      BY <1>0, <1>4 DEF vars, ledger, Others
    <2> QED  BY <1>0, <2>1, Kept
  <1> QED  BY <1>1, <1>2, <1>3, <1>4

LEMMA InitTypes == Init => TypeOK
  <1> SUFFICES ASSUME Init PROVE TypeOK
    OBVIOUS
  <1>1. LedgerOK
    BY StoreCreditAssumption DEF Init, LedgerOK, Amounts, Sources
  <1>2. Trial
    BY StoreCreditAssumption DEF Init, Trial
  <1>3. Others
    BY DEF Init, Others, Users, Places
  <1> QED  BY <1>1, <1>2, <1>3 DEF TypeOK, LedgerOK, Amounts, Trial, Others

LEMMA StepTypes == TypeOK /\ [Next]_vars => TypeOK'
  <1> SUFFICES ASSUME TypeOK, [Next]_vars PROVE TypeOK'
    OBVIOUS
  <1> QED  BY ChatTypes, ChargeTypes, DeskTypes, OtherTypes DEF Next

\* The types of the state.
THEOREM TypeCorrect == Spec => []TypeOK
  BY InitTypes, StepTypes, PTL DEF Spec

-----------------------------------------------------------------------------
(* The total is the sum of the buckets after any change.                   *)

LEMMA ChatKeepsLedger ==
    ASSUME NEW c \in Chats, ChatStep(c)
    PROVE  UNCHANGED <<balance, bucket>>
  BY DEF ChatStep, StartChat, GrantTrial, DecideBilling, CreateChat, BeginTurn,
         FillCache, Reserve, Recache, Release, ResetCounter, TurnDies,
         BeginVoice, FillForVoice,
         trials, ledger

LEMMA StepHeals ==
    TypeOK /\ Next => \/ UNCHANGED <<balance, bucket>>
                      \/ Balanced'
  <1> SUFFICES ASSUME TypeOK, Next
               PROVE  UNCHANGED <<balance, bucket>> \/ Balanced'
    OBVIOUS
  <1>1. CASE \E c \in Chats : ChatStep(c)
    BY <1>1, ChatKeepsLedger
  <1>2. CASE \E u \in Users : Charge(u)
    BY <1>2, ChargeLedger
  <1>3. CASE Topup \/ AdminDebit \/ BuyPlacement
    BY <1>3, TopupLedger, AdminDebitLedger, PurchaseLedger
  <1>4. CASE \/ Invalidate \/ BackToBot \/ ClearForReopening
             \/ ReadForReopening \/ ReopenChats \/ DeskDies
             \/ ReservationsExpire \/ CacheExpires \/ TrialEnds
    BY <1>4 DEF Invalidate, BackToBot, ClearForReopening, ReadForReopening,
       ReopenChats, DeskDies, ReservationsExpire, CacheExpires, TrialEnds,
       ledger
  <1>5. CASE \E t \in Tools : BeginTool(t)
    BY <1>5 DEF BeginTool, ledger
  <1>6. CASE \E u \in Users : Record(u)
    BY <1>6 DEF Record, ledger
  <1> QED  BY <1>1, <1>2, <1>3, <1>4, <1>5, <1>6 DEF Next, DeskStep

\* Whatever drift a store had, any operation on its credit leaves a total that
\* is the sum of the buckets.
THEOREM LedgerAlwaysHeals == Spec => LedgerHeals
  <1>1. TypeOK /\ [Next]_vars =>
            [<<balance, bucket>>' # <<balance, bucket>> =>
                balance' = Sum(bucket')]_vars
    <2> SUFFICES ASSUME TypeOK, Next,
                        <<balance, bucket>>' # <<balance, bucket>>
                 PROVE  balance' = Sum(bucket')
      OBVIOUS
    <2>1. Balanced'
      BY StepHeals
    <2> QED  BY <2>1 DEF Balanced, Sum
  <1> QED  BY <1>1, TypeCorrect, PTL DEF Spec, LedgerHeals

-----------------------------------------------------------------------------
(* The trial.  What it has paid and what is left are constant but for the   *)
(* chats that give it, and from when there is one no chat joins them.       *)

LEMMA GrantingCount ==
    ASSUME NEW S, S \subseteq Chats
    PROVE  IsFiniteSet(S) /\ Cardinality(S) \in Nat
  BY FS_Subset, FS_CardinalityType, StoreCreditAssumption

\* What the trial has given and may give.
Given == trialSpent + trial + TrialCredit * Cardinality(Granting)

\* The step of a chat that gives it: what is left is written over.
LEMMA GrantGives ==
    ASSUME TypeOK, NEW c \in Chats, GrantTrial(c)
    PROVE  Given' <= Given
  <1>1. c \in Granting /\ Granting' = Granting \ {c} /\ Granting \subseteq Chats
    BY DEF GrantTrial, Goes, Granting, TypeOK, Users
  <1>2. /\ Cardinality(Granting \ {c}) = Cardinality(Granting) - 1
        /\ Cardinality(Granting) \in Nat
    BY <1>1, GrantingCount, FS_RemoveElement
  <1> DEFINE n == Cardinality(Granting)
  <1>3. TrialCredit * (n - 1) = TrialCredit * n - TrialCredit /\ TrialCredit * n \in Int
    BY <1>2, StoreCreditAssumption
  <1>4. trial \in Nat /\ trialSpent \in Nat /\ TrialCredit \in Nat
    BY StoreCreditAssumption DEF TypeOK
  <1>5. trial' = TrialCredit /\ trialSpent' = trialSpent
    BY DEF GrantTrial
  <1>6. Given' = trialSpent + TrialCredit + TrialCredit * (n - 1)
    BY <1>1, <1>2, <1>5 DEF Given
  <1>7. Given = trialSpent + trial + TrialCredit * n
    BY DEF Given
  <1> HIDE DEF n
  <1> QED  BY <1>3, <1>4, <1>6, <1>7

\* A step that lets no chat in and leaves the sum.
LEMMA GivesNoMore ==
    ASSUME TypeOK, TypeOK', Granting' \subseteq Granting,
           trialSpent' + trial' = trialSpent + trial
    PROVE  Given' <= Given
  <1>1. /\ Cardinality(Granting') <= Cardinality(Granting)
        /\ Cardinality(Granting') \in Nat /\ Cardinality(Granting) \in Nat
    <2>1. Granting \subseteq Chats
      BY DEF Granting
    <2> QED  BY <2>1, GrantingCount, FS_Subset
  <1> DEFINE a == TrialCredit * Cardinality(Granting)
             b == TrialCredit * Cardinality(Granting')
  <1>2. b <= a /\ b \in Int /\ a \in Int
    BY <1>1, StoreCreditAssumption
  <1>3. trialSpent + trial \in Int
    BY StoreCreditAssumption DEF TypeOK
  <1>4. Given' = trialSpent + trial + b /\ Given = trialSpent + trial + a
    BY DEF Given
  <1> HIDE DEF a, b
  <1> QED  BY <1>2, <1>3, <1>4

LEMMA TrialStep ==
    ASSUME TypeOK, trialPhase # "NONE", [Next]_vars
    PROVE  Given' <= Given
  <1>0. TypeOK'
    BY StepTypes
  <1>1. CASE \E c \in Chats : GrantTrial(c)
    BY <1>1, GrantGives
  <1>2. ASSUME NEW c \in Chats, ChatStep(c), ~GrantTrial(c)
        PROVE  Given' <= Given
    <2>1. UNCHANGED <<trial, trialSpent>>
      BY <1>2 DEF ChatStep, StartChat, DecideBilling, CreateChat, BeginTurn, FillCache,
         Reserve, Recache, Release, ResetCounter, TurnDies, BeginVoice, FillForVoice, trials
    <2>2. /\ \A d \in Chats \ {c} : pc'[d] = pc[d]
          /\ pc'[c] # "grant"
      BY <1>2 DEF ChatStep, StartChat, DecideBilling, CreateChat, BeginTurn, FillCache,
         Reserve, Recache, Release, ResetCounter, TurnDies, BeginVoice, FillForVoice,
         Goes, TypeOK, Users
    <2>3. Granting' \subseteq Granting
      BY <2>2 DEF Granting
    <2> QED  BY <1>0, <2>1, <2>3, GivesNoMore
  <1>3. ASSUME NEW u \in Users, Charge(u)
        PROVE  Given' <= Given
    <2>1. trialSpent' + trial' = trialSpent + trial
      BY <1>3, ChargeLedger
    <2>2. Granting' \subseteq Granting
      BY <1>3 DEF Charge, Goes, Granting, TypeOK, Users
    <2> QED  BY <1>0, <2>1, <2>2, GivesNoMore
  <1>4. CASE (\E t \in Tools : BeginTool(t)) \/ \E u \in Users : Record(u)
    <2>1. UNCHANGED <<trial, trialSpent>>
      BY <1>4 DEF BeginTool, Record, trials
    <2>2. Granting' \subseteq Granting
      BY <1>4 DEF BeginTool, Record, Goes, Granting, TypeOK, Users
    <2> QED  BY <1>0, <2>1, <2>2, GivesNoMore
  <1>5. CASE \/ DeskStep \/ ReservationsExpire \/ CacheExpires \/ TrialEnds
             \/ UNCHANGED vars
    <2>1. UNCHANGED <<trial, trialSpent, pc>>
      BY <1>5 DEF DeskStep, Topup, AdminDebit, BuyPlacement, Invalidate,
         BackToBot, ClearForReopening, ReadForReopening, ReopenChats, DeskDies,
         ReservationsExpire, CacheExpires, TrialEnds, trials, vars
    <2> QED  BY <1>0, <2>1, GivesNoMore DEF Granting
  <1> QED  BY <1>1, <1>2, <1>3, <1>4, <1>5 DEF Next

\* Once there is a trial, nothing gives the store more of it than the chats that
\* looked before it began.
THEOREM TrialIsGivenAtTheStart == Spec => TrialNeverGrows
  <1>1. TypeOK /\ [Next]_vars =>
            [trialPhase # "NONE" =>
                trialSpent' + trial' + TrialCredit * Cardinality(Granting')
                    <= trialSpent + trial + TrialCredit * Cardinality(Granting)]_vars
    BY TrialStep DEF Given
  <1> QED  BY <1>1, TypeCorrect, PTL DEF Spec, TrialNeverGrows

-----------------------------------------------------------------------------
(* The reservations.                                                       *)

ReservedInv == TypeOK /\ ReservedForSomebody

LEMMA Products ==
    ASSUME NEW n \in Nat
    PROVE  /\ Estimate * n \in Nat
           /\ Estimate * (n + 1) = Estimate * n + Estimate
  BY StoreCreditAssumption

LEMMA HoldingCount ==
    /\ IsFiniteSet(Holding)
    /\ Cardinality(Holding) \in Nat
  <1>1. Holding \subseteq Chats
    BY DEF Holding
  <1> QED  BY <1>1, FS_Subset, FS_CardinalityType, StoreCreditAssumption

LEMMA KeepsBacked ==
    ASSUME ReservedInv, Holding' = Holding, UNCHANGED <<resv, orphans>>
    PROVE  ReservedForSomebody'
  BY DEF ReservedInv, ReservedForSomebody

LEMMA EmptiesBacked ==
    ASSUME TypeOK, resv' = 0, orphans' \in Nat, NEW H, H = Holding',
           IsFiniteSet(H)
    PROVE  ReservedForSomebody'
  <1>1. Cardinality(H) \in Nat
    BY FS_CardinalityType
  <1>2. Estimate * (Cardinality(H) + orphans') \in Nat
    BY <1>1, Products
  <1> QED  BY <1>2 DEF ReservedForSomebody

LEMMA Begins ==
    ASSUME ReservedInv, NEW c \in Chats, Reserve(c)
    PROVE  ReservedForSomebody'
  <1>1. c \notin Holding /\ Holding' = Holding \cup {c}
    BY DEF Reserve, Holding, ReservedInv, TypeOK, Users
  <1>2. Cardinality(Holding \cup {c}) = Cardinality(Holding) + 1
    BY <1>1, HoldingCount, FS_AddElement
  <1>3. Cardinality(Holding)' = Cardinality(Holding) + 1
    BY <1>1, <1>2
  <1>4. Cardinality(Holding) + orphans \in Nat /\ resv \in Int
    BY HoldingCount DEF ReservedInv, TypeOK
  <1>5. Estimate * ((Cardinality(Holding) + orphans) + 1)
          = Estimate * (Cardinality(Holding) + orphans) + Estimate
    BY <1>4, Products
  <1>6. (Cardinality(Holding) + 1) + orphans
          = (Cardinality(Holding) + orphans) + 1
    BY HoldingCount DEF ReservedInv, TypeOK
  <1>7. resv' = resv + Estimate /\ orphans' = orphans
    BY DEF Reserve
  <1>8. resv + Estimate <= Estimate * (Cardinality(Holding) + orphans) + Estimate
    BY <1>4, Products, StoreCreditAssumption DEF ReservedInv, ReservedForSomebody
  <1> QED  BY <1>3, <1>5, <1>6, <1>7, <1>8 DEF ReservedForSomebody

\* A turn that holds a reservation ends.
LEMMA HolderLeaves ==
    ASSUME ReservedInv, NEW c \in Chats, pc[c] \in {"run", "recache", "release"},
           NEW to \in {"idle", "reset"}, pc' = [pc EXCEPT ![c] = to]
    PROVE  /\ Holding' = Holding \ {c} /\ c \in Holding
           /\ Cardinality(Holding)' \in Nat
           /\ Cardinality(Holding) = Cardinality(Holding)' + 1
  <1>1. Holding' = Holding \ {c} /\ c \in Holding
    BY DEF Holding, ReservedInv, TypeOK, Users
  <1>2. /\ Cardinality(Holding \ {c}) = Cardinality(Holding) - 1
        /\ IsFiniteSet(Holding \ {c})
    BY <1>1, HoldingCount, FS_RemoveElement
  <1>3. Cardinality(Holding \ {c}) \in Nat
    BY <1>2, FS_CardinalityType
  <1>4. Cardinality(Holding)' = Cardinality(Holding \ {c})
    BY <1>1
  <1> QED  BY <1>1, <1>2, <1>3, <1>4, HoldingCount

LEMMA Ends ==
    ASSUME ReservedInv, NEW c \in Chats, Release(c)
    PROVE  ReservedForSomebody'
  <1>0. pc[c] \in {"run", "recache", "release"}
        /\ resv' = resv - Estimate /\ orphans' = orphans
    BY DEF Release
  <1>1. PICK to \in {"idle", "reset"} : pc' = [pc EXCEPT ![c] = to]
    BY DEF Release
  <1>2. /\ Cardinality(Holding)' \in Nat
        /\ Cardinality(Holding) = Cardinality(Holding)' + 1
    BY <1>0, <1>1, HolderLeaves
  <1>3. PICK n \in Nat : n = Cardinality(Holding)'
    BY <1>2
  <1>4. resv \in Int /\ orphans \in Nat /\ n + orphans \in Nat
    BY DEF ReservedInv, TypeOK
  <1>5. resv <= Estimate * ((n + orphans) + 1)
    <2>1. (n + 1) + orphans = (n + orphans) + 1
      BY <1>4
    <2> QED  BY <1>2, <1>3, <2>1 DEF ReservedInv, ReservedForSomebody
  <1>6. resv - Estimate <= Estimate * (n + orphans)
    BY <1>4, <1>5, Products, StoreCreditAssumption
  <1> QED  BY <1>0, <1>3, <1>6 DEF ReservedForSomebody

LEMMA Dies ==
    ASSUME ReservedInv, NEW c \in Chats, TurnDies(c)
    PROVE  ReservedForSomebody'
  <1>0. /\ pc[c] \in {"run", "recache", "release"}
        /\ pc' = [pc EXCEPT ![c] = "idle"]
        /\ resv' = resv /\ orphans' = orphans + 1
    BY DEF TurnDies
  <1>1. /\ Cardinality(Holding)' \in Nat
        /\ Cardinality(Holding) = Cardinality(Holding)' + 1
    BY <1>0, HolderLeaves
  <1>2. orphans \in Nat
    BY DEF ReservedInv, TypeOK
  <1>3. Cardinality(Holding)' + (orphans + 1) = Cardinality(Holding) + orphans
    BY <1>1, <1>2
  <1> QED  BY <1>0, <1>3 DEF ReservedInv, ReservedForSomebody

LEMMA ReservedChat ==
    ASSUME ReservedInv, NEW c \in Chats, ChatStep(c)
    PROVE  ReservedForSomebody'
  <1>0. TypeOK /\ c \in Users /\ Chats \subseteq Users
    BY DEF ReservedInv, Users
  <1>1. CASE Reserve(c)
    BY <1>1, Begins
  <1>2. CASE Release(c)
    BY <1>2, Ends
  <1>3. CASE TurnDies(c)
    BY <1>3, Dies
  <1>4. CASE ResetCounter(c)
    <2>1. Holding' = Holding
      BY <1>0, <1>4 DEF ResetCounter, Goes, Holding, TypeOK
    <2>2. resv' = 0 /\ orphans' \in Nat
      BY <1>0, <1>4 DEF ResetCounter, TypeOK
    <2> QED  BY <1>0, <2>1, <2>2, HoldingCount, EmptiesBacked
  <1>5. CASE StartChat(c) \/ GrantTrial(c) \/ DecideBilling(c) \/ CreateChat(c)
    <2>1. Holding' = Holding
      BY <1>0, <1>5 DEF StartChat, GrantTrial, DecideBilling, CreateChat, Goes,
         Holding, TypeOK
    <2>2. UNCHANGED <<resv, orphans>>
      BY <1>5 DEF StartChat, GrantTrial, DecideBilling, CreateChat
    <2> QED  BY <2>1, <2>2, KeepsBacked
  <1>6. CASE \/ BeginTurn(c) \/ FillCache(c) \/ Recache(c)
             \/ BeginVoice(c) \/ FillForVoice(c)
    <2>1. Holding' = Holding
      BY <1>0, <1>6 DEF BeginTurn, FillCache, Recache, BeginVoice,
         FillForVoice, Goes, Holding, TypeOK
    <2>2. UNCHANGED <<resv, orphans>>
      BY <1>6 DEF BeginTurn, FillCache, Recache, BeginVoice, FillForVoice
    <2> QED  BY <2>1, <2>2, KeepsBacked
  <1> QED  BY <1>1, <1>2, <1>3, <1>4, <1>5, <1>6 DEF ChatStep

LEMMA ReservedStep == ReservedInv /\ [Next]_vars => ReservedInv'
  <1> SUFFICES ASSUME ReservedInv, [Next]_vars PROVE ReservedInv'
    OBVIOUS
  <1>0. TypeOK /\ TypeOK'
    BY StepTypes DEF ReservedInv
  <1>1. CASE \E c \in Chats : ChatStep(c)
    BY <1>0, <1>1, ReservedChat DEF ReservedInv
  <1>2. ASSUME NEW u \in Users, Charge(u) \/ Record(u)
        PROVE  ReservedForSomebody'
    <2>1. Holding' = Holding
      BY <1>0, <1>2 DEF Charge, Record, Goes, Holding, TypeOK, Users
    <2>2. UNCHANGED <<resv, orphans>>
      BY <1>2 DEF Charge, Record
    <2> QED  BY <2>1, <2>2, KeepsBacked
  <1>3. ASSUME NEW t \in Tools, BeginTool(t)
        PROVE  ReservedForSomebody'
    <2>1. Holding' = Holding
      BY <1>0, <1>3, StoreCreditAssumption
      DEF BeginTool, Goes, Holding, TypeOK, Users
    <2>2. UNCHANGED <<resv, orphans>>
      BY <1>3 DEF BeginTool
    <2> QED  BY <2>1, <2>2, KeepsBacked
  <1>4. CASE DeskStep \/ CacheExpires \/ TrialEnds \/ UNCHANGED vars
    <2>1. UNCHANGED <<pc, resv, orphans>>
      BY <1>4 DEF DeskStep, Topup, AdminDebit, BuyPlacement, Invalidate,
         BackToBot, ClearForReopening, ReadForReopening, ReopenChats, DeskDies,
         CacheExpires, TrialEnds, vars
    <2>2. Holding' = Holding
      BY <2>1 DEF Holding
    <2> QED  BY <1>0, <2>1, <2>2, KeepsBacked DEF ReservedInv
  <1>5. CASE ReservationsExpire
    <2>1. Holding' = Holding /\ resv' = 0 /\ orphans' \in Nat
      BY <1>5 DEF ReservationsExpire, Holding
    <2> QED  BY <1>0, <2>1, HoldingCount, EmptiesBacked DEF ReservedInv
  <1> QED  BY <1>0, <1>1, <1>2, <1>3, <1>4, <1>5 DEF Next, ReservedInv

\* No reservation is left behind by a turn that ended, was refused or failed.
THEOREM ReservationsBelongToTurns == Spec => []ReservedForSomebody
  <1>1. Init => ReservedInv
    <2> SUFFICES ASSUME Init PROVE ReservedInv
      OBVIOUS
    <2>1. TypeOK
      BY InitTypes
    <2>2. Cardinality(Holding) + orphans \in Nat
      BY <2>1, HoldingCount DEF TypeOK
    <2>3. Estimate * (Cardinality(Holding) + orphans) \in Nat
      BY <2>2, Products
    <2> QED  BY <2>1, <2>3 DEF Init, ReservedInv, ReservedForSomebody
  <1>2. ReservedInv => ReservedForSomebody
    BY DEF ReservedInv
  <1> QED  BY <1>1, <1>2, ReservedStep, PTL DEF Spec

-----------------------------------------------------------------------------
(* Uses and purchases are paid.                                            *)

\* What the trial and the buckets would be charged for a use in a typed state.
LEMMA UseInState ==
    ASSUME TypeOK, NEW k \in Kinds, NEW raw \in RawCosts,
           NEW charges, charges = Charges(k, raw),
           NEW paid, paid = OfTrial(k, raw) * (Unit \div GlobalMarkup[k])
                  + Sum([s \in Sources |->
                            charges[s] * (Unit \div Markup[k][s])])
    PROVE  /\ raw * Unit <= paid
           /\ paid < raw * Unit + Unit
           /\ \A r, s \in Sources :
                   Markup[k][r] < Markup[k][s] /\ charges[s] > 0
                       => HealedBucket[r] <= charges[r]
  <1> DEFINE b == HealedBucket
             due == Due(k, raw)
             g == Unit \div GlobalMarkup[k]
             G == GlobalMarkup[k]
             f == Pays(k, charges)
             t == OfTrial(k, raw)
  <1>1. /\ b \in Amounts /\ HealedRows \in SUBSET Sources
        /\ trial \in Nat /\ raw \in Nat
    BY TypedLedger, Healed, StoreCreditAssumption
  <1>2. /\ Unit \in Nat \ {0} /\ G \in Nat \ {0} /\ g \in Nat \ {0}
        /\ g * G = Unit /\ g <= Unit
    <2>1. Unit \in Nat \ {0} /\ G \in Nat \ {0} /\ Unit % G = 0
      BY PlannerAssumption
    <2> QED BY <2>1, Exact
  <1>3. due \in Int
    <2>1. DueAfterTrial(k, raw, trial) \in Int
      BY <1>1, DueInt
    <2>2. raw * Unit \in Int
      BY <1>1, <1>2
    <2> QED BY <2>1, <2>2 DEF Due
  <1>4. charges = BucketCharges(k, b, HealedRows, due)
    BY DEF Charges
  <1>5. paid = t * g + Sum(f)
    BY DEF Pays
  <1>6. due <= 0 => Sum(f) = 0
    <2>1. due <= 0 => \A s \in Sources : charges[s] = 0
      <3> HIDE DEF b, due
      <3> QED BY <1>1, <1>3, <1>4, NothingDueNothingCharged
    <2>2. ASSUME due <= 0, NEW s \in Sources
          PROVE  f[s] = 0
      <3>1. f[s] = charges[s] * Parts(k, s)
        BY DEF Pays, Parts
      <3>2. Parts(k, s) \in Nat
        BY PartsExact
      <3> HIDE DEF f, due
      <3> QED BY <2>1, <2>2, <3>1, <3>2
    <2> HIDE DEF f, due
    <2> QED BY <2>2 DEF Sum, Sources
  <1>7. due > 0 => Sum(f) \in Int /\ due <= Sum(f) /\ Sum(f) < due + Unit
    <2> HIDE DEF b, due
    <2> QED BY <1>1, <1>3, <1>4, DueIsPaid
  <1>8. raw * Unit \in Nat /\ raw * Unit = (raw * G) * g /\ raw * G \in Nat
        /\ trial * g \in Nat
    <2> HIDE DEF g, G
    <2> QED BY <1>1, <1>2
  <1>9. raw * Unit <= paid /\ paid < raw * Unit + Unit
    <2>1. CASE TrialActive /\ raw * G <= trial
      <3>1. due = 0 /\ t = raw * G
        BY <2>1 DEF Due, DueAfterTrial, OfTrial, TrialCharge, Lesser
      <3> HIDE DEF due, t, g, G, f
      <3> QED BY <1>2, <1>5, <1>6, <1>8, <3>1
    <2>2. CASE TrialActive /\ ~(raw * G <= trial)
      <3>1. due = raw * Unit - trial * g /\ t = trial
        BY <2>2 DEF Due, DueAfterTrial, OfTrial, TrialCharge, Lesser
      <3> HIDE DEF due, t, g, G, f
      <3>2. trial * g < (raw * G) * g
        BY <1>1, <1>2, <1>8, <2>2, Scaled
      <3>3. due > 0
        BY <1>8, <3>1, <3>2
      <3> QED BY <1>1, <1>2, <1>5, <1>7, <1>8, <3>1, <3>3
    <2>3. CASE ~TrialActive
      <3>1. due = raw * Unit /\ t = 0
        BY <2>3 DEF Due, OfTrial
      <3>2. t * g = 0
        <4> HIDE DEF t, g
        <4> QED BY <1>2, <3>1
      <3> HIDE DEF due, t, g, G, f
      <3> QED BY <1>2, <1>5, <1>6, <1>7, <1>8, <3>1, <3>2
    <2> QED BY <2>1, <2>2, <2>3
  <1>10. ASSUME NEW r \in Sources, NEW s \in Sources,
                Markup[k][r] < Markup[k][s], charges[s] > 0
         PROVE  b[r] <= charges[r]
    <2> HIDE DEF b, due
    <2> QED BY <1>1, <1>3, <1>4, <1>10, ChargedCheapestFirst
  <1> QED BY <1>9, <1>10

\* Whatever the markups, the credit and the trial, a use of the model is paid in
\* full and by less than a toman too much, and no bucket pays while a cheaper one
\* has money (planDeduction).
THEOREM UsesArePaidCheapestFirst == Spec => []UseIsPaidCheapestFirst
  <1>1. TypeOK => UseIsPaidCheapestFirst
    BY UseInState DEF UseIsPaidCheapestFirst
  <1> QED BY <1>1, TypeCorrect, PTL

\* A purchase that the credit can afford pays its price at the global markup and
\* puts no bucket into debt (planFixedPriceDebit).
THEOREM PurchasesArePaidInFull == Spec => []PurchaseIsPaidInFull
  <1>1. ASSUME TypeOK, NEW price \in Prices, Affordable(HealedBucket, price)
        PROVE  LET charges == PriceCharges(HealedBucket, price)
               IN  /\ price * Unit <=
                          Sum([s \in Sources |-> charges[s] * GlobalMarkup["BUYER"]
                                           * (Unit \div Markup["BUYER"][s])])
                   /\ \A s \in Sources : charges[s] <= Positive(HealedBucket, s)
    <2>1. HealedBucket \in Amounts /\ price \in Nat \ {0}
      BY <1>1, TypedLedger, Healed, StoreCreditAssumption
    <2>2. \A s \in Sources :
              PriceCharges(HealedBucket, price)[s] <= Positive(HealedBucket, s)
      BY <2>1, PriceTakes
    <2>3. price * Unit <=
              Sum([s \in Sources |->
                       PriceCharges(HealedBucket, price)[s] * GlobalMarkup["BUYER"]
                           * (Unit \div Markup["BUYER"][s])])
      BY <1>1, <2>1, PriceIsPaid
    <2> QED BY <2>2, <2>3
  <1>2. TypeOK => PurchaseIsPaidInFull
    BY <1>1 DEF PurchaseIsPaidInFull
  <1> QED BY <1>2, TypeCorrect, PTL

-----------------------------------------------------------------------------
(* No needless debt.                                                       *)

\* Drift is only where a store has no buckets yet: from the first operation on,
\* the total is their sum.  So healing puts nothing into debt.
DebtInv == TypeOK /\ (Balanced \/ \A s \in Sources : bucket[s] = 0)

LEMMA DebtInit == Init => DebtInv
  <1> SUFFICES ASSUME Init PROVE DebtInv
    OBVIOUS
  <1>1. TypeOK
    BY InitTypes
  <1>2. CASE bucket = [s \in Sources |-> 0]
    BY <1>1, <1>2 DEF DebtInv
  <1>3. CASE bucket = [s \in Sources |-> IF s = "LEGACY" THEN balance ELSE 0]
    BY <1>1, <1>3 DEF DebtInv, Balanced, Sum, Sources, TypeOK
  <1> QED BY <1>2, <1>3 DEF Init

LEMMA DebtStep == DebtInv /\ [Next]_vars => DebtInv'
  <1> SUFFICES ASSUME DebtInv, [Next]_vars PROVE DebtInv'
    OBVIOUS
  <1>1. TypeOK /\ TypeOK'
    BY StepTypes DEF DebtInv
  <1>2. UNCHANGED <<balance, bucket>> \/ Balanced'
    BY <1>1, StepHeals DEF vars
  <1> QED BY <1>1, <1>2 DEF DebtInv, Balanced, Sum

\* The step of NoNeedlessDebt.
DebtNeeded ==
    \A s \in Sources :
            bucket'[s] < Lesser(0, HealedBucket[s]) =>
                \A r \in Sources : bucket'[r] <= 0

\* Charges that are needed leave no needless debt.
LEMMA NeededDebits ==
    ASSUME LedgerOK, NEW charges \in Amounts, NEW total,
           Debits(charges, total), Needed(HealedBucket, charges)
    PROVE  DebtNeeded
  <1> DEFINE b == HealedBucket
  <1>1. b \in Amounts
    BY Healed
  <1>2. ASSUME NEW s \in Sources
        PROVE  /\ bucket'[s] = b[s] - charges[s]
               /\ b[s] \in Int /\ charges[s] \in Int
    BY <1>1 DEF Debits, Amounts
  <1> HIDE DEF b
  <1> QED BY <1>2 DEF DebtNeeded, Needed, Positive, Lesser, b

LEMMA KeptBuckets ==
    ASSUME DebtInv, UNCHANGED <<balance, bucket>>
    PROVE  DebtNeeded
  <1>1. /\ \A s \in Sources : bucket[s] \in Int /\ bucket'[s] = bucket[s]
        /\ balance \in Int /\ bucket \in [Sources -> Int]
    BY DEF DebtInv, TypeOK
  <1>2. \A s \in Sources : HealedBucket[s] \in Int
    BY <1>1, TypedLedger, Healed DEF DebtInv, Amounts
  <1>3. CASE Balanced
    <2>1. \A s \in Sources : HealedBucket[s] = bucket[s]
      BY <1>1, <1>3 DEF Balanced, HealedBucket
    <2> QED BY <1>1, <2>1 DEF DebtNeeded, Lesser
  <1>4. CASE \A s \in Sources : bucket[s] = 0
    BY <1>1, <1>2, <1>4 DEF DebtNeeded, Lesser
  <1> QED BY <1>3, <1>4 DEF DebtInv

LEMMA DebtIsNeeded == DebtInv /\ Next => DebtNeeded
  <1> SUFFICES ASSUME DebtInv, Next PROVE DebtNeeded
    OBVIOUS
  <1>0. /\ TypeOK /\ LedgerOK
        /\ HealedBucket \in Amounts /\ HealedRows \in SUBSET Sources
    BY TypedLedger, Healed DEF DebtInv
  <1>1. ASSUME NEW u \in Users, Charge(u)
        PROVE  DebtNeeded
    <2>1. KindOf(u) \in Kinds
      BY DEF KindOf, Kinds
    <2>2. PICK raw \in RawCosts :
              Debits(Charges(KindOf(u), raw), Sum(Charges(KindOf(u), raw)))
      BY <1>1 DEF Charge
    <2>3. raw \in Nat /\ trial \in Nat
      BY <1>0, TypedLedger, StoreCreditAssumption
    <2>4. Due(KindOf(u), raw) \in Int
      <3>1. DueAfterTrial(KindOf(u), raw, trial) \in Int
        BY <2>1, <2>3, DueInt
      <3>2. raw * Unit \in Int
        BY <2>3, PlannerAssumption
      <3> QED BY <3>1, <3>2 DEF Due
    <2>5. Needed(HealedBucket, Charges(KindOf(u), raw))
      BY <1>0, <2>1, <2>4, UseIsNeeded DEF Charges
    <2>6. Charges(KindOf(u), raw) \in Amounts
      BY <1>0, <2>1, <2>3, UseTypes
    <2> QED BY <1>0, <2>2, <2>5, <2>6, NeededDebits
  <1>2. CASE Topup
    <2>1. PICK s \in TopupSources, a \in TopupAmounts : Credits(s, a)
      BY <1>2 DEF Topup
    <2>2. s \in Sources /\ a \in Nat
      BY StoreCreditAssumption
    <2>3. \A r \in Sources : HealedBucket[r] \in Int /\
              bucket'[r] = IF r = s THEN HealedBucket[r] + a ELSE HealedBucket[r]
      BY <1>0, <2>1, <2>2 DEF Credits, Amounts
    <2> QED BY <2>2, <2>3 DEF DebtNeeded, Lesser
  <1>3. CASE AdminDebit
    <2>1. PICK a \in AdminDebits : Debits(AdminCharges(HealedBucket, a), a)
      BY <1>3 DEF AdminDebit
    <2>2. a \in Nat \ {0}
      BY StoreCreditAssumption
    <2>3. AdminCharges(HealedBucket, a) \in Amounts
      BY <1>0, <2>2, AdminChargesExact
    <2> QED BY <1>0, <2>1, <2>2, <2>3, DebitByHandIsNeeded, NeededDebits
  <1>4. CASE BuyPlacement
    <2>1. PICK price \in Prices :
              Debits(PriceCharges(HealedBucket, price),
                     Sum(PriceCharges(HealedBucket, price)))
      BY <1>4 DEF BuyPlacement
    <2>2. price \in Nat
      BY StoreCreditAssumption
    <2>3. PriceCharges(HealedBucket, price) \in Amounts
      BY <1>0, <2>2, PriceChargesInt
    <2>4. Needed(HealedBucket, PriceCharges(HealedBucket, price))
      BY <1>0, <2>2, PriceTakes DEF Needed
    <2> QED BY <1>0, <2>1, <2>3, <2>4, NeededDebits
  <1>5. CASE UNCHANGED <<balance, bucket>>
    BY <1>5, KeptBuckets
  <1>6. CASE \E c \in Chats : ChatStep(c)
    BY <1>5, <1>6, ChatKeepsLedger
  <1>7. CASE \/ Invalidate \/ BackToBot \/ ClearForReopening
             \/ ReadForReopening \/ ReopenChats \/ DeskDies
             \/ ReservationsExpire \/ CacheExpires \/ TrialEnds
    BY <1>5, <1>7 DEF Invalidate, BackToBot, ClearForReopening, ReadForReopening,
       ReopenChats, DeskDies, ReservationsExpire, CacheExpires, TrialEnds,
       ledger
  <1>8. CASE (\E t \in Tools : BeginTool(t)) \/ \E u \in Users : Record(u)
    BY <1>5, <1>8 DEF BeginTool, Record, ledger
  <1> QED BY <1>1, <1>2, <1>3, <1>4, <1>6, <1>7, <1>8 DEF Next, DeskStep

\* No bucket goes into debt, or further into it, while another has money, be it
\* by a use, by an administrator or by a purchase.
THEOREM DebtIsNeverNeedless == Spec => NoNeedlessDebt
  <1>1. DebtInv /\ [Next]_vars => [DebtNeeded]_vars
    BY DebtIsNeeded
  <1>2. DebtInv /\ [Next]_vars =>
            [\A s \in Sources :
                bucket'[s] < Lesser(0, HealedBucket[s]) =>
                    \A r \in Sources : bucket'[r] <= 0]_vars
    BY <1>1 DEF DebtNeeded
  <1> QED BY <1>2, DebtInit, DebtStep, PTL DEF Spec, NoNeedlessDebt

=============================================================================
