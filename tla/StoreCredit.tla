----------------------------- MODULE StoreCredit -----------------------------
(***************************************************************************)
(* The credit of one store: the ledger (StoreCreditDeductionService), the  *)
(* trial (CreditService), the cached balance and the counter of            *)
(* reservations in Redis, and who uses them: chats whose turns reserve an  *)
(* estimate, voice messages that only look at the balance, the seller's    *)
(* own tools, and a desk, where payments, administrators and purchases     *)
(* change the credit.                                                      *)
(*                                                                         *)
(* A ledger operation is one transaction under the row lock of the store   *)
(* and so one step.  Every command to Redis and every read outside such a  *)
(* transaction is a step of its own.                                       *)
(***************************************************************************)
EXTENDS CreditPlanner, FiniteSets

CONSTANTS
    Chats,           \* conversations of the store, each with a turn at a time
    VoiceChats,      \* those that send voice messages
    Tools,           \* the seller's tools in the panel
    NoCache,         \* the key store:bal does not exist
    OpeningBalances, \* what a store may have when the buckets are introduced
    TopupSources,
    TopupAmounts,
    AdminDebits,     \* amounts an administrator takes away
    Prices,          \* of an advertising placement
    RawCosts,        \* cost of a use of a model
    TrialCredit,     \* config.trialCreditToman
    Estimate,        \* TURN_COST_ESTIMATE_TOMAN
    Floor,           \* OVERDRAFT_FLOOR_TOMAN
    SeveralUses,     \* whether a turn may be charged more than once
    TurnsMayOutlast, \* whether a turn may outlast TURN_RESERVATION_TTL_SECONDS
    MaxBalance,      \* bound: no top-up goes beyond it
    MaxDebt,         \* bound: no use of a model goes beyond it
    MaxDeaths        \* bound: turns that die and leave their reservation

ASSUME StoreCreditAssumption ==
    /\ Chats \cap Tools = {}
    /\ IsFiniteSet(Chats)
    /\ VoiceChats \subseteq Chats
    /\ NoCache \notin Int
    /\ OpeningBalances \subseteq Nat
    /\ TopupSources \subseteq Sources \ {"LEGACY"}
    /\ TopupAmounts \subseteq Nat \ {0}
    /\ AdminDebits \subseteq Nat \ {0}
    /\ Prices \subseteq Nat \ {0}
    /\ RawCosts \subseteq Nat
    /\ TrialCredit \in Nat \ {0}
    /\ Estimate \in Nat \ {0}
    /\ Floor \in Nat
    /\ SeveralUses \in BOOLEAN
    /\ TurnsMayOutlast \in BOOLEAN
    /\ MaxBalance \in Nat
    /\ MaxDebt \in Nat
    /\ MaxDeaths \in Nat

Users == Chats \cup Tools

VARIABLES
    balance,    \* store.creditBalanceToman
    bucket,     \* store_credit_buckets.balanceToman, 0 where there is no row
    held,       \* sources that have a row
    trial,      \* store.trialCreditRemainingToman
    trialPhase, \* NONE: trialStartedAt is null; OVER: trialEndsAt has passed
    cache,      \* store:bal
    resv,       \* store:resv, 0 where there is no key
    billing,    \* salesConversation.billingMode
    pc,         \* where a user is
    seen,       \* the spendable balance a user holds in a local variable
    desk,       \* what the desk still has to do
    trialSpent, \* history: what the usage events took from the trial
    orphans     \* history: reservations of dead turns

ledger == <<balance, bucket, held>>
trials == <<trial, trialPhase, trialSpent>>
vars == <<balance, bucket, held, trial, trialPhase, cache, resv, billing, pc,
          seen, desk, trialSpent, orphans>>

Places == {"new", "grant", "decide", "create", "idle", "fill", "reserve",
           "run", "recache", "release", "reset", "fillVoice", "use", "record"}

Holding == {c \in Chats : pc[c] \in {"run", "recache", "release"}}

TrialActive == trialPhase = "RUNNING" /\ trial > 0

Spendable == balance + (IF TrialActive THEN trial ELSE 0)

Init ==
    /\ balance \in OpeningBalances
    /\ \/ bucket = [s \in Sources |-> 0] /\ held = {}
       \/ /\ bucket = [s \in Sources |-> IF s = "LEGACY" THEN balance ELSE 0]
          /\ held = {"LEGACY"}
    /\ \/ trialPhase = "NONE" /\ trial = 0
       \/ trialPhase = "RUNNING" /\ trial = TrialCredit
    /\ cache = NoCache
    /\ resv = 0
    /\ billing = [c \in Chats |-> "PAID"]
    /\ pc = [u \in Users |-> IF u \in Chats THEN "new" ELSE "idle"]
    /\ seen = [u \in Users |-> 0]
    /\ desk = "idle"
    /\ trialSpent = 0
    /\ orphans = 0

\* The local variable is not used any more.
Forgets(u) == seen' = [seen EXCEPT ![u] = 0]

Goes(u, from, to) == pc[u] = from /\ pc' = [pc EXCEPT ![u] = to]

-----------------------------------------------------------------------------
(* The ledger.  Whatever the total and the buckets differ by is put into   *)
(* LEGACY before an operation looks at the buckets.                        *)

HealedBucketAsItIs == bucket

HealedBucket ==
    [bucket EXCEPT !["LEGACY"] = @ + (balance - Sum(bucket))]

HealedRows == IF balance = Sum(bucket) THEN held ELSE held \cup {"LEGACY"}

\* Takes the charges from the buckets, and an amount from the total.
Debits(charges, total) ==
    /\ bucket' = [s \in Sources |-> HealedBucket[s] - charges[s]]
    /\ held' = HealedRows \cup {s \in Sources : charges[s] > 0}
    /\ balance' = balance - total

Credits(s, amount) ==
    /\ bucket' = [HealedBucket EXCEPT ![s] = @ + amount]
    /\ held' = HealedRows \cup {s}
    /\ balance' = balance + amount

OfTrialUncapped(k, raw) ==
    IF TrialActive THEN raw * GlobalMarkup[k] ELSE 0

\* What a use of raw cost takes from the trial, and leaves to the buckets.
OfTrial(k, raw) == IF TrialActive THEN TrialCharge(k, raw, trial) ELSE 0

Due(k, raw) ==
    IF TrialActive THEN DueAfterTrial(k, raw, trial) ELSE raw * Unit

Charges(k, raw) == BucketCharges(k, HealedBucket, HealedRows, Due(k, raw))

KindOf(u) == IF u \in Chats THEN "BUYER" ELSE "SELLER"

\* deduct: the transaction.  The new balance is cached by a later step.
Charge(u) ==
    /\ \/ Goes(u, "run", "recache")
       \/ Goes(u, "use", "record")
    /\ \E raw \in RawCosts :
        /\ LET charges == Charges(KindOf(u), raw)
           IN  Debits(charges, Sum(charges))
        /\ trial' = trial - OfTrial(KindOf(u), raw)
        /\ trialSpent' = trialSpent + OfTrial(KindOf(u), raw)
    /\ balance' >= -MaxDebt
    /\ UNCHANGED <<trialPhase, cache, resv, billing, desk, orphans>>
    /\ seen' = [seen EXCEPT ![u] = Spendable']

-----------------------------------------------------------------------------
(* The first chat brings the trial; the mode of a chat is decided once. *)

\* Mutant: a trial that is used up or over is given again.
StartChatAnyhow(c) ==
    /\ pc[c] = "new"
    /\ pc' = [pc EXCEPT ![c] = IF ~TrialActive THEN "grant" ELSE "decide"]
    /\ UNCHANGED <<ledger, trials, cache, resv, billing, seen, desk, orphans>>

StartChat(c) ==
    /\ pc[c] = "new"
    /\ pc' = [pc EXCEPT ![c] = IF trialPhase = "NONE" THEN "grant"
                                                      ELSE "decide"]
    /\ UNCHANGED <<ledger, trials, cache, resv, billing, seen, desk, orphans>>

\* The trial is written without looking again whether there is one.
GrantTrial(c) ==
    /\ Goes(c, "grant", "decide")
    /\ trialPhase' = "RUNNING"
    /\ trial' = TrialCredit
    /\ UNCHANGED <<ledger, trialSpent, cache, resv, billing, seen, desk,
                   orphans>>

DecideBilling(c) ==
    /\ Goes(c, "decide", "create")
    /\ billing' = [billing EXCEPT ![c] =
                      IF TrialActive \/ balance > 0 THEN "PAID" ELSE "BLOCKED"]
    /\ UNCHANGED <<ledger, trials, cache, resv, seen, desk, orphans>>

CreateChat(c) ==
    /\ Goes(c, "create", "idle")
    /\ UNCHANGED <<ledger, trials, cache, resv, billing, seen, desk, orphans>>

-----------------------------------------------------------------------------
(* A turn.  One of a blocked chat hands over to the seller and costs       *)
(* nothing; the others reserve first.                                      *)

\* getSpendable: the cache, or else the database and later the cache.
BeginTurn(c) ==
    /\ pc[c] = "idle" /\ c \in Chats /\ billing[c] = "PAID"
    /\ pc' = [pc EXCEPT ![c] = IF cache = NoCache THEN "fill" ELSE "reserve"]
    /\ seen' = [seen EXCEPT ![c] = IF cache = NoCache THEN Spendable
                                                      ELSE cache]
    /\ UNCHANGED <<ledger, trials, cache, resv, billing, desk, orphans>>

FillCache(c) ==
    /\ Goes(c, "fill", "reserve")
    /\ cache' = seen[c]
    /\ UNCHANGED <<ledger, trials, resv, billing, seen, desk, orphans>>

ReserveKeepsRefused(c) ==
    /\ pc[c] = "reserve"
    /\ resv' = resv + Estimate
    /\ pc' = [pc EXCEPT ![c] = IF seen[c] - resv' > -Floor THEN "run"
                                                           ELSE "idle"]
    /\ Forgets(c)
    /\ UNCHANGED <<ledger, trials, cache, billing, desk, orphans>>

\* INCRBY, and the comparison of its answer with the balance read before.
Reserve(c) ==
    /\ pc[c] = "reserve"
    /\ resv' = resv + Estimate
    /\ pc' = [pc EXCEPT ![c] = IF seen[c] - resv' > -Floor THEN "run"
                                                           ELSE "release"]
    /\ Forgets(c)
    /\ UNCHANGED <<ledger, trials, cache, billing, desk, orphans>>

\* The end of deduct: outside the transaction.
Recache(c) ==
    /\ Goes(c, "recache", IF SeveralUses THEN "run" ELSE "release")
    /\ cache' = seen[c]
    /\ Forgets(c)
    /\ UNCHANGED <<ledger, trials, resv, billing, desk, orphans>>

\* releaseTurn: DECRBY; a counter below zero is deleted by another command.
\* A turn may also end without any cost.
Release(c) ==
    /\ pc[c] \in {"run", "release"}
    /\ resv' = resv - Estimate
    /\ pc' = [pc EXCEPT ![c] = IF resv' < 0 THEN "reset" ELSE "idle"]
    /\ UNCHANGED <<ledger, trials, cache, billing, seen, desk, orphans>>

ResetCounter(c) ==
    /\ Goes(c, "reset", "idle")
    /\ resv' = 0
    /\ UNCHANGED <<ledger, trials, cache, billing, seen, desk, orphans>>

\* The process dies in a turn; what it has reserved stays.
TurnDies(c) ==
    /\ pc[c] \in {"run", "recache", "release"}
    /\ orphans < MaxDeaths
    /\ orphans' = orphans + 1
    /\ pc' = [pc EXCEPT ![c] = "idle"]
    /\ Forgets(c)
    /\ UNCHANGED <<ledger, trials, cache, resv, billing, desk>>

ReservationsExpire ==
    /\ resv # 0
    /\ TurnsMayOutlast \/ Holding = {}
    /\ resv' = 0
    /\ orphans' = 0
    /\ UNCHANGED <<ledger, trials, cache, billing, pc, seen, desk>>

CacheExpires ==
    /\ cache # NoCache
    /\ cache' = NoCache
    /\ UNCHANGED <<ledger, trials, resv, billing, pc, seen, desk, orphans>>

TrialEnds ==
    /\ trialPhase = "RUNNING"
    /\ trialPhase' = "OVER"
    /\ UNCHANGED <<ledger, trial, trialSpent, cache, resv, billing,
                   pc, seen, desk, orphans>>

-----------------------------------------------------------------------------
(* Uses that reserve nothing *)

AboveFloor(amount) == amount > -Floor

\* canSpend before the transcription of a voice message.
BeginVoice(c) ==
    /\ pc[c] = "idle" /\ c \in VoiceChats /\ billing[c] = "PAID"
    /\ seen' = [seen EXCEPT ![c] = IF cache = NoCache THEN Spendable ELSE 0]
    /\ pc' = [pc EXCEPT ![c] = IF cache = NoCache THEN "fillVoice"
                               ELSE IF AboveFloor(cache) THEN "use"
                               ELSE "idle"]
    /\ UNCHANGED <<ledger, trials, cache, resv, billing, desk, orphans>>

FillForVoice(c) ==
    /\ pc[c] = "fillVoice"
    /\ cache' = seen[c]
    /\ pc' = [pc EXCEPT ![c] = IF AboveFloor(seen[c]) THEN "use" ELSE "idle"]
    /\ Forgets(c)
    /\ UNCHANGED <<ledger, trials, resv, billing, desk, orphans>>

\* hasUsableCredit on the row of the store.
BeginTool(t) ==
    /\ t \in Tools
    /\ TrialActive \/ balance > 0
    /\ Goes(t, "idle", "use")
    /\ UNCHANGED <<ledger, trials, cache, resv, billing, seen, desk, orphans>>

Record(u) ==
    /\ Goes(u, "record", "idle")
    /\ cache' = seen[u]
    /\ Forgets(u)
    /\ UNCHANGED <<ledger, trials, resv, billing, desk, orphans>>

-----------------------------------------------------------------------------
(* The desk *)

\* A completed payment, or an administrator's gift.
Topup ==
    /\ desk = "idle"
    /\ \E s \in TopupSources, a \in TopupAmounts :
        /\ balance + a <= MaxBalance
        /\ Credits(s, a)
    /\ desk' = "invalidate"
    /\ UNCHANGED <<trials, cache, resv, billing, pc, seen, orphans>>

AdminDebit ==
    /\ desk = "idle"
    /\ \E a \in AdminDebits :
        /\ Sum(HealedBucket) - a >= -Floor
        /\ Debits(AdminCharges(HealedBucket, a), a)
    /\ desk' = "invalidateOnly"
    /\ UNCHANGED <<trials, cache, resv, billing, pc, seen, orphans>>

\* Nobody clears the cached balance after a purchase.
BuyPlacement ==
    /\ desk = "idle"
    /\ \E price \in Prices :
        /\ Affordable(HealedBucket, price)
        /\ LET charges == PriceCharges(HealedBucket, price)
           IN  Debits(charges, Sum(charges))
    /\ UNCHANGED <<trials, cache, resv, billing, pc, seen, desk, orphans>>

Invalidate ==
    /\ desk \in {"invalidate", "invalidateOnly"}
    /\ cache' = NoCache
    /\ desk' = IF desk = "invalidate" THEN "clear" ELSE "idle"
    /\ UNCHANGED <<ledger, trials, resv, billing, pc, seen, orphans>>

\* reevaluateBlockedConversations, also when a chat goes back to the bot.
BackToBot ==
    /\ desk = "idle"
    /\ desk' = "clear"
    /\ UNCHANGED <<ledger, trials, cache, resv, billing, pc, seen, orphans>>

ClearForReopening ==
    /\ desk = "clear"
    /\ cache' = NoCache
    /\ desk' = "reread"
    /\ UNCHANGED <<ledger, trials, resv, billing, pc, seen, orphans>>

ReadForReopening ==
    /\ desk = "reread"
    /\ desk' = IF TrialActive \/ balance > 0 THEN "reopen" ELSE "idle"
    /\ UNCHANGED <<ledger, trials, cache, resv, billing, pc, seen, orphans>>

Exists(c) == pc[c] \notin {"new", "grant", "decide", "create"}

ReopenChats ==
    /\ desk = "reopen"
    /\ billing' = [c \in Chats |-> IF Exists(c) THEN "PAID" ELSE billing[c]]
    /\ desk' = "idle"
    /\ UNCHANGED <<ledger, trials, cache, resv, pc, seen, orphans>>

DeskDies ==
    /\ desk # "idle"
    /\ desk' = "idle"
    /\ UNCHANGED <<ledger, trials, cache, resv, billing, pc, seen, orphans>>

-----------------------------------------------------------------------------
ChatStep(c) ==
    \/ StartChat(c) \/ GrantTrial(c) \/ DecideBilling(c) \/ CreateChat(c)
    \/ BeginTurn(c) \/ FillCache(c) \/ Reserve(c) \/ Recache(c)
    \/ Release(c) \/ ResetCounter(c) \/ TurnDies(c)
    \/ BeginVoice(c) \/ FillForVoice(c)

DeskStep ==
    \/ Topup \/ AdminDebit \/ BuyPlacement \/ Invalidate \/ BackToBot
    \/ ClearForReopening \/ ReadForReopening \/ ReopenChats \/ DeskDies

Next ==
    \/ \E c \in Chats : ChatStep(c)
    \/ \E t \in Tools : BeginTool(t)
    \/ \E u \in Users : Charge(u) \/ Record(u)
    \/ DeskStep
    \/ ReservationsExpire \/ CacheExpires \/ TrialEnds

Spec == Init /\ [][Next]_vars

-----------------------------------------------------------------------------

TypeOK ==
    /\ balance \in Int
    /\ bucket \in [Sources -> Int]
    /\ held \subseteq Sources
    /\ trial \in 0..TrialCredit
    /\ trialPhase \in {"NONE", "RUNNING", "OVER"}
    /\ cache \in Int \cup {NoCache}
    /\ resv \in Int
    /\ billing \in [Chats -> {"PAID", "BLOCKED"}]
    /\ pc \in [Users -> Places]
    /\ seen \in [Users -> Int]
    /\ desk \in {"idle", "invalidate", "invalidateOnly", "clear", "reread",
                 "reopen"}
    /\ trialSpent \in Nat
    /\ orphans \in Nat

\* The invariant named at the head of StoreCreditDeductionService (70-73):
\* whatever the store had before, after any change of its credit the total is
\* the sum of the buckets.
LedgerHeals ==
    [][<<balance, bucket>>' # <<balance, bucket>> =>
            balance' = Sum(bucket')]_vars

\* A bucket goes (further) into debt only when no other has money left, be it
\* by a use of a model, by an administrator or by a purchase.
NoNeedlessDebt ==
    [][\A s \in Sources :
            bucket'[s] < Lesser(0, HealedBucket[s]) =>
                \A r \in Sources : bucket'[r] <= 0]_vars

\* What the trial and the buckets would be charged now for a use of the model
\* pays its cost, each at its own markup, and less than a toman beyond it; and
\* no bucket pays while a cheaper one has money (planDeduction).
UseIsPaidCheapestFirst ==
    \A k \in Kinds, raw \in RawCosts :
        LET charges == Charges(k, raw)
            paid == OfTrial(k, raw) * (Unit \div GlobalMarkup[k])
                  + Sum([s \in Sources |->
                            charges[s] * (Unit \div Markup[k][s])])
        IN  /\ raw * Unit <= paid
            /\ paid < raw * Unit + Unit
            /\ \A r, s \in Sources :
                    Markup[k][r] < Markup[k][s] /\ charges[s] > 0
                        => HealedBucket[r] <= charges[r]

\* A purchase that the credit can afford pays the price at the store's global
\* markup, however dear the buckets it is taken from (planFixedPriceDebit), and
\* leaves none of them below zero.
PurchaseIsPaidInFull ==
    \A price \in Prices : Affordable(HealedBucket, price) =>
        LET charges == PriceCharges(HealedBucket, price)
        IN  /\ price * Unit <=
                  Sum([s \in Sources |-> charges[s] * GlobalMarkup["BUYER"]
                                           * (Unit \div Markup["BUYER"][s])])
            /\ \A s \in Sources : charges[s] <= Positive(HealedBucket, s)

\* The chats that have seen no trial and are about to give it.
Granting == {c \in Chats : pc[c] = "grant"}

\* From when the trial is given, what it has paid and may yet pay for the store
\* never grows, although uses, its end and other first chats come in any order:
\* only a chat that looked before it began can write it once more, and a use
\* takes from it what it pays and not more (grantTrialIfFirstChat 30-50, deduct
\* 120-149).
TrialNeverGrows ==
    [][trialPhase # "NONE" =>
          trialSpent' + trial' + TrialCredit * Cardinality(Granting')
              <= trialSpent + trial + TrialCredit * Cardinality(Granting)]_vars

\* Every toman of the counter of reservations belongs to a turn that holds it,
\* or to one that died since the counter last expired: a refused turn and one
\* that failed give it back (reserveTurn 415-417, withTurnReservation 5436-5440).
ReservedForSomebody ==
    resv <= Estimate * (Cardinality(Holding) + orphans)

\* store-credit-deduction.service.ts:399-401: reservations keep the uses of
\* simultaneous chats above the floor.  What is left of an ended trial counts:
\* that a trial ends in the middle of a turn is not what this is about.
FloorHolds == balance + trial >= -Floor

=============================================================================
